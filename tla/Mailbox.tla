------------------------------ MODULE Mailbox ------------------------------
(***************************************************************************)
(* The mailbox of a service (src/mailbox.c) with the threads that use it.  *)
(*                                                                         *)
(*  - Producers run service_send: mailbox_try_push and, when it says so,   *)
(*    uv_async_send.  A push that finds the ring full leaves the lock to   *)
(*    allocate a ring of twice the size and comes back later, so several   *)
(*    producers may be growing the same mailbox.                           *)
(*  - The consumer is the thread of the service.  Messages may arrive      *)
(*    before it has an event loop to wake; once it runs, service_async_cb  *)
(*    and the Lua dispatcher pop one bounded batch per wakeup.             *)
(*  - Stop and mailbox_close come from any thread; then the service thread *)
(*    drains, and at last the mailbox is deleted.                          *)
(*                                                                         *)
(* A section between spin_lock and spin_unlock is one step.                *)
(***************************************************************************)
EXTENDS Naturals, Sequences, FiniteSets

CONSTANTS
    Producers,          \* threads that may be in service_send
    Messages,           \* message_t values, each handed to send at most once
    Empty,              \* the content of a slot nobody has written
    InitialCapacity,    \* mailbox_size of service_new
    MaxCapacity,        \* bound: no ring larger than this can be allocated
    BatchSize           \* DISPATCH_BATCH_SIZE of service.lua

ASSUME MailboxAssumption ==
    /\ InitialCapacity \in Nat \ {0}
    /\ MaxCapacity \in Nat
    /\ BatchSize \in Nat \ {0}
    /\ Empty \notin Messages

\* What is counted is finite.
ASSUME FiniteAssumption == IsFiniteSet(Messages) /\ IsFiniteSet(Producers)

VARIABLES
    \* struct mailbox
    items, capacity, head, tail, count,
    overload, overload_threshold, closed, scheduled,
    \* the locals of mailbox_try_push and service_send, per producer
    pc,                 \* where the producer is
    msg,                \* its message
    seen,               \* the capacity it saw when the ring was full
    spare,              \* slots of the ring it allocated, 0 for NULL
    \* the consumer and its event loop
    state,              \* "starting" (NEW too), "running" or "stopping"
    async,              \* inbox_async is pending
    consumer,           \* where the service thread is, "none" before it runs
    processed,          \* messages popped in this batch
    \* history
    unsent,             \* messages no producer has picked yet
    refused,            \* messages a push returned to its caller
    taken               \* messages popped or disposed of, in order

ring == <<items, capacity, head, tail, count>>
report == <<overload, overload_threshold>>
box == <<ring, report, closed, scheduled>>
locals == <<pc, msg, seen, spare>>
loop == <<async, consumer, processed>>
history == <<unsent, refused, taken>>
vars == <<box, locals, state, loop, history>>

-----------------------------------------------------------------------------
(* The ring *)

\* The slot i places after the head.
Slot(i) == (head + i) % capacity

\* What the mailbox holds, oldest first.
Contents == [i \in 1 .. count |-> items[Slot(i - 1)]]

\* A new array of n slots; malloc leaves them unwritten.
Unwritten(n) == [i \in 0 .. n - 1 |-> Empty]

\* Wrong forms, here and below, show that the properties can fail.  This one
\* copies the ring as if its head were at 0.
GrownUnrotated(n) ==
    [i \in 0 .. n - 1 |-> IF i < count THEN items[i] ELSE Empty]

\* grow_locked: the queued items, copied to the front of an array of n slots.
Grown(n) ==
    [i \in 0 .. n - 1 |-> IF i < count THEN items[Slot(i)] ELSE Empty]

\* Where "while (n > t) t *= 2" leaves t.
Raised(t, n) ==
    {u \in t .. t + 2 * n :
        /\ \E k \in 0 .. n : u = t * 2^k
        /\ n <= u
        /\ u = t \/ u < 2 * n}

-----------------------------------------------------------------------------
(* Producers: service_send and mailbox_try_push *)

Init ==
    /\ items = Unwritten(InitialCapacity)
    /\ capacity = InitialCapacity
    /\ head = 0 /\ tail = 0 /\ count = 0
    /\ overload = 0
    /\ overload_threshold = InitialCapacity
    /\ closed = FALSE
    /\ scheduled = FALSE
    /\ pc = [p \in Producers |-> "idle"]
    /\ msg = [p \in Producers |-> Empty]
    /\ seen = [p \in Producers |-> 0]
    /\ spare = [p \in Producers |-> 0]
    /\ state = "starting"
    /\ async = FALSE
    /\ consumer = "none"
    /\ processed = 0
    /\ unsent = Messages
    /\ refused = {}
    /\ taken = <<>>

\* A thread calls service_send with m.
Send(p, m) ==
    /\ pc[p] = "idle"
    /\ consumer # "deleted"
    /\ m \in unsent
    /\ unsent' = unsent \ {m}
    /\ pc' = [pc EXCEPT ![p] = "push"]
    /\ msg' = [msg EXCEPT ![p] = m]
    /\ UNCHANGED <<box, seen, spare, state, loop, refused, taken>>

\* Wrong: a stale spare ring is kept.
SpareKept(p) == spare[p]

\* Wrong: the spare ring is dropped at every retry.
SpareDropped(p) == 0

\* The spare ring as p finds it when it has the lock: one that was allocated
\* for a capacity the mailbox no longer has is freed.
SpareOf(p) == IF seen[p] = capacity THEN spare[p] ELSE 0

\* p leaves mailbox_try_push, to state l; its spare ring is freed.
Leave(p, l) ==
    /\ pc' = [pc EXCEPT ![p] = l]
    /\ msg' = [msg EXCEPT ![p] = Empty]
    /\ seen' = [seen EXCEPT ![p] = 0]
    /\ spare' = [spare EXCEPT ![p] = 0]

\* The sender keeps its message: the push returned FULL or CLOSED.
Refuse(p) ==
    /\ Leave(p, "idle")
    /\ refused' = refused \cup {msg[p]}
    /\ UNCHANGED <<box, state, loop, unsent, taken>>

\* Wrong: the message is stored as well as given back.
PushClosedStores(p) ==
    /\ pc[p] \in {"push", "retry"}
    /\ closed
    /\ count < capacity
    /\ items' = [items EXCEPT ![tail] = msg[p]]
    /\ tail' = (tail + 1) % capacity
    /\ count' = count + 1
    /\ Leave(p, "idle")
    /\ refused' = refused \cup {msg[p]}
    /\ UNCHANGED <<capacity, head, report, closed, scheduled, state, loop, unsent,
                   taken>>

PushClosed(p) ==
    /\ pc[p] \in {"push", "retry"}
    /\ closed
    /\ Refuse(p)

\* Storing a message claims the wakeup if nobody else has it.
Claim(p) ==
    /\ scheduled' = TRUE
    /\ Leave(p, IF scheduled THEN "idle" ELSE "notify")

\* Wrong: off by one.
RoomOffByOne == count <= capacity

\* The room the check looks at: a ring with a free slot.
HasRoom == count < capacity

PushStore(p) ==
    /\ pc[p] \in {"push", "retry"}
    /\ ~closed
    /\ HasRoom
    /\ items' = [items EXCEPT ![tail] = msg[p]]
    /\ tail' = (tail + 1) % capacity
    /\ count' = count + 1
    /\ Claim(p)
    /\ UNCHANGED <<capacity, head, report, closed, state, loop, history>>

\* The ring is full and p holds a spare one: grow, then store behind the copy.
PushGrow(p) ==
    /\ pc[p] \in {"push", "retry"}
    /\ ~closed
    /\ ~HasRoom
    /\ SpareOf(p) # 0
    /\ items' = [Grown(spare[p]) EXCEPT ![count] = msg[p]]
    /\ capacity' = capacity * 2
    /\ head' = 0
    /\ tail' = (count + 1) % (capacity * 2)
    /\ count' = count + 1
    /\ Claim(p)
    /\ UNCHANGED <<report, closed, state, loop, history>>

\* The ring is full and p has no spare: leave the lock to allocate.
PushFull(p) ==
    /\ pc[p] \in {"push", "retry"}
    /\ ~closed
    /\ ~HasRoom
    /\ SpareOf(p) = 0
    /\ pc' = [pc EXCEPT ![p] = "alloc"]
    /\ seen' = [seen EXCEPT ![p] = capacity]
    /\ spare' = [spare EXCEPT ![p] = 0]
    /\ UNCHANGED <<box, msg, state, loop, history>>

\* malloc outside the lock.
Allocate(p) ==
    /\ pc[p] = "alloc"
    /\ seen[p] * 2 <= MaxCapacity
    /\ spare' = [spare EXCEPT ![p] = seen[p] * 2]
    /\ pc' = [pc EXCEPT ![p] = "retry"]
    /\ UNCHANGED <<box, msg, seen, state, loop, history>>

\* malloc fails, or the size does not fit: MAILBOX_FULL.
AllocateFails(p) ==
    /\ pc[p] = "alloc"
    /\ Refuse(p)

\* The producer that claimed the wakeup sends it, unless the event loop does
\* not exist yet: then it is lost, and the start of the loop has to make up.
Notify(p) ==
    /\ pc[p] = "notify"
    /\ async' = (async \/ consumer # "none")
    /\ pc' = [pc EXCEPT ![p] = "idle"]
    /\ UNCHANGED <<box, msg, seen, spare, state, consumer, processed, history>>

Push(p) == PushClosed(p) \/ PushStore(p) \/ PushGrow(p) \/ PushFull(p)

Return(p) ==
    Push(p) \/ Allocate(p) \/ AllocateFails(p) \/ Notify(p)

-----------------------------------------------------------------------------
(* The consumer: service_async_cb, the Lua dispatcher and the drain *)

\* service_init_loop: from here on inbox_async can be sent.
InitLoop ==
    /\ consumer = "none"
    /\ consumer' = "init"
    /\ UNCHANGED <<box, locals, state, async, processed, history>>

\* The service becomes RUNNING unless it was stopped meanwhile.
Run ==
    /\ consumer = "init"
    /\ state = "starting"
    /\ state' = "running"
    /\ consumer' = "kick"
    /\ UNCHANGED <<box, locals, async, processed, history>>

\* Wrong: no first wakeup.
KickForgotten ==
    /\ consumer = "kick"
    /\ consumer' = "idle"
    /\ UNCHANGED <<box, locals, state, async, processed, history>>

\* The first wakeup covers the messages that came before the loop.
Kick ==
    /\ consumer = "kick"
    /\ async' = TRUE
    /\ consumer' = "idle"
    /\ UNCHANGED <<box, locals, state, processed, history>>

\* inbox_async fires; the callback does nothing unless the service is running.
Wake ==
    /\ consumer = "idle"
    /\ async
    /\ async' = FALSE
    /\ consumer' = IF state = "running" THEN "recv" ELSE "idle"
    /\ processed' = 0
    /\ UNCHANGED <<box, locals, state, history>>

\* service_recv looks at the state first and pops in a second step; a stopped
\* service ends the batch.
Recv ==
    /\ consumer = "recv"
    /\ consumer' = IF state = "running" THEN "pop" ELSE "report"
    /\ UNCHANGED <<box, locals, state, async, processed, history>>

\* mailbox_try_pop on a mailbox with a message.
TakeHead ==
    /\ count > 0
    /\ taken' = Append(taken, items[head])
    /\ head' = (head + 1) % capacity
    /\ count' = count - 1
    /\ \E u \in Raised(overload_threshold, count - 1) :
          /\ overload_threshold' = u
          /\ overload' = IF u = overload_threshold THEN overload ELSE count - 1
    /\ UNCHANGED <<items, capacity, tail, closed, scheduled, unsent, refused>>

\* mailbox_try_pop on an empty mailbox gives the wakeup back.
EmptyPop ==
    /\ count = 0
    /\ scheduled' = FALSE
    /\ overload_threshold' = InitialCapacity
    /\ UNCHANGED <<ring, overload, closed, history>>

\* One more message of the batch; the dispatcher stops at BatchSize.
PopMessage ==
    /\ consumer = "pop"
    /\ TakeHead
    /\ processed' = processed + 1
    /\ consumer' = IF processed + 1 = BatchSize THEN "report" ELSE "recv"
    /\ UNCHANGED <<locals, state, async>>

PopNothing ==
    /\ consumer = "pop"
    /\ EmptyPop
    /\ consumer' = "report"
    /\ UNCHANGED <<locals, state, async, processed>>

\* mailbox_overload, then on to the end of the batch if it was full.
ReportOverload ==
    /\ consumer = "report"
    /\ overload' = 0
    /\ consumer' = IF processed = BatchSize THEN "finish" ELSE "idle"
    /\ UNCHANGED <<ring, overload_threshold, closed, scheduled, locals, state,
                   async, processed, history>>

\* Wrong: always given back, as if the batch had emptied the mailbox.
FinishBatchBlind ==
    /\ consumer = "finish"
    /\ scheduled' = FALSE
    /\ consumer' = "idle"
    /\ UNCHANGED <<ring, report, closed, locals, state, async, processed,
                   history>>

\* mailbox_finish_batch and, if it says so, uv_async_send.
FinishBatch ==
    /\ consumer = "finish"
    /\ LET more == ~closed /\ count > 0 IN
          /\ scheduled' = (more /\ scheduled)
          /\ async' = (more \/ async)
    /\ consumer' = "idle"
    /\ UNCHANGED <<ring, report, closed, locals, state, processed, history>>

\* service_stop: the service leaves RUNNING, then closes the mailbox.
Stop ==
    /\ state # "stopping"
    /\ state' = "stopping"
    /\ UNCHANGED <<box, locals, loop, history>>

Close ==
    /\ state = "stopping"
    /\ ~closed
    /\ closed' = TRUE
    /\ UNCHANGED <<ring, report, scheduled, locals, state, loop, history>>

\* service_prepare_shutdown: the service thread waits for the senders that
\* are still inside (service_wait_pins) and then drains.
DrainBegin ==
    /\ consumer \in {"init", "idle"}
    /\ closed
    /\ \A p \in Producers : pc[p] = "idle"
    /\ consumer' = "drain"
    /\ UNCHANGED <<box, locals, state, async, processed, history>>

DrainMessage ==
    /\ consumer = "drain"
    /\ TakeHead
    /\ UNCHANGED <<locals, state, loop>>

DrainEnd ==
    /\ consumer = "drain"
    /\ EmptyPop
    /\ consumer' = "drained"
    /\ UNCHANGED <<locals, state, async, processed>>

\* mailbox_delete, by the thread that joined the service: what is left is
\* disposed of.  A service that never had a thread was not drained.
Delete ==
    /\ consumer \in {"none", "drained"}
    /\ closed
    /\ \A p \in Producers : pc[p] = "idle"
    /\ consumer' = "deleted"
    /\ taken' = taken \o Contents
    /\ items' = Unwritten(0)
    /\ count' = 0
    /\ UNCHANGED <<capacity, head, tail, report, closed, scheduled, locals,
                   state, async, processed, unsent, refused>>

\* Nothing is left to do.
Done ==
    /\ consumer = "deleted"
    /\ UNCHANGED vars

Consume ==
    \/ Run \/ Kick
    \/ Wake \/ Recv \/ PopMessage \/ PopNothing \/ ReportOverload \/ FinishBatch
    \/ DrainBegin \/ DrainMessage \/ DrainEnd

Next ==
    \/ \E p \in Producers : (\E m \in Messages : Send(p, m)) \/ Return(p)
    \/ Consume
    \/ InitLoop \/ Stop \/ Close \/ Delete \/ Done

\* Threads that are inside a call go on; a stop that has begun closes the
\* mailbox.  Nothing forces a send, a start, a stop or a deletion to happen.
Fairness ==
    /\ \A p \in Producers : WF_vars(Return(p))
    /\ WF_vars(Consume)
    /\ WF_vars(Close)

Spec == Init /\ [][Next]_vars

FairSpec == Spec /\ Fairness

-----------------------------------------------------------------------------
(* Properties *)

BoxType ==
    /\ capacity \in Nat \ {0}
    /\ head \in 0 .. capacity - 1
    /\ tail \in 0 .. capacity - 1
    /\ count \in 0 .. capacity
    /\ overload \in Nat
    /\ overload_threshold \in Nat

FlagType ==
    /\ closed \in BOOLEAN
    /\ scheduled \in BOOLEAN
    /\ async \in BOOLEAN

LocalsType ==
    /\ pc \in [Producers -> {"idle", "push", "alloc", "retry", "notify"}]
    /\ msg \in [Producers -> Messages \cup {Empty}]
    /\ seen \in [Producers -> Nat]
    /\ spare \in [Producers -> Nat]

LoopType ==
    /\ state \in {"starting", "running", "stopping"}
    /\ consumer \in {"none", "init", "kick", "idle", "recv", "pop", "report",
                     "finish", "drain", "drained", "deleted"}
    /\ processed \in 0 .. BatchSize

HistoryType ==
    /\ unsent \subseteq Messages
    /\ refused \subseteq Messages
    /\ taken \in Seq(Messages)

\* Every variable has its type: indices lie in the ring, there are never more
\* messages than slots, and only messages are handed to the consumer.
TypeOK == BoxType /\ FlagType /\ LocalsType /\ LoopType /\ HistoryType

\* capacity is the size of the allocated array even though the array that
\* grow_locked installs was sized before the lock was retaken, possibly by one
\* of several producers that grow the mailbox at once; and tail is where the
\* next message goes, count slots after the head.
RingWellFormed ==
    consumer # "deleted" =>
        /\ DOMAIN items = 0 .. capacity - 1
        /\ tail = Slot(count)

\* A message is in one place: not sent yet, in the hands of a sender, refused,
\* queued, or taken, and in a queue only once.  So no payload is freed twice or
\* forgotten, through any number of concurrent growths, closings and refusals.
Conserved ==
    LET inHand == {p \in Producers : msg[p] # Empty}
        queued == {i \in 1 .. count : Contents[i] \in Messages} IN
    /\ unsent \cup refused \cup {msg[p] : p \in inHand}
         \cup {Contents[i] : i \in 1 .. count}
         \cup {taken[i] : i \in 1 .. Len(taken)} = Messages
    /\ Cardinality(unsent) + Cardinality(refused) + Cardinality(inHand)
         + Cardinality(queued) + Len(taken) = Cardinality(Messages)

\* No lost wakeup: while a running service has a message, a wakeup is on its
\* way.  It has to survive the coalescing of wakeups by "scheduled", wakeups
\* dropped before the loop exists, and the end of a full batch.
NoLostWakeup ==
    (state = "running" /\ count > 0) =>
        /\ scheduled
        /\ \/ async
           \/ consumer \in {"kick", "recv", "pop"}
           \/ consumer \in {"report", "finish"} /\ processed = BatchSize
           \/ \E p \in Producers : pc[p] = "notify"

\* The mailbox behaves as the abstract queue whose contents are read off the
\* ring: first in first out, nothing lost, doubled or accepted after close.
Queue == INSTANCE MessageQueue WITH queue <- Contents

FirstInFirstOut == Queue!Spec

\* Once the service has a thread, each message a push accepted is eventually
\* taken, by a batch or by the drain, whatever stops the service.
AcceptedIsTaken ==
    \A m \in Messages :
        (consumer # "none" /\ m \in {Contents[i] : i \in 1 .. count})
            ~> m \in {taken[i] : i \in 1 .. Len(taken)}

\* A sender gets an answer: the loop that allocates outside the lock and
\* starts over when another producer was faster ends.
SendReturns ==
    \A p \in Producers : pc[p] # "idle" ~> pc[p] = "idle"

=============================================================================
