# service.lua in TLA+

A specification of service.lua: services that are Lua VMs, each on a thread
with a libuv loop of its own, which exchange messages through mailboxes.  The
modules are translated from the C and Lua sources; TLC checks them on small
instances (`PROJECT.json`, "runs"), TLAPS proves their safety properties for
every instance ("theorems"), all but one of the serializer.

    tlc -config MCMailbox.cfg MCMailbox        # and so on, see PROJECT.json
    tlapm MailboxProofs.tla                    # and so on, each *Proofs module
    tlapm Iteration.tla                        # and the induction they share

## 1. Inventory

| Part | State | Operations | Talks to |
|---|---|---|---|
| mailbox (`src/mailbox.c`) | ring of messages, `closed`, `scheduled`, overload threshold | push, pop, finish_batch, overload, close, delete | senders' threads, the service thread |
| service and pool (`src/service.c`) | id table, names, pins, `state`, start/join flags, async handles | new, start, stop, send, recv, join, free, pool delete, thread main, loop callbacks | all threads; two locks, a mailbox lock, libuv |
| RPC (`lua/service.lua`) | session number, three session tables, running coroutine | call, send, dispatch, sleep, reply_pending, quit | mailboxes of other services |
| bindings (`src/lservice.c`) | none | arguments in and out; start joins a service that failed to start | service and pool |
| bootstrap, root (`lua/service.lua`, `lua/service/root.lua`) | the pool it creates | start root, entry message, join, delete the pool | service and pool |
| scheduler (`lua/service/scheduler.lua`) | heap of tasks, one timer | at, daily, on_timer | luv timer of its service |
| serializer (`src/lua-seri.c`) | none between calls | pack, unpack, remove | payloads of messages |
| log (`src/log.c`) | level, format, once-flag | configure, write | stderr, shared with other processes |
| luv loader (`src/loadluv.c`) | status, path, handle, two symbols | prepare, load once, use per VM | dynamic linker |

What is hard here is concurrency and endings.  A sender works on a service
without a lock that stops the service from going away; a mailbox grows outside
its lock; wakeups are merged and may come before there is a loop to wake; a stop
may come at any moment of a start; a service that stops owes answers to the
requests it has accepted.  What makes each part correct:

- **mailbox**: first in, first out; nothing lost, doubled or accepted after it
  closed; a service with messages is never left asleep; senders return.
- **service and pool**: whoever holds a pin uses live objects; one thread
  joins and frees; a stop is carried through; start
  and pool deletion return; no request is forgotten; names are unique.
- **RPC**: an answer reaches the coroutine that asked; one answer per request;
  every call returns, unless memory for its answer was lacking.
- **bootstrap**: returns when root has ended, with the first reason for that,
  and leaves nothing behind.
- **scheduler**: tasks run in the order of their deadlines, all of them and in
  time, whatever happens to the clock, and a daily task once a day.
- **serializer**: unpack undoes pack, sharing and cycles included; tags that are
  changed after they were written are the right ones.
- **log**: the line stays within its buffer, records of several threads are not
  mixed, what is cut is marked as cut, lines have their priority, the setting of a thread is not undone
  by the initialization of another.
- **luv loader**: who uses luv finds it loaded, and all get the same answer.

`PROJECT.json` lists the hazards one by one, each at its line.

## 2. Modules

| Module | Models |
|---|---|
| `MessageQueue` | what a mailbox promises: an abstract FIFO queue that can be closed and disposed of |
| `Mailbox` | `mailbox.c` with the threads that use it |
| `MailboxProofs` | theorems about `Mailbox` |
| `ServicePool` | `service.c`: the life of the services of a pool |
| `ServicePoolProofs` | theorems about `ServicePool` |
| `Rpc` | sessions, coroutines and answers of `service.lua` |
| `RpcProofs` | theorems about `Rpc` |
| `TaskQueue` | what the scheduler promises about order, without a heap |
| `TaskHeap` | the binary heap of `scheduler.lua` as operators |
| `Scheduler` | registration, timer and drain of `scheduler.lua`, between two clocks |
| `SchedulerProofs` | theorems about `TaskHeap`, `Scheduler` and the refinement of `TaskQueue` |
| `Bootstrap` | `service.bootstrap`: host, root and its children, on top of `Rpc` |
| `BootstrapProofs` | theorems about `Bootstrap`, on top of `RpcProofs` |
| `Serializer` | `lua-seri.c`: pack, unpack and remove over small graphs of tables |
| `SerializerProofs` | theorems about `Serializer` |
| `Log` | `log.c`: configuration, the line buffer, writes |
| `LuvLoader` | `loadluv.c`: one load for all VMs |
| `ProcessWide` | what the services of a process share: `Log` and `LuvLoader` together |
| `ProcessWideProofs` | theorems about `ProcessWide`: the log and the luv loader |
| `Iteration` | lemmas: induction, and functions that repeat one turn of a loop |
| `MCMailbox`, `MCServicePool`, `MCBootstrap`, `MCScheduler`, `MCSerializer`, `MCProcessWide` | instances, symmetry and views for TLC |

The modules stack: `Mailbox` shows that the ring is the queue of
`MessageQueue`; `ServicePool` uses that queue and adds threads, pins and
lifecycle; `Rpc` uses the way a service stops in `ServicePool` (refuse, leave
RUNNING, drain, tell Lua, be gone) and adds what Lua keeps; `Bootstrap` adds the
host thread that runs the whole.  `Scheduler` stands beside them, inside the Lua
VM of one service, and is shown to implement `TaskQueue`.  `Serializer` is about
one VM as well.  `Log` and `LuvLoader` are state of the process: `ProcessWide`
lets threads load luv and log the failures, while others log and configure.

**Mailbox.**  The fields of `struct mailbox` are variables.  A section under
the spinlock is one action, so `mailbox_try_push` is `PushClosed`,
`PushStore`, `PushGrow` or `PushFull`, and the latter is followed by
`Allocate` or `AllocateFails` outside the lock and another try.  `Notify` is
`uv_async_send` in `service_send`; it has no effect while the service has no
loop, and `Kick` (line 703 of `service.c`) makes up for that.  The consumer is
`service_async_cb` with the dispatch loop: `Wake`, then `Recv` (a look at the
state) and `PopMessage`/`PopNothing` in turn, `ReportOverload`, and
`FinishBatch` after a full batch.  Then `Stop`, `Close`, the drain and
`Delete`.  `refused`, `taken` and `unsent` record where messages have gone.

**ServicePool.**  Each thread, host or service, is inside at most one API call;
`pc[t]` says where.  Sections under `pool->lock`, `state_lock` and the mailbox
lock are steps of their own, because the code releases one before it takes the
other: `service_stop` is `Stop`, `Retire`, `StopNew`/`StopActive`/`StopLate`,
`StopClose`, `StopControl`.  `main[s]` is the program counter of the service
thread: start-up (each part may fail), the script of the service, the loop with
its two callbacks, and the shutdown, which is run by `service_control_cb`
(labels `c_`) and again by `service_finish_thread` (labels `f_`).  A message
is reduced to who waits for a reply to it.  What Lua code computes is left
out, but it may make any call the constants allow, in a script or a handler.

**Rpc.**  A service that was not created has phase "none"; from `Create` on it can
be sent to.  A coroutine is named by the request it handles; `answering[s]` are
the coroutines with entries in `session_coroutine_address` and
`session_coroutine_response`.  The running coroutine may call, sleep, or end
with a response or an error, in any order.  `Drain` is
`service_drain_mailbox`, `NotifyStop` and `ReplyPending` are the call of the
dispatcher with "stop".  Two things go wrong in it as they do in the code.  A
mailbox that cannot grow refuses a message: a call then returns at once
(`CallRefused`), but an answer is gone, since neither `send_response` nor the drain
look at the result (the second disjunct of `SendAnswer`; `lost`).  And Lua code may
end the loop with `uv.stop` (`LoopReturns`; `returned`).  The service then goes
through the same steps, but its timers are still open when `reply_pending` runs,
and the `uv_run` of `service_finish_thread` fires those that are due: `WakeUp`
resumes a coroutine that has been answered for, and that answers once more.

**TaskHeap.**  The operators are the functions of the same names.  A loop is a
function of the number of turns: `Raised` and `Lowered` are one turn of `sift_up`
and `sift_down`, which change nothing once the loop has ended, and `Len(h) \div 2`
turns are enough, since each of them halves or doubles the index.  (A `RECURSIVE`
operator would say the same, but nothing could be proved about it.)

**Scheduler.**  `heap` is the table of that name with the tasks in it, each
with its `heap_index`; `left` is what remains of the timer.  `Enqueue`,
`EnqueueInAction`, `EnqueueFails` (with `heap_remove`) and `EnqueueRefused` are
the ways `enqueue` can end; `Fire`, `RunTask`, `EndOnce`/`EndDaily`, `EndDrain`
are the steps of `on_timer`, between which the actions of tasks register more
tasks and time passes.  `Tick` moves the wall clock and the timer together,
`SetClock` the wall clock alone, and the timer may be up to `MaxLag` early,
since libuv counts from the time its iteration began.  Every call that can fail
does (`ArmFails`, `DailyLost`, `DrainFails`).

**Bootstrap.**  `host` walks through `service.bootstrap`; root and the others
take the steps of `Rpc`.  Root spawns the others and waits for them to start, in
its script (`InScript`: its thread is in `service_init_lua`) or in a coroutine.
`Quit`, `QuitError` and `EntryFails` are the ways root ends by itself; the first two
are open to all Lua code of root (`RunsLua`): the script, where the start is cancelled
by it, coroutines, callbacks, and timers that fire after `uv.stop`.  The stop that
follows is taken in the steps of `Rpc`, and root does nothing else meanwhile
(`Blocked`).  `cause` records what came first, to be compared with what bootstrap
returns.

**Serializer.**  A program builds a graph of tables, packs it between other
values, and unpacks or removes the result.  Values are written and read item by
item, with the cookies, blocks and references of the code.  The recursion of
`pack_one` and `unpack_one` is a loop over `calls`, which says what the calls for
tables have still to do, the innermost first: `pack_next` writes the next value of
that call, takes its next entry or ends it, `unpack_next` reads a value or lets
the innermost call take the one just read.  `PackTurns` turns are enough, since no
table is entered twice, and so are twice as many as the buffer has bytes, since
each value read takes a byte at least and is taken once.  The limits of the code
are parameters, and the bytes of strings and numbers are counted but have no value.
A value of a type that cannot be packed ends pack half-way (`PackFails`), and so
does an error of a `__pairs` or of the Lua stack at any table (`PackRaises`).  The
entries of a table with `__pairs` are those that it yields.

**Log.**  `log_write` is `LogWrite` (level check, initialization) and `LogEmit`,
which fills the buffer with head, location, lines and newline and then calls
`write` as often as it takes; `WriteSome` is a partial write.  The buffer is a
sequence of kinds of byte, enough to see where a line begins and what was cut.
The loop over the lines of a message is `NextLine`, one turn, and `Lines`, as many
turns as the message has bytes; a turn takes at least one.
`Begin` to `OnceDone` are `pthread_once`; `SetLevel` and `SetFormat` are atomic
stores.

**LuvLoader.**  `Prepare` is the section under `loader_lock`, `LoadRuns` to
`LoadDone` the function that `pthread_once` runs, and `Returns` what all callers
do after it.

Operators marked "Wrong" are plausible errors in the code; each is put in place
of the definition after it to show that a property notices ("mutants").

## 3. Plan

Done: all parts are modelled and checked, and the safety properties of all of
them are proved but for `RoundTrip` of the serializer.  Left, in this order:

1. A proof of `RoundTrip` (see "Only model-checked").
2. The calendar arithmetic of the scheduler (`days_from_civil`) against a
   reference that counts days.
3. The list of idle hooks.

## 4. What is checked

| Run | Instance | Shows |
|---|---|---|
| `mailbox` | 2 producers, 4 messages, rings of 1, 2, 4, batches of 2 | `TypeOK`, `RingWellFormed`, `Conserved`, `NoLostWakeup`, `FirstInFirstOut`, `AcceptedIsTaken`, `SendReturns` |
| `pool` | 1 host with 5 calls, 2 services with 1 call each | `TypeOK`, `SendIsSafe`, `StopOfRunningIsSafe`, `NoneDropped`, `FreedPoolIsUnused`, no deadlock |
| `pool_liveness` | 2 hosts, 1 service, all calls, `uv.stop` allowed | `FreedOnce`, `StopCompletes`, `StartReturns`, `DeletionCompletes` |
| `bootstrap` | root, 1 child, entry command and 2 calls, 2 session numbers, 1 fault (an answer lost or a `uv.stop`) | `TypeOK`, `AnswersMatch`, `AnsweredOnce`, `CallsOwed`, `FailureReported`, `BootstrapReturns`, `CallsReturn` |
| `scheduler` | 4 calls of `at` and `daily`, batches of 2, one failure, one setting of the clock | `TypeOK`, `HeapSound`, `WakesInTime`, `OncePerDay`, `InOrder`, `CatchesUp` |
| `serializer` | every graph of up to 3 tables with up to 4 entries, shared, cyclic, as keys, one with `__pairs`, between other values | `TypeOK`, `RoundTrip`, `AssertionsHold` |
| `process_wide` | 2 threads that load luv and make one call each, messages of every length and line break near the end of the buffer, valid and invalid environments | `LogTypeOK`, `RecordsWhole`, `TruncationShown`, `LinesPrefixed`, `SettingStays`, `LoadedWhenUsed`, `SameAnswer` |

**Bounds.**  Capacities start at 1 (the code: 16 and up) and the batch is 2
(256), so that growth, wrap-around, full and exact batches all happen within
four messages; with two producers one holds a ring of the wrong size while the
other grows.  `MaxCapacity` stands for a failing `malloc`, which may also fail
earlier.  The hosts' calls suffice for new, start, stop, send and join or
delete, in any split.  Two session numbers (the code: 2^32-1) make numbers wrap,
be skipped and run out: a number is in use again while a late answer to its
former call may be under way.  Two services suffice for mutual calls, mutual stops and
mutual drains.  In `bootstrap` root calls the child and the child calls root
back.  One fault is enough for each exception to happen: one answer lost, with a
caller that waits for it and a second one that waits for the first, or one loop
ended by `uv.stop` with a coroutine asleep.  `MaxFaults` bounds them because every
fault multiplies the states, and nothing in the properties counts them; the proofs
have any number.  The scheduler has batches of 2 (256), waits of at most 2 ticks (60 s),
days of 2 and a clock that stops at 3, so that tasks are in time, late by a day,
equal in deadline, more than a batch, and further away than one wait; four tasks
make a heap of three levels.

The serializer has blocks of 4 bytes (128), cookies up to 4 (32), a depth of 2
(31), 2 references (32) and numbers to the base 3 in words of 2 digits.  With 4
entries a graph of 3 tables has an array of several items, a chain of three
so that a table is entered below the depth that has a place for it (`pack_one`, line
509, and `unpack_table`, line 650), more shared tables than references, a cycle through all three, and
records that cross a block at every offset; `Around` shifts them.  The log has
lines of 11 bytes (4096) with heads of 4, which leaves room for a location, a
message of several lines and the mark of truncation, in which each of them can
be the part that does not fit.  `PIPE_BUF` is the same, as on Linux.

A deadlock is an error in all passing runs; `Done`, `Quiet` and
`BootRest` say where the system may rightly be at rest: `Quiet` that only a
thread joining a service that nobody stops may be left waiting, `BootRest` that
bootstrap has returned or that root runs and has nothing to do, and that no
coroutine is left waiting for an answer that was not lost (`AtRest`).  In `pool` the
absence of deadlocks shows that two services that drain at the same time do not
wait for each other.  In `process_wide` the absence of
deadlocks also shows that a warning about the environment does not wait for the
initialization it is part of.

**Symmetry and view.**  In `mailbox`, `MCSpec` lets producers send in a fixed order of messages and idle
producers act in a fixed order (`Canonical`): it restricts who sends what, not
when, so that its behaviours are those of `Spec` up to names, and liveness may be
checked with it.  `View` in `pool` forgets the locals of calls that have
returned.

**Fairness.**  Threads are scheduled (weak fairness of the steps of a call and
of the service thread).  libuv serves every pending async handle in an
iteration of the loop, hence strong fairness of the two callbacks in
`ServicePool`.  Lua handlers end: in `ServicePool` by the bound on their
calls, in `Bootstrap` by strong fairness of `Return`; the documentation names handlers
that never yield as a limit.  In `Bootstrap` the host
thread runs as well.  In `Scheduler` time passes, libuv runs a timer that is due,
and actions return.  Nothing obliges anyone to send, start, stop,
join or delete.

### Disagreements with the code

Five runs end in a counterexample, against what a comment or the documentation
says ("findings"):

- `stop_is_safe`: `service_stop` uses the mailbox and `control_async` after
  unlocking.  A join by another thread may have deleted the mailbox, and a
  service thread that is still starting may have closed the handle and its
  loop.  `StopOfRunningIsSafe` in run `pool` shows that both are excluded when
  the stop finds the service RUNNING, as long as Lua code does not call `uv.stop`.
- `serializer_keys`: pack writes the keys of a table one level deeper than
  unpack reads them, so that a table with a table for a key comes back wrong
  when it is part of a cycle (`t[t] = 1` cannot be unpacked at all).
  `RoundTrip` shows that all other graphs come back.
- `dropped_requests`: requests accepted by a service that never gets a thread
  are disposed of without an ERROR.  `NoneDropped` shows that this is the only
  way to lose one.
- `delete_while_spawning`: Lua code that creates a service during
  `service_pool_delete` makes it hang or give up.  `DeletionCompletes` holds
  when no service does so.

- `boot_reason`: `doc/api.md` and `doc/guide.md` say that bootstrap returns true when
  root calls `service.quit()`.  In its script this cancels the start, and bootstrap
  returns SERVICE_START_FAILED (the same after `quit(err)`, whose `err` is recorded
  and never asked for).  After the start, but before the entry command is sent,
  it makes the command be refused, and bootstrap returns the refusal.
  `FailureReported` says what is left: of a root that has started, the first failure
  is reported, and success never in place of a failure.

One is seen in a run that passes, because its property excepts exactly that:

- In run `process_wide`, a journal record that is cut at the beginning of a line ends
  with a line `...` that has no priority, while `doc/api.md` and a comment of
  `emit` promise it of every line.  `LinesPrefixed` says that every line that shows
  any of the message has it; without its exception `OnlyMark` the run fails.

Seen in the models as well:

- `doc/api.md` concludes from mailboxes without a limit that responses always
  arrive, a few lines after it has listed MAILBOX_FULL for want of memory.  A
  response that is refused so is lost, and its caller waits until it is stopped.
  `CallsOwed` and `CallsReturn` except it, and whoever waits for such a caller.
- After `uv.stop` a request may be answered twice, and the second answer may resume
  a coroutine that waits for something else under the same session number.
  `AnsweredOnce` excepts services that have called it, `AnswersMatch` pools in which
  one has.
- An entry command that raises an error after `quit()` is reported as success.
- If `service.new` raises an error in bootstrap, the new pool is not freed.
- The errors for a Lua function among the values (`lua-seri.c`, line 497), from a
  `__pairs` (lines 322 and 327) and from `luaL_checkstack` (line 379) are raised
  without `wb_free`, and blocks are leaked.  Memory is not modelled.

## 5. What is proved

Every theorem holds for all values of the constants under the named assumptions
of the modules.  They exclude what the code excludes (capacities, batches, days
and session ranges of 0; marks such as `None` and `Empty` among the values they
mark the absence of), and say besides that

- producers and messages are finite in number (`FiniteAssumption`; only
  `MessagesAreConserved` needs it, which counts), and so are hosts;
- a pool has at least one id (`MaxServices`), as the code's constant has;
- the log's buffer holds a head, a priority and a newline and is not larger than
  `PIPE_BUF` (`LogAssumption`; `log.c`, line 17, gives the latter as the reason for the
  size), and calls have the arguments that `lservice_log` and `lservice_log_config` let pass
  (`CallsAssumption`);
- cookies of the serializer are 5 bits at most, a depth and the mark of a long
  array fit into one (`SerializerAssumption`), and the program packs Lua values
  (`ProgramAssumption`).

For each specification there is one inductive invariant.  TLC has checked them on
the instance of a run before they were proved; of the serializer and of the
contents of a record only the properties themselves, since the invariants of
those proofs are about the turns of loops within one step.

### Mailbox (`MailboxProofs`)

- `TypeCorrect`: `Spec => []TypeOK`
- `RingIsWellFormed`: `Spec => []RingWellFormed`
- `WakeupsAreNotLost`: `Spec => []NoLostWakeup`
- `MessagesAreConserved`: `Spec => []Conserved`
- `MailboxIsQueue`: `Spec => FirstInFirstOut`, the refinement of
  `MessageQueue` under `queue <- Contents`

The invariant is `IInv`:

- `TypeOK`;
- `RingInv`: the array has `capacity` slots, `tail` is `count` slots after the
  head, and the slots in between hold messages.  `RingWellFormed` alone does not
  tell that what is popped is a message;
- `SpareInv`: what a producer remembers across the unlocked allocation.  The
  ring it holds has twice the size of the capacity it has *seen*; that is why
  comparing `seen` with `capacity` is enough before the ring is installed;
- `PhaseInv`: which labels of the consumer go with which states, so that a
  running service is neither draining nor deleted;
- `WakeInv`: with messages queued, `scheduled` is set and some party is bound
  to act on it.  It also covers a service that is still starting, where the
  wakeup may already be lost and `Kick` is owed.

The refinement shows that a store appends to `Contents` (`StoreAppends`, also
through growth, where the slots are renumbered from 0) and a pop removes its
head (`PopTakesHead`); the rest of the steps leave `Contents` alone or delete it.
The arithmetic of the ring is in `ModOnce`, `SlotValue`, `SlotDistinct`,
`SlotNext` and `SlotPop`.  `Conserved` follows from `PlaceInv`: the places cover
all messages, and the sizes of the places add up to the number of messages, so
that none is in two.

### Services and pool (`ServicePoolProofs`)

- `NamesAreUnique`: `Spec => []UniqueNames`.  No run has names.  `UniqueNames` is
  inductive together with the fact that only ids below `next_id` are routable
  (`NamesInv`): the loop in `service_new` looks no further than that.
- `PoolTypeOK`, `PoolSendIsSafe`, `PoolFreedOnce`, `PoolNoneDropped`,
  `PoolFreedIsUnused`: the invariants of runs `pool` and `pool_liveness`.
- `PoolStopOfRunningIsSafe`: `StopOfRunningIsSafe` if `~LoopMayReturn`, that is, if
  Lua code does not call `uv.stop`.  The run has the same assumption.

The invariant is `PoolInv`.  None of the properties is inductive by itself,
since they say what is safe and not why:

- `PinInv`: `send_pins[s]` is the number of threads between pin and unpin, which
  is why whoever waits for 0 (`Shutdown`, `Joiner`) waits for all of them;
- `Life`, `Handles`: how state, thread, mailbox and handles of a service go
  together; both async handles exist as long as the loop runs;
- `Shutdown`: what each step of `service_prepare_shutdown` has achieved (not
  routable, then closed, then no pins, then drained).  The order is what
  `NoneDropped` rests on;
- `JoinInv`: one thread joins, and its place in `service_join` and
  `service_free` tells how far the service is;
- `StopInv`, `RunInv`: of several stops one signals the thread, and until it
  has done so the thread stays in its loop, with its handles open;
- `DeletionInv`: the deleting host is alone, and what its second loop has passed
  is freed.

`FreedOnce` counts joiners, and `PinInv` senders: the lemmas about cardinalities
of sets that gain or lose one thread come from `FiniteSetTheorems`.

### RPC (`RpcProofs`)

- `RpcTypeOK`, `RpcAnsweredOnce`, `RpcAnswersMatch`, `RpcCallsOwed`: for any
  services, requests, session numbers and faults.

`IInv` says of every request that it is in one place: in the mailbox of its
receiver once (`MessageInv`, `OrderInv`), being handled (`AnsweringInv`), or
answered (`SentInv`).  `AnsweredOnce` needs that, and the phase of the stop in
which `reply_pending` has answered a coroutine whose entry is not yet cleared.
`AnswersMatch` needs `IsAwaited`, which goes the other way round: as long as an
answer is owed or under way, the session number of the call is occupied by the
coroutine that waits, so that `allocate_session` skips it.  `CallsOwed` is part
of the invariant, with the answers that were lost for its exception.  `uv.stop`
spoils `IsAwaited`, since a second answer may take the number away from its call,
and lets an answer be in a mailbox twice; `Loose` marks the parts of `IInv` that
hold only before.  What `CallsOwed` needs is not among them.

### Bootstrap (`BootstrapProofs`)

- `BootImplementsRpc`: `BootSpec => Spec`, every step of a booted pool is a step of
  `Rpc` or leaves its variables alone;
- `BootCalls`: so `TypeOK`, `AnswersMatch`, `AnsweredOnce` and `CallsOwed` are
  invariants of `BootSpec`, which is what run `bootstrap` checks;
- `BootFailureReported`: `BootSpec => []FailureReported`.

The invariant is `BootInv`, next to `IInv` of `Rpc`: `RootInv` says that a root that
has started does not end without a cause or `uv.stop`, and relates its phase to
where the host is; `CauseInv` how `cause` and `exit_error` may differ (a `quit`
leaves no message, so that a later failure may be kept as the first);
`ResultInv` what bootstrap takes from them.  The steps of `Rpc` are summarised by
their effect on root (`RootEffect`).

### Scheduler (`SchedulerProofs`)

- `SchedulerTypes`, `HeapIsSound`, `TasksWakeInTime`: the invariants of run
  `scheduler`;
- `DailyOncePerDay`: `Spec => OncePerDay`, an action property;
- `RunsInOrder`: `Spec => InOrder`, the refinement of `TaskQueue`.

The first half is about the heap, for sequences of any length.  `SiftUp` and
`SiftDown` go through their loops turn by turn: a heap with one task in the wrong
place (`UpHeap`, `DownHeap`) stays one (`UpSwap`, `DownSwap`), with the same
tasks in it, and after `Len(h) \div 2` turns the index has come to an end of the
heap.  From them follow `HeapPush`, `HeapPop` and `HeapRemove`, where the
last task takes another's place and needs to move one way only, and
`FirstIsLeast`: the task at 1 comes before all others.

The invariant `SchedulerInv` of the second half has the heap and the numbers of
its tasks (`QueueInv`), the task that is being run (`LoopInv`: it was due, which
`OncePerDay` needs), the timer (`AlarmInv`) and `WakesInTime` itself.

### Log (`ProcessWideProofs`)

- `LogTypes`, `LogRecordsWhole`, `LogSettingStays`: `Spec` of `ProcessWide`
  implies `[]LogTypeOK`, `[]RecordsWhole`, `[]SettingStays`;
- `LogTruncationShown`, `LogLinesPrefixed`: and `[]TruncationShown`,
  `[]LinesPrefixed`, which are about what is in a record.

`NextLineFits` is the invariant of the loop over the lines, `LinesFit` and the
lemmas beside it bound the rest of `emit`, so that no record is longer than
`LOG_LINE_MAX`.  Since that is at most `PIPE_BUF`, every write is whole
(`WriteInv`).  `OnceInv` says that one thread initializes, that the others wait for it,
and that nothing has been chosen before it ends, which makes `SettingStays`
inductive.

The contents of a record are settled in `emit`, so that the invariant of the
last two theorems (`ContentInv`) says of a record on its way that it has them.
The work is in two more invariants of the loop over the lines: as long as nothing is
cut, the buffer without what the log adds is the part of the message that was
read (`TextInv`, `NextLineText`); and every newline in the buffer that has a byte
after it is followed by the whole priority, or, once something is cut, by the
beginning of one and nothing else (`LineInv`, `NextLineLines`): then the mark of
truncation makes the line that `LinesPrefixed` excepts.
`LinesHold` carries them through the loop, `CutInLines` and `UncutInLines` through the
mark of truncation or the last newline, `EmitHolds` puts them together.

### luv loader (`ProcessWideProofs`)

- `LoadedBeforeUse`: `Spec => []LoadedWhenUsed`
- `AllToldTheSame`: `Spec => []SameAnswer`

The inductive invariant `LoaderInv` says that at most one thread is inside the
initialization (`OneLoads`), how much of it is done at each of its labels
(`Progress`), and that whoever has an answer got it after the initialization had
ended (`Answers`), after which nothing changes the status any more.

### Serializer (`SerializerProofs`)

- `SerializerType`: `Spec => []TypeOK`; with it, that no cookie exceeds its bits
- `SerializerAsserts`: `Spec => []AssertionsHold`, the assertion of `change_mark`

for any graph of tables, block size, depth and number of references.

Pack is one step of the specification, and the argument is about the loop in it.
`change_mark` writes to a place it remembers from long before, in a block that
may be far from the last; that there is still the tag of a table, not yet
changed, is the invariant `Good` of the writer:

- `Chained`: all blocks but the last are full, and `len` counts their bytes, so
  that pushing bytes changes none that are written (`Grows`, `PushGood`);
- `Known`: every table met has a place, in the array of the C code or, once there are
  more than `MAX_REFERENCE`, in the Lua tables that replace it;
- `Tagged`: each place that is kept has the tag of a table, and no two places
  are the same.  Without the latter, changing one tag could spoil another.

`TagGood` shows it for a table met for the first time, also where the places
move from one store to the other, `MarkTable` and `LookupRef` for one met again,
after which its place is forgotten.  `Packing` adds that there is a call for each
level of nesting; `PackNext` shows that a turn keeps it and `PackFrom` that it
holds at the end.  `SeriBytes` turns blocks into the
buffer.  The inductive invariant of the specification, `SInv`, needs no more than
tables of Lua values and a buffer of bytes.

### Loops (`Iteration`)

The provers cannot use an induction rule that takes a predicate for a parameter.
`NatInd` is induction over a set of numbers, proved from the well-foundedness of
`<`; `Iterated` says that a function exists that repeats a step, `IteratedAt` and
`IteratedUpto` the same for a step that depends on the number of the turn and for a
bounded number of turns, `LoopInvariant` that a set that is closed under the step
is not left.  With them, a
loop that is written as `turn[n] == IF n = 0 THEN first ELSE Step(turn[n - 1])` can
be reasoned about: see `SiftUpIsLoop`, `SiftDownIsLoop`, `LinesIsLoop`,
`WithoutIsLoop`, `PushIsLoop` and `PackFrom`.

### Only model-checked

The liveness properties, since the proof system does not do fairness
(`AcceptedIsTaken`, `SendReturns`, `StopCompletes`, `StartReturns`,
`DeletionCompletes`, `CallsReturn`, `BootstrapReturns`, `CatchesUp`), and the
absence of deadlocks, which is a matter of `ENABLED`.  And `RoundTrip`: that reading
gives back what was written needs a correspondence between the tables written and
the tables read at every byte of the stream, with the calls of reader and writer
in step, over streams that the writer goes back to change.

## 6. What is not modelled

- The bytes of payloads (but for their number, in `Serializer`), configuration
  buffers, and checks of arguments.
- The spinlock and the pthread locks themselves: a locked section is a step.
  The memory model matters only outside of them; `service_pool_delete` reads
  `next_id` without a lock, and the model gives it the current value.
- libuv and luv: an async handle is pending or not, merges its signals, and
  is closed with its loop.  Other handles of Lua code appear as `Sleep` and
  `WakeUp` only.
- The bound on a batch is in `Mailbox`, not in `ServicePool`.  The replies of
  `reply_pending` are in `Rpc`, not in `ServicePool`.
- In `Rpc` every service that is created gets a thread; requests to services that
  never get one are the matter of `dropped_requests`.
- Of the scheduler: parsing of dates, fractions of a millisecond, daylight
  saving (days have equal length), the binding to one service, and an action that
  runs the loop itself.  A failed start of the timer leaves earlier tasks without
  one until the next call; `WakesInTime` and `CatchesUp` exclude that state
  (`disarmed`), see "hazards".
- Of bootstrap: its checks of arguments, how `service.root` finds the script that
  requires it, services created by children, and a
  failing `uv_async_send`, which ends root without a reason (`ServicePool` has the
  failure).
- The list of idle hooks: a hook may fail in `Bootstrap`, but which hooks run, and
  what becomes of a list that is changed while it is walked, is left out.
- Of the serializer: the values of numbers and strings, `seri_packstring` and
  `seri_unpackstr`, which nothing calls, buffers that were not made by pack, memory
  (also that of blocks after an error), and a `__pairs` that yields a key twice or
  changes tables that are being packed.
- Of the log: time, wording and thread names (bytes of the head), and `printf`.
- Of the luv loader: the walk through `package.cpath`, which finds a file or
  does not.
- The example services have no state.
