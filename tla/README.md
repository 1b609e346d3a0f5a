# cpp_sk in TLA+

cpp_sk is a rewrite of skynet's C core in C++: services that only talk by
messages, worker threads that serve them, a timer, a socket server and a small
RPC layer.  This directory holds TLA+ models of it, the TLC configurations that
check them, and proofs for TLAPS.

    tlc -config MCDispatch.cfg MCDispatch     # model-check one run
    tlapm DispatchProofs.tla                  # check one module's proofs

`PROJECT.json` lists the runs, the lines of source each definition stands for,
the hazards of the code and what covers them, and for every property a mutant
of the model that breaks it.

## 1. The system

| Component | State | Operations | Modelled in |
|---|---|---|---|
| message queue (`message_queue`) | ring `queue`/`head`/`tail`, `in_global`, `overload`, `overload_threshold`, `release` | `mq_push`, `mq_pop`, `length`, `mq_overload`, `mq_release` | MessageQueue, Mailbox |
| global queue (`global_queue`) | `head`, `tail`, `message_queue::next` | `push`, `pop` | GlobalQueue |
| dispatch (`skynet_app`, `monitor`) | each worker's `q`, batch counter; `monitor::sleep`, mutex, condition variable | `context_push`, `context_message_dispatch`, `start_worker`, `start_timer`, `context_t::create` | Dispatch |
| handle storage (`handle_storage_t`) | `slot`, `handle_index`, `name` | register, retire, grab, find name, name | HandleStorage |
| timer wheel (`timer`) | `near_`, `t_`, `time_` | `timeout`, `timer_update` and what it calls | Timer |
| context life cycle (`context_t`) | references, `queue`, `init` | `create` that fails, `handle_retire`, `mq_release`, destruction | ContextLife |
| endless-loop monitor (`skynet_monitor`) | `version`, `check_version`, `source`, `destination` | `trigger`, `check`, `context_endless` | Monitor |
| clock (`timer::update`) | `current_`, `current_point_` | `update` | Clock |
| socket server (`server`), slots | `slots`, `alloc`, each slot's type, id, owner and socket, the handlers posted to the poll thread, its coroutines | `new_fd`, listen, connect, start, accept, read, close | SocketSlots |
| socket server, writing | a slot's `wlist`, `wlist_lock`, `close`, the write coroutine | `socket_send`, close | SocketWrite |
| service base (`module_mid_t`) | `socket_nodes`, `timeout_nodes`, `response_cbs` | `timeout`, `on_response`, `cb` | Rpc |
| | | `connect`, `listen`, `start_tcp`, `on_socket` | not modelled |
| RPC (`cpp_rpc.h`) | the router, sessions, callbacks | `send_request`, `on_rpc_cpp`, `on_rpc_call` | Rpc |
| start-up, configuration, harbor, utilities, logger | | | not modelled |

How they interact.  Any thread (a worker inside a callback, the timer thread,
the poll thread) calls `context_push(handle, message)`: `handle_grab` finds the
context, `mq_push` stores the message and, if `in_global` was false, links the
queue into the global queue.  A worker pops a queue, takes one message or a
batch from it, runs the service's callback for each, then trades the queue for
another one.  A worker that finds nothing sleeps on `monitor::cond`; nothing in
`context_push` wakes it, only the timer thread's `wakeup` every 2.5 ms.  The
timer and the socket server answer by `context_push` too, so to a service
everything is a message, and one service never runs on two workers at once.

What is hard here: the ownership of a queue is spread over a flag and two
separately locked structures; a service is reachable before its init has
returned; sleeping relies on a notification that may find nobody; the ring and
the handle table grow in place; handles and sessions wrap around;
timers are added while the wheel is being served; workers and the poll
thread both write to a socket; and a slot may be closed, and given to another
socket, while a coroutine that refers to it waits.  The full list, by line, is
`hazards` in `PROJECT.json`.

What makes each component correct:

- message queue: nothing is lost, duplicated or reordered; an overload is
  reported, and once;
- global queue: it is a queue, and its assertions hold;
- dispatch: one worker per service, none before init, no message stranded,
  every message handled in the end;
- handle storage: a registered context is found, a gone one is not, handles
  and names do not come back while they may still be used;
- timer: each timer fires exactly once, at its tick;
- context life cycle: nothing uses a context or a queue after it is freed,
  and nothing is kept that should be;
- clock: timers do not fire early, and the wheel keeps up with the wall clock;
- monitor: a callback that hangs is reported, and one that does not is not;
- sockets: an id is valid until its close is reported, what is sent arrives in
  order, a closed slot tells nobody anything;
- RPC: a request gets exactly one answer, its own, and an error exactly when
  its function was not run.

## 2. Plan

In order; all but the second half of 11 is done.

1. `MessageQueue`: the ring as operators. `MessageQueueProofs`.
2. `Mailbox`: one queue in use. `MailboxProofs`.
3. `Mailboxes`: the abstract promise of the message core.
4. `Dispatch`: the message core; implements `Mailboxes`. `DispatchProofs`.
5. `GlobalQueue`: the list `Dispatch` uses as a sequence.
6. `HandleStorage`. `HandleStorageProofs`.
7. `Timer`. Proved in `RpcProofs`.
8. `SocketWrite` and `SocketSlots`: the socket server, cut where its two hard
   parts meet. `SocketWriteProofs`, `SocketSlotsProofs`.
9. `ContextLife`: `create` that fails, references, `mq_release`, on top of
   `GlobalQueue`. `ContextLifeProofs`.
10. `Monitor` and `Clock`: two small modules. Proved in `RpcProofs`.
11. `Rpc`: `module_mid_t`'s timeouts and responses, and the requests of
    `cpp_rpc_service`, over what `Dispatch` and `Timer` promise; then
    `module_mid_t`'s table of sockets, which is left. `RpcProofs`.

Every invariant and every action property that the passing runs check has its
theorem.

## 3. Modules

### MessageQueue, Mailbox

A ring is a record `[buf, cap, head, tail]`.  `Push`, `Pop`, `First`, `Length`
and `Raised` are the bodies of `mq_push`, `mq_pop`, `length` and the overload
loop; `Grow` is the `resize` of `mq_push`, which leaves every message in its
slot and restarts reading at slot 0.  All of them run under the queue's
spinlock in the code, so each is one step wherever it is used.  A slot whose
message was moved out holds `NoMsg`.

`Mailbox` drives one ring: `MqPush` by any thread, and the owner, who
alternates `mq_pop` and `mq_overload` as `context_message_dispatch` does.
Messages are numbered as they are pushed, so that order and loss can be stated.

### GlobalQueue

`head`, `tail` and `next` as in the code; `items` is a history variable, the
sequence the list stands for.  `Link` is the body of `push`; `QueuePush` is a
push of a queue that is not linked already, which is what the callers guarantee
as long as nothing fails (`Dispatch!NoDoublePush`, `ExclusiveOwner`).  `ListSpec`
is the list by itself under such pushes, for the proof.  The run checks it under
the callers of `ContextLife`, which also push a queue twice: `ListWhileWhole`.

### Dispatch, Mailboxes

Each action of `Dispatch` is a critical section of the code or a run of code
that touches only the worker's own variables; a worker's `pc` says where it is
in `start_worker` and `context_message_dispatch`.

| Action | Code |
|---|---|
| `Create`, `Launch` | `context_t::create` up to init, and its end when init returned true |
| `ContextPush` | `context_push` and `mq_push` |
| `PopGlobal` | a worker with no queue pops the global queue |
| `MqPopMessage`, `MqPopEmpty` | `mq_pop`, by its result |
| `ReadLength` | `n = q->length() >> weight` |
| `Return` | the callback returns, the loop goes on or ends |
| `Yield`, `Requeue` | `nq = global.pop()`; `global.push(q)` |
| `EnterSleep`, `CondWait`, `LeaveSleep` | the sleeping part of `start_worker` |
| `TimerWakeup` | `monitor::wakeup` by the timer thread |

`mq_push` takes the global queue's lock inside the queue's own, so
`ContextPush` is one step; between `mq_pop` and `length`, and between the pop
and the push of a trade, other threads do run, and there the model has separate
actions.  `monitor::count` is never assigned and stays 0, so `wakeup(count - 1)`
wakes when `sleep >= 1`.  A spurious return of `cond.wait` is a step
`TimerWakeup` can take as well, since a worker that waits has counted itself.

`Mailboxes` is the promise: a set of waiting messages per service, at most one
being handled, none before init has returned.  `Dispatch!Abstract` maps the box
of a service to what its ring holds, and `running` to the message in the hands
of the worker that serves it.

### HandleStorage

The table with its growth and the search that starts at `handle_index`; the
three unlocked stages of `create` (in the table with handle 0, numbered, with a
queue); retirement when init fails; names.  Creates interleave.  A name is given
to a handle by whoever knows it, at any time: `start()` names the logger after
`create` has returned, whatever its init said.  What is given once the context is
retired is `late`, and stays.  `NoStaleName` is about the names before, of handles
that were given one (`OneName`): of two, `handle_retire` erases the first.

### Timer

The wheel with the sizes of its lists as constants; the masks and shifts of the
code are `Span` (what a list of a level holds, by which `add_node` files) and
`Stride` (by which `timer_shift` steps).  `TimerAdd` is `timeout` and
`timer_add`; `TimerUpdate`, `Dispatch` and `FinishUpdate` are `timer_update`,
cut where the code releases the lock.  `t_[4][64]` is one array: `timer_shift`
reads `t_[0][idx]` with `idx` up to 255, which is undefined and in practice the
list at that distance; `TicksAssumption` ends the behaviours before it would
leave the array altogether.  A timeout is an `int32_t` and `time_` a `uint32_t`
that would wrap after 497 days, long after that bound (35 hours with the code's
sizes), so no behaviour here reaches it.  `TimeoutAssumption` says that timeouts
are less than half of `Wrap`, as those of the code are.

### SocketWrite

One TCP connection, from the workers that send on it to the bytes the kernel
has taken.  A buffer is `Size` bytes; `wire` is what has been written.

| Action | Code |
|---|---|
| `SocketSend`, `TryLock`, `CheckList`, `WriteSome` | `socket_send` on a worker: the check, `trylock`, the check under the lock and the direct write of some or all of the bytes |
| `PostSend` | its `poll.post`, with how much was written |
| `RunSend`, `StartWriting` | that handler: the rest goes to `wlist`, and a write coroutine starts if nobody holds the lock |
| `WriteDone`, `WriteFail`, `EndWriting` | the coroutine's write, as much as the kernel takes, until `wlist` is empty or an error |
| `ClearClosed`, `StoreInvalid` | what follows it once the lock is back |
| `CloseSocket`, `RunClose` | `close_socket` and its handler |
| `PeerGone` | the peer ends the connection: writes may fail |

Everything a handler of the poll thread does up to its next `co_await` is one
step where workers cannot see the difference; the lock, the list, `close` and
`type` are read and written in the steps the code reads and writes them in.
The write's error is declared again inside the `std::visit` (`ec`,
sk_socket.cpp:231-233), so the outer `ec` is never set and no slot ever becomes
`halfclose_write`; the module has no step for it.

`InOrder` speaks of a buffer that was handed over after an earlier one was
wholly written or queued.  Without that premise it is false: a sender's second
buffer may be written directly while the rest of its first is still in a posted
handler.

### SocketSlots

The table of slots under reuse.  A service that listens or connects is in
`new_fd` for several steps, and so is the poll thread when it accepts: `Draw`
takes an id from `alloc`, `Probe` is the compare-and-exchange on its slot, which
other threads may come before, and which leaves the type it has found in the
code's `t`.  `posted` is the queue of the `io_context`.  A coroutine is `waiting`
(or `connecting`) until its operation is over, by the network (`ConnectOp`,
`LoopOp`) or because the socket under it is closed or destroyed (`AbortConn`,
`AbortLoop`), and is resumed by the poll thread at any later time: the steps of
others in between are what the module is about.

Every start that takes effect spawns a loop of its own, which is a `Reader`, an id
and the number of its start.  `check_pstart` accepts a connection that is
`connected` already ("connected->connected", `sk_socket.h:89`), so a service may
start it again, and so may another one, to which the connection then belongs:
several loops read from one socket, each with the `result.opaque` it took before
it began to wait (`to`).

| Action | Code |
|---|---|
| `Open`, `Draw`, `Probe`, `Fill` | `socket_listen`, `socket_connect` and accept: `new_fd`, then the slot is filled and the handler posted |
| `RunListen`, `RunConnect` | the posted message, and the connect coroutine up to its first `co_await` |
| `Resolve`, `ConnectNext`, `ConnectResume` | `async_connect` on whatever TCP socket the slot holds now, which it closes and opens again for every endpoint (two at most), and what follows it |
| `SocketStart`, `RunStart`, `RunLoop` | `socket_start`, its handler, and the start of `server::start` |
| `AcceptResume`, `AcceptFail` | the accept loop and its catch |
| `ReadResume`, `ReadFail` | the read loop and its catch |
| `CloseSocket`, `RunClose` | `close_socket` with `wlist` empty |

Whatever clears a slot (`Clear`) or opens its socket again ends what is pending on
it, also when the slot has a new user by then.  A null `slot.tcp()` (`Resolve`)
and the assertion of `new_fd` end the process: no action is enabled then.  asio
itself is external; what is used of it is that posted handlers run in order, one
at a time, that an operation ends at most once, that closing a socket ends what
is pending on it, and that `async_connect` goes through the endpoints
(`ConnectNext`).

### ContextLife

A context and the queue it owns, under one name, from `create` to the
destructor.  `Referred` lists everyone who holds a `shared_ptr`: the table, the
creator, a push and a worker's round; `Freed` is a context that nobody holds.
The global queue (`GlobalQueue`, extended) and each worker's `q` and `nq` are
raw pointers and hold nothing.

| Action | Code |
|---|---|
| `Create`, `Launch` | `create` up to init; init returns true, the queue is pushed |
| `InitFails`, `HandleRetire`, `MqRelease`, `Forget` | the other branch: out of the table, `mq_release`, and the caller lets go |
| `HandleGrab`, `MqPush` | `context_push`, cut after `handle_grab` |
| `Take`, `Fetch` | a pop of the global queue by a worker with none, or whose queue is empty |
| `GrabContext`, `ReleaseOrphan` | `handle_grab(q->handle)`, and `mq_release` when it finds nothing |
| `MqPopMessage`, `MqPopEmpty`, `Return`, `Yield`, `Requeue` | as in `Dispatch` |

A step that reads or writes a freed queue, dereferences the null `ctx` or links
a queue twice sets `broken`, and no step follows.  Of a queue that is linked
twice the assertion of `push` sees only one that has a successor; the tail has
none, and its second push makes the list a cycle, which `GlobalPush` follows
(`Link`): there `items` and the list are no longer the same.  Both ways to get there start
with a context that is not found: one whose init failed, or one the growth of
the table has hidden (`lost`, from `HandleStorage!Found`).  `SoundWhileWhole`
says there is no third; `LiveNotStranded` and `FailedIsFreed` say what still
holds when there is one.  A worker's batch may end after any message here, and a
sleeping worker is one that is `idle`.

### Clock, Monitor

`Clock` counts the units of `system_clock`, `U` to a centisecond.  `Advance` and
`SetBack` move the wall clock; `Update` is `timer::update` up to its loop and
`RunTick` one turn of it (`timer_update`), so a `SetTimer` (`timer_add`) can come
anywhere in a burst.
`forward` measures how far the wall clock has gone forward in all, which is the
time a timer should wait; `NotTooEarly` compares it with what a timer is owed.

`Monitor` has a step for every access to the fields that workers and the
monitor thread share without a lock: `TriggerWrite` and `TriggerBump` are
`trigger`, and `Compare`, `Store`, `Test` and `Mark` are `check`, which reads
`version` and `destination` twice each.  `seen` and `caught` are history: what ran
when the last check, and this one, read the version.

The two share nothing, and `MCWatch` runs one or the other in each behaviour.

### Rpc

Services with their sessions, over mailboxes that are sets: a message is handled
in the end, in any order.  A call is a timeout or a request, and is numbered;
its number travels with its messages, so that an answer can be told from
another call's.

| Action | Code |
|---|---|
| `Timeout`, `StoreTimeout` | `module_mid_t::timeout`, cut between the timer that is set and the callback that is stored; nothing is stored when the immediate push finds the caller gone (-1) |
| `SendRequest` | `send_request`, with its own `handle_grab` and that of `context_push` |
| `TimerDispatch` | `timer::dispatch`, or the immediate push for a timeout <= 0 in `Timeout` |
| `OnRpcCpp` | `on_rpc_cpp`, `on_rpc_call` and `rpc_call_func`, on a service with a router or one without |
| `OnResponse` | `on_response`: requests first, then timeouts |
| `Handle` | `module_mid_t::cb` on a worker; not while the service is inside `timeout` |
| `Lose` | the growth of the handle table hides a service |

A request is one of four kinds (`Answer`): the function returns a value, or
nothing, or is unknown, or its parameters do not parse.  `rpc_encode` always
makes a header that parses, so status -1 does not occur.  `Late` names the calls
whose timer the wheel may pass over, as it does (section 5): such a timer may be
dispatched or lie in the wheel for good.  `clash` records that
`newsession` gave out a number that was still waited for, which it does not
check; beyond that nothing is promised, and the properties say so.

## 4. Runs

| Run | Bounds | What it shows |
|---|---|---|
| `mailbox` | 14 pushes, ring of 3 | wrap-around at 3, 6 and 12 slots and two growths from every head; `NothingLost`, `LengthExact`, `FifoBeforeGrowth`, `AlarmsExact` |
| `dispatch` | 3 services, one of which may never return; 2 workers of weights -1 and 0; 3 messages | ownership, flag, init, stranding, the refinement, and `Delivered` under fairness. Three services make a trade (`Yield`, `Requeue`) happen while a third queue waits; three messages fill a batch and leave one |
| `context_life` | 3 contexts, one that may fail and one that may be lost, 1 sender, 2 workers, 2 messages | `ListWhileWhole`, `SoundWhileWhole`, `LiveNotStranded`, and `FailedIsFreed` under fairness. With three contexts a live one stands beside an orphan and a failed one; of senders one is enough, since a sender is only a reference |
| `handle_storage` | mask 3, 2 initial slots, 4 contexts, 2 names | growth, wrap-around and retirement together; the fourth registration uses a handle again; any handle is named at any time; contexts and names are symmetric |
| `handle_found` | 4 initial slots as in the code | violation |
| `timer` | 16 near lists, levels of 4, 2 timers, timeouts 1 and 40, 82 ticks | crosses the window boundary 5 times and the boundary at 64 where the levels start to be missed |
| `timer_lost` | the same wheel, 1 timer | violation |
| `socket_write` | 2 workers, 3 buffers of 2 bytes, 2 closes | partial writes by workers and by the coroutine with a third buffer behind them; `BytesOnce`, `InOrder`, `NoStall`, `ClosedOnce`, and `Flushed` under fairness. Two bytes are enough for a write to be partial |
| `socket_slots` | 1 slot, 2 ids, 2 services, 2 starts an id that take effect, 2 handlers posted before another is asked for, any number of closes | the slot is reused by the other service or the same one, and a connection is started twice, by one service or two, with both reads pending; `ToldOnce`, `OwnData` |
| `socket_answer` | 2 slots, 2 ids, 1 service, 2 starts an id | `KeepsSlotFirstRound`, and `Answered` and `ReaderEnds` under fairness; the second id may be an accepted one, and a connection may have two loops that must both end |
| `rpc` | 2 services, one with a router that may be lost, 4 kinds, sessions 1 and 2, 3 calls, the second of which may be passed over by the wheel | `OwnAnswer`, `ErrorIffNotRun`, `WaitsForSomething`, and `Answered` under fairness. The third call of a service takes session 1 again, with the first answered or not |
| `watch` | clock: 3 units, 11 forward, 3 back, timeouts up to 3; monitor: 2 workers, 3 messages each | `NotTooEarly`, `DriftBounded`; `AlarmInTime`, `NotBlamed`. Three units give a fraction that is dropped and one that is kept; three messages let a worker pass through idle between two checks |

The runs check properties; the type invariants of `Dispatch`, `ContextLife`,
`SocketWrite`, `SocketSlots`, `GlobalQueue`, `Rpc`, `Clock`, `Timer` and `Monitor`
are proved, and those of the other modules hold in the same instances (add
`INVARIANT TypeOK` to the configuration).

The timer is scaled so that the levels keep their proportion to the near list
(a quarter) and the number of wrapping bits equals what the lists distinguish;
the first boundary a shift gets wrong is `TIME_NEAR * TIME_LEVEL` in both, 64
ticks here and 16384 (164 s) in the code.

Five runs assume fairness.  In `dispatch` the system schedules every thread, so each
worker's own steps are weakly fair; inits return; callbacks return except those
of the services in `Stuck`; the timer thread calls `wakeup` forever.  Nobody is
assumed to send anything.  With one stuck service and two workers one worker is
left, and that suffices; with as many stuck services as workers nothing could.

In `socket_write` the workers' steps, the poll thread's handlers and the
coroutine are weakly fair, as threads that run and an `io_context` that serves
them are; nobody must send or close.  In `socket_answer` the same holds of each
thread and each coroutine that is ready, and an attempt to connect ends in some
way, as the kernel's time-outs see to; a read or an accept need never end.
`Answered` and `ReaderEnds` promise nothing once the process has crashed or the
poll thread stands at the bound on ids or starts.

In `context_life` only the thread inside `create` and the senders are fair: they
take a few steps that nothing blocks.  In `rpc` a service that is inside
`timeout` comes to its end, and each call's messages are handled in the end:
that is `Dispatch!Delivered`, with callbacks that return.  A timer is dispatched
in the end only outside `Late`, which is `Timer!OnTime`: due in the first
`TIME_NEAR * TIME_LEVEL` ticks or in the window it was set in.  Of the others
`timer_lost` shows that they may not be, and `Answered` promises nothing for a
call whose timer is left in the wheel (`PassedOver`).  Nobody must call anything.

`CHECK_DEADLOCK FALSE` is given where the system may stop: every context has
been created and named (`handle_storage`), the ticks are used up (`timer`), and
all buffers are sent, all ids used or the process has crashed (the socket
runs), nobody calls any more (`rpc`), the bounds on messages and on the wall
clock are reached (`context_life`, `watch`).

## 5. Findings

- The table of handles grows without rehashing: the code's fifth service makes
  an earlier one unreachable (`cpp_sk.cpp:156`).
- The wheel's shift looks in other lists than `add_node` files in
  (`cpp_sk.cpp:522-531`).  A timer that is due in the first 164 s, or in the
  2.56 s window it was set in, fires at its tick.  Of the later ones many are
  filed in a list that is not moved when their window begins, and are not fired
  then; others happen to lie in a list that is.

More came to light while modelling.  Each is a property that the code does not
have, with a configuration that shows the counterexample; nothing in the
repository says in so many words that it should hold, or the run is like
another, so they are not among the runs of `PROJECT.json`.

| Configuration | Property | What the code does |
|---|---|---|
| `MCMailboxFifo.cfg` | `Fifo` | the ring's growth breaks the order of messages (`cpp_sk.cpp:52-57`): the array is not rotated when `head` is not 0 |
| `MCContextAlive.cfg` | `LinkedIsAlive` | when init fails, `mq_release` pushes the queue, since `release` is never set, and then the context frees it (`cpp_sk.cpp:254-265`): a worker pops a dangling pointer |
| `MCContextServed.cfg` | `ServedHasContext` | when the context of a queue is not found, `context_message_dispatch` pushes the queue, keeps it, and goes on with the null context (`cpp_sk.cpp:406-442`) |
| `MCWatchMarked.cfg` | `MarkedWasSeen` | `trigger` writes `destination` before it moves `version`, and `check` reads it again after it has compared (`cpp_sk.cpp:297-299`, `310-313`): a message that has just begun is reported as endless, and its service stays marked |
| `MCWatchDrift.cfg` | `NoDrift` | `update` takes `now`, not the last full tick, as its next reference (`cpp_sk.cpp:491`): the wheel loses up to a centisecond at every update, for good |
| `MCSocketClose.cfg` | `CloseHasFinisher` | a close that meets a worker's direct write is left to a write coroutine that never starts, although "when write buff not empty; shutdown read first and close later" (`sk_socket.h:76`): the socket stays open (`sk_socket.cpp:307-314`) |
| `MCSocketAssert.cfg` | `WriterFindsSocket` | the write coroutine clears the slot after it has given the lock back (`sk_socket.cpp:264-269`): a worker asserts (`:198`), or writes to a destroyed socket |
| `MCSocketList.cfg` | `ListLeftAlone` | `wlist` is read on worker threads (`sk_socket.cpp:185`) although "this list just read and write in poll thread" (`sk_socket.h:204`) |
| `MCSocketOrder.cfg` | `SentOrder` | of two sends in a row the second may be written directly while the rest of the first is in a posted handler and `wlist` still empty (`sk_socket.cpp:185-200`): the bytes go out in the wrong order |
| `MCSocketOwner.cfg` | `DataToOwner` | when another service starts a connection ("connected->connected", `sk_socket.h:89`), a read that is pending still forwards its data to the service that had it before (`sk_socket.cpp:441-446`), and both loops read on |
| `MCSocketSteal.cfg` | `KeepsSlot` | `new_fd` does not reset `t` (`sk_socket.cpp:39`) and hands out a slot that is in use, when it has the type of the one tried before |
| `MCSocketClean.cfg` | `FreeIsClean` | the branches for a closed acceptor are the wrong way round (`sk_socket.cpp:342-350`, `416`): one that listens leaves a free slot marked closed, whose next user can never be started, and one that was never started is not freed |
| `MCSocketConnect.cfg` | `ConnectedFromConnecting` | a connect that resumes after its slot was closed makes the free slot connected, so that no one gets it any more, or dereferences a null pointer (`sk_socket.cpp:120-123`) |

## 6. Proofs

All are about any values of the constants, under the `ASSUME`s of the modules.

- `MessageQueueProofs`: lemmas that `Push` and `Pop` keep `RingOK` and that
  what the ring holds changes by exactly the message pushed or popped, also at
  a growth (`PushRing`, `PopRing`), and what they do to its length and, without
  growth, to its order (`PushOrder`, `PopOrder`).
- `MailboxProofs`: `NothingEverLost` (inductive invariant: `RingOK`, the range
  of `pushed`, and `NothingLost` itself), `LengthCounts`, and `FirstInFirstOut`,
  the order of a queue that has not grown.  The last needs `Ordered`, that the
  messages rise along the ring while the array has its first size, and that an
  array never comes back to that size.  `AlarmsRise` is about the overload
  reports.  `AlarmInv` adds to `AlarmsExact` where the threshold came from: it
  is less than twice the length that raised it, and that length has been
  reported or is recorded in `overload`, which the owner reports before it pops
  again.  The doubling is a recursive function (`Raised`); `RaisedFacts` in
  `MessageQueueProofs` says where it ends, by induction over the set of the
  numbers of turns (`InductionBySet`, from the library's well-foundedness of
  `<`), which needs no theorem with an operator for its parameter.
- `DispatchProofs`: `TypeCorrect`, and `OwnershipInvariant`, from which
  `Exclusion`, `InitFirst`, `FlagIsExact` and `NoLostWakeup` follow.  None of
  the last four is inductive alone: that a push does not put a queue into the
  list twice needs `in_global` to be exact, that `in_global` is exact after a
  pop needs that nobody else holds the queue, and both need that a service
  under creation is in no list; `Ownership` is their conjunction.
  `MailboxesImplemented` is the refinement: every step of `Dispatch` is a step
  of `Mailboxes` or a stutter.  That `Begin` finds no other callback running
  comes from `ExclusiveOwner`, that the service is live from `NotBeforeInit`,
  and that the message really leaves the box from `Numbered`: a message is in
  one slot of its ring.
- `HandleStorageProofs`: `FoundUntilGrowth`, `OneSlotEach` and `ZeroFree`, for
  every mask and table size.  `InOneSlot` needs to know where a context is, not
  only that it is somewhere: `Placed` says it stays in the slot it was given,
  however often the table has grown, and that a later context with the same
  handle was given another one; `Divides`, that each earlier size divides the
  present one, then shows that a retirement cannot hit it by way of the handle.
  `HandlesGoRound` (`NotReusedSoon`) follows from `Spaced`: of any two contexts
  the later handle is a number of places further round, at most the present size
  of the table for each registration in between; two equal handles are a whole
  round apart.  `NoNameLeft` (`NoStaleName`) follows from `NamesOK`: a name in
  use was given by a registered context that carries its handle, as long as
  no handle is given a second name (`OneName`) and the contexts with that handle
  are of the table's present size; retirement erases the one name and frees the
  one slot.  A name that was given after that is accounted for by `late`.
- `ContextLifeProofs`: `ListIsSequenceAlways`, about `GlobalQueue` by itself
  under pushes of queues that are not linked, and on top of its lemmas
  `ContextListCorrect`, `SoundUnlessLost` and `NoneStranded`.
  `ContextListCorrect` (`ListWhileWhole`) does not assume that the pushes are such:
  that no create, worker or sender pushes a linked queue, while no init has failed
  and no context is lost, is part of what is proved.  The inductive invariant has two halves.  `Flagged` holds
  whatever fails: a live service whose `in_global` is set is in the list or in
  a hand, and one whose flag is clear has no message.  `Sane` holds only while
  every init succeeds and every context is found (`Whole`): then every queue in
  the list or in a hand is a live context's, in one place, and that context is
  in the table, which is why no raw pointer dangles.  A step that ends `Whole`
  owes `Sane` nothing, and no step restores `Whole`.
- `SocketWriteProofs`: `TypeCorrect`, `NothingStalls`, `FreedOnce`.  `NoStall`
  is not inductive alone: that the poll thread may give up when `trylock` fails
  needs that the lock is held by a worker whose own coroutine is still to come
  or by a write under way (`LockHeld`), and that the coroutine may end needs
  that it leaves `wlist` empty or the socket shut down (`Handling`).  `Counted`
  ties the number of frees and reports to the slot's state.
  `EveryByteOnce` and `NoOvertaking` need to know of every unfinished buffer
  where its rest is: in the hands of the worker that writes it (`Held`), in a
  posted handler (`Posted`) or in `wlist` (`Waiting`), in one of them, and that
  place knows how much is out until a write has failed.  A buffer does not
  overtake another since a worker that writes directly has found the list empty
  under the lock, and `wlist` is ordered by who was handed over first.
- `SocketSlotsProofs`: `SlotTypes`, `ReportedOnce`, `DataToStarter`, `SlotKept`,
  for any number of slots, services, starts and closes.
  What a posted handler or a coroutine relies on when it comes to run is stated
  for the id it belongs to, whatever the slot is by then: at most one connect of
  an id and one entry of each of its loops are posted (`Queued`), and an id whose
  close has been reported has left its slot (`Left`).
  `DataToStarter` (`OwnData`) is about connections that are started again and
  again, by any services, with any number of reads pending: as long as a slot
  holds the id, its service is the one whose start came last, and a loop that
  waits holds the service it read there (`Owned`).  `SlotKept` is about the first
  round of `alloc`, in which `Index` is injective: no id of another slot can find
  this one in its way (`FirstRound`), and an acceptor, which `check_pstart` does not
  let start twice, has one loop, the only one to mark it closed (`Solo`).
- `RpcProofs`, about `Rpc`: `OwnAnswerOnly`, `ErrorsAreTrue`, `NothingLeaks`.  The inductive
  invariant has a part that always holds, and one that holds until a session is
  given out twice.  Always (`Flight`, `Past`, `Entries`): a message is what its
  call makes it, there is one for each call, and a response exists only once it
  is decided whether the function runs; that alone gives `ErrorIffNotRun`, also
  after a clash.  Until a clash (`Apart`): a session leads to one call and a
  call has one session, and every message finds the entry of its call
  (`Belongs`).  A timeout that is being set is the hard case: its timer may
  already have fired, so `Setting` says that its session stays free until
  `StoreTimeout`, and `Handle` cannot run in between.  A `timeout` that returns -1
  leaves a call without an entry or a message, of a service that is lost.
- `RpcProofs`, about `Clock`: `NeverTooEarly`, `DriftIsBounded`,
  `ClockTypeCorrect`.  `NotTooEarly` becomes inductive with `NeverShrinks`: what
  the wheel is behind for good never shrinks, so a timer's claim, fixed when it
  was set, holds at every later tick.
- `RpcProofs`, about `Timer`: `TimerTypes`, `EveryTimerFiled`, `FiresAtItsTick`
  and `EarlyTurnsKept`, for every size of the wheel and for as many ticks as
  `timer_shift` stays inside `t_` (`TicksAssumption`: 35 hours with the code's
  sizes, in which `time_` does not wrap).  The inductive invariant `Sorted` says
  of every list who may be in it
  (`Filed`): in `near_`, timers of the window of `time_` that are not passed, in
  the slot of their tick; in a batch, timers of this tick; in `t_`, of the
  timers that are due before tick `TIME_NEAR * TIME_LEVEL`, those whose window
  is still to come, in the list of level 0 that `timer_shift` moves when it
  begins, and no timer that is due in the window it was set in.  So when a
  window begins `near_` is empty (`NearAhead`), whatever was to be moved is
  moved (`WaitsInFar`, `ShiftedIs`), and `add_node` files it for this window or
  a later one (`MovedFiled`).  `MoveList` is a recursive function over the
  moved list; `MoveListFacts` says by induction over its length that the list
  goes where `Where` says and that nothing is lost or doubled on the way.
  The bound on `MaxTicks` is used once: `ShiftIndexBound`, no index leaves `t_`.

- `RpcProofs`, about `Monitor`: `MonitorTypes`, `HangIsReported`,
  `MovingNotBlamed`, for any number of workers and messages.  The monitor thread
  compares versions, and the properties are about messages: `Compared` ties the
  two together, a version has not moved since the last check read it exactly if
  the message in the callback is the one that was in it then.  `Checking` says
  the same of the check under way, from its first read of `version` to its last
  of `destination`, while the worker goes on between any two of them.

`RpcProofs` proves about four modules: when and by what a session is answered,
and what watches over the callback that answers.  They share no names.

Only model-checked: liveness (`Delivered`, `Flushed`, `Answered`, `ReaderEnds`,
`FailedIsFreed`), which is beyond the prover; that the code's four slots lose a
service, that the wheel passes timers over and that a check can mark a message it
has not seen, which are counterexamples.

## 7. Not modelled

- Payloads, formatting, logging and profiling counters.
- `handle_retireall`, `mark_release` and `harbor_t`: no caller, or nothing reads
  the result.
- Configuration and `start()`: one thread, before the others exist.
- The quit path: `start()` keeps the logger's context, so `context_total()`
  never is 0 and no thread ends.
- UDP: no slot ever holds a UDP socket, and `server::start` returns at once.
- The steps in which `socket_listen` fills a slot that others do not know yet
  are one (`Fill`); a failure to open or bind leaves no trace and has no step.
- `SocketWrite` and `SocketSlots` are not composed: the first has one
  connection and no reuse, the second nothing to write.
- `module_mid_t`'s table of sockets (`listen`, `connect`, `start_accept`,
  `start_tcp`, `on_socket`): only the service itself touches it, one message at
  a time; what can go wrong in it, an iterator used after an insertion
  (`cpp_sk.h:687-692`), is a matter of the hash table's memory.
- The bytes of a request and the names of functions: a request is one of four
  kinds, and two names with the same hash are not told apart.
