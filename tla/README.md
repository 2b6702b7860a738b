# Verification of the Celadon sensor HAL

This directory holds TLA+ models of the sensor HAL in `src/`, the TLC runs that
check them on small instances and TLAPS proofs of what matters most about them.
Source paths below are relative to `src/`; line numbers refer to the files there.

## 1. The system

The HAL is a shared library in an Android guest. Remote clients (one per
phone or browser that lends its sensors) connect to it over a UNIX or TCP
socket and send sensor events; the HAL reports these to the Android framework,
and sends the framework's sensor configuration to one of the clients.

### Components, their state and operations

| component | state | operations |
|---|---|---|
| event path, class `SensorDevice` (`sensors_vhal.cpp`) | `m_pending_sensors`, `m_sensors`, `m_flush_count` under `m_mutex`; `m_sensor_msg_queue` under `m_msg_queue_mtx`; `m_msg_mem_pool` under `m_msg_pool_mtx` (not everywhere) | `sensor_device_poll`, `sensor_device_flush`, `sensor_event_callback` |
| framing of the event stream | locals of `sensor_event_callback` and `recv_data`, the `errno` of the listener thread | `sensor_event_callback` over `recv_data` |
| sensor tables (`sensors_vhal.h`, `sensors_vhal.cpp`) | constants | `get_handle_from_type`, `get_payload_len`, `get_type_from_hanle`, `sSensorListInit` |
| configuration path, class `SensorDevice` | `m_sensor_config_status` under `m_mutex` | `sensor_device_activate`, `sensor_device_batch`, `sensor_device_set_delay`, `client_connected_callback` |
| event timestamps | `m_time_start`, `m_time_offset` | end of `sensor_device_poll_event_locked` |
| connection management, class `SockServer` (`sock_utils.cpp`) over `sock_server.cpp` | `client_slots`, `rfds`, `m_clients`, `m_ncount` (listener thread only), `m_pclient_` (written under `m_pclient_mutex_`, read without) | `check_new_connection`, `check_new_message`, `get_sock_client` |
| transfer loops | locals | `send_data`, `recv_data` of `SockServer` and `SockClient`, three work modes |
| start and stop of `SockServer` | `m_be_working`, `m_server` | `sock_server_init`, `start`, `stop`, `join`, `sock_server_close` |
| class `SockClient` over `sock_client.cpp` | `m_client`, `m_be_working` | `connect_to_server`, `check_new_message`, `send_data`, `recv_data` |
| HAL entry points | none | `open_sensors`, `sensor_close`, `sensor_poll_events`, ... |

### Interaction

Three kinds of threads meet in a `SensorDevice`:

- the framework's **poll thread** calls `poll()` in a loop. It holds `m_mutex`
  except while it sleeps (no client) or waits for a message;
- the framework's **control threads** call `flush()`, `activate()`, `batch()`;
  each holds `m_mutex` throughout, the latter two over a `send_data`;
- the **listener thread** of `SockServer` accepts and closes clients, runs
  `sensor_event_callback` for a readable one, which receives one message and
  queues it, and `client_connected_callback` for a new one.

A message goes socket -> pool buffer -> queue -> poll thread -> event slot
`m_sensors[handle]` -> framework. A flush turns the event slot of its sensor
into a flush-complete event. When the queue is full the oldest message is
dropped.

The socket library also has the other side, class `SockClient`, for clients and
tests: a listener thread that connects, reconnects and calls callbacks, and any
other thread that sends.

### What is hard

`m_mutex` is released in the middle of `poll`, so a flush can change the slot
that the poll thread is about to fill; the pool is accessed with three
different lockings; the condition variable is waited on without a loop; the
default client's proxy is deleted by one thread and used by others; one thread
serves all the clients and blocks in `recv_data`, where a client can leave it;
the transfer loops decide by an `errno` that the last system call need not have
set; a failed start is not noticed, a crash leaves the address behind, and
`SockClient` replaces its connection under a thread that sends. `PROJECT.json`
lists these hazards, each at its line.

### What makes it correct

- event path: `poll` reports at least one event, events are reported once, in
  arrival order and with their own data; flush-complete events correspond to
  flush calls; buffers are bounded; no wakeup is lost;
- connection management: the two client tables agree; a connection is closed
  only at its end and after all its data was read; the default client is live;
  nobody is starved;
- transfer loops: nothing lost or repeated across short counts and retries;
  the blocking mode gives up on errors only; the timeout mode is bounded;
- configuration: the client that serves the HAL knows the current
  configuration, with the periods that were asked for;
- timestamps: never in the future, never running backwards for one client, whatever comes in between;
- framing: messages are cut out of the stream where the client put them, and
  no client can spoil or hold up the messages of another, unless it stalls;
- start and stop: nothing leaks whatever fails, a restart can bind, a close
  returns;
- `SockClient`: it reconnects if the application reads what arrives, leaks
  nothing, and its callbacks come in order.

## 2. Modules

| module | models | notes |
|---|---|---|
| `SensorTypes` | tables of handles, types, payload lengths, the sensor list | |
| `EventStream` | what the event path promises | abstract specification |
| `SensorDevice` | the event path | implements `EventStream` |
| `ClientPresence` | what the device takes from connection management | abstract specification |
| `SockServer` | connection management | implements `ClientPresence` |
| `SockServerLifecycle` | start, failed start, stop, crash and restart of the server | |
| `SockTransfer` | the transfer loops | |
| `EventFraming` | the cutting of the clients' streams into messages | |
| `SensorConfig` | the configuration path | extends `SockServer`, and implements it |
| `EventTime` | the event timestamps | |
| `SockClient` | the client class | |
| `MCSensorDevice`, `MCEventTime`, `MCEventFraming`, `MCSensorConfig` | constants of the runs that a cfg cannot write | |
| `SensorDevice_proofs`, `SockServer_proofs`, `SensorConfig_proofs`, `EventFraming_proofs`, `SockTransfer_proofs`, `EventTime_proofs`, `SockServerLifecycle_proofs`, `SockClient_proofs` | theorems about the module of that name | proved by TLAPS |

Actions carry the names of the functions they model, or say which part of the
function they are (`PROJECT.json`, "map"). A definition marked *Seeded fault*
is used by no specification: it is a plausible bug of the definition after it,
named in "mutants", and shows that the property listed with it can fail.

### SensorDevice

A step is what a thread does between two points where another thread could
see or change something: a critical section of `m_msg_queue_mtx` or
`m_msg_pool_mtx` is one step, and the poll thread's section of `m_mutex` is as
many as it makes calls. `poll_pc` and `lis_pc` are the threads' positions.

- `m_pending_sensors` is the set of handles whose bit is set; `m_sensors` is
  split in `slot_type` (the `type` field) and `slot_data` (which message's
  payload, or which flush, the union holds). Fields that are always set
  together with these (`version`, `sensor`, `timestamp`) are left out.
- a message is its type and a number, and whether it was received whole: its
  payload may be cut short by a disconnection.
- `sensor_device_poll` takes the lock; `check_client`, `relock_after_sleep`,
  `wait_for_message`, `pop_message`, `store_event`, `return_buffer` are
  `sensor_device_poll_event_locked`;
  `sensor_device_pick_pending_event_locked` is one round of the reporting
  loop; `poll_return` leaves. `sensor_device_flush` is one step.
- `recv_header` ... `post_message` are `sensor_event_callback`. A header that
  cannot be received changes nothing and has no action; a header of which only
  a part was received counts as a header with any type of `SentTypes`.
- undefined behaviour: `pop_empty_queue` (`front()` of an empty queue),
  `take_buffer` of an empty pool slot, and the race between the two `emplace`s
  of lines 352 and 584: the outcomes are both orders, one emplaced buffer
  lost, or one slot left without a buffer. The unlocked `empty()` of line 557 is
  a data race, too, with the `emplace` of line 352; that only moves the end of
  the queue, so the answer is the one before or the one after it, and the two
  orders of the steps have both.
- `accept_client`, `close_client` and `choose_default` stand for `SockServer`
  as far as this component can tell: how many clients there are and whether
  there is a default client. The module `SockServer` has the details, and
  `ClientPresence` the interface between the two.

### EventStream

The framework's view: messages are numbered as they arrive, the accepted ones
are in flight until they are reported, oldest first and once. A message is lost
only when `Capacity` are in flight and a newer one arrives, or to a flush that
takes its slot; every flush is owed a flush-complete event, and the debts of a
sensor are written off only by an event of that sensor. `SensorDevice` maps its
pending slot, the poll thread's hand and the queue together to `inflight`, the
number of the message received last to `newest`, and its flush counters to
`owed` (`ImplementsEventStream`).

### ClientPresence

The seam between `SockServer` and `SensorDevice`: the number of clients, whether
one is the default client, and whether a new one is still to be announced.
`SockServer` implements it (`ImplementsPresence`: `m_ncount`, `m_pclient_ #
NULL`, and the position between the acceptance and the end of the callback).
`SensorDevice` takes its steps (`SeesClientPresence`) and refuses none of them
(`AllowsClientPresence`), so that it assumes of its clients what `SockServer`
guarantees and no more.

### SockServer

A connection stands for its file descriptor and for its proxy object. The
listener's loop is `check_new_connection` (`no_new_connection`,
`refuse_connection`, `accept_connection`, `connected_callback`), then
`check_new_message` (`sock_server_clients_readable`, then one step per element
of `m_clients`, then `choose_default`). `scan_readable` calls the listener
callback and `message_received` is the end of it; in between the callback blocks
in `recv_data` until the client has sent the rest of its message, which it need
not ever do. `get_sock_client` and `send_data` are
a HAL thread that sends a configuration: two steps, because nothing stops the
listener in between. `scan_disconnect` and `forget_client` are the two halves
of the disconnect case, between which the proxy is deleted and `m_pclient_`
still points to it. Failures of `select` and of `ioctl(FIONREAD)` are left
out: the code then does nothing and tries again. Line 150 reads the id of the
deleted proxy for its log message; it changes no state and is left out.

### SockTransfer

One thread, one connection, one call after the other. `send_data` and
`recv_data` of both classes run the same loops (compare sock_utils.cpp
185-249, 279-338, 433-496 and 507-568), so `Call` starts any of them. The
system calls return a short count (`transfer`), fail (`would_block`,
`interrupted`, `socket_error`) or meet end of file (`recv_eof`), in which case
`errno` keeps its value. Sizes are small numbers of units, contents are left
out.

### EventFraming

A stream is a list of messages with the places where they start, and two
counters, of what the client has written and of what the listener has taken, in
units of four bytes. `sensor_event_callback` calls `recv_data` for the header,
`header_received` looks up `get_payload_len` and calls it for the payload,
`payload_received` queues the message; `recv` takes a piece, `recv_waits` is the
retry on EAGAIN, whether `recv` set it or left it there (`errno` is the
thread's, it survives from call to call), `recv_fails` an error of the
connection (ECONNRESET, once), `Returned` the end of the loop. A
type read where no message starts is any type. Clients begin messages, write
pieces of them, and close or reset the connection anywhere; nothing makes them
go on. `queued` is, per client, the sequence of all that was queued. Connections that
come, the buffers and the queue are left to `SockServer` and `SensorDevice`.

### SockServerLifecycle

The framework's thread goes through `open_sensors` (with `SensorDevice`'s
constructor, `SockServer::start` and the steps of `sock_server_init`) and
`sensor_close` (with the two destructors and `sock_server_close`); `pc` is its
place. Each system call of `sock_server_init` may fail, with the cleanup of its
branch (`init_returns_null`), or end the process (`init_opts_exits`). `crash`
may come at any point; `leftover` is what then, or after a close, is still in
the way of `bind`: the socket file, which `sock_server_close` does not remove
because it unlinks another path, or the port in TIME_WAIT. The property of the
socket type may change from one opening to the next. The listener is reduced to
what it opens, closes and deletes, and to the calls it may hang in. The clients
are at most `MAX_CLIENTS`, the ones that the destructor deletes: a client with a
greater id is undefined behaviour as soon as it is accepted (`"index"` in
`SockServer`), and what comes after it is not modelled.

Nothing in the repository starts a `SockServer` twice; a `start` while the old
thread has not been joined would terminate the process, and is left out here
and in `SockClient`.

### SockClient

A socket stands for its descriptor, the connection and the `sock_client_t`;
descriptors are used again. The listener thread is `connect_loop` ...
`connected_callback` (`connect_to_server`, around `init_socket` ...
`init_connects`, the steps of `sock_client_init`), `listener_loop`, and
`check_normal` ... `clear_client` (`check_new_message`; the close of the old
connection and the reset of `m_client` are two steps, between which the pointer
dangles). The sending thread reads `m_client` in one step and uses it in
another (`read_client`, then `send_some`, `send_none` or `use_deleted_client`).
Owner, server and failing calls are as free as they can be, except that the
owner starts again only after a join and destroys the object only when nobody
sends. A `select` that fails is taken for "nothing", and the loop tries again;
it has no action. `check_readable` may leave bytes unread: a listener callback
need not be registered, and the application's may receive less than what has
arrived. The next check then calls it again.

### SensorConfig

`m_sensor_config_status` and the three calls that change it, on top of the
variables and actions of `SockServer`. `sensor_device_activate`, `sensor_device_batch` and
`sensor_device_set_delay` take `m_mutex`, change the entry and call
`get_sock_client`; `send_config_msg` is the `send_data` and the unlock, so
that the listener can act in between. `client_connected_callback` is one round
of the replay loop, which locks `m_mutex` anew each time. A send may fail or
stop halfway; its callers go on. A client is external: `view` holds, per
sensor, what it received last. `server_step` has the steps of `SockServer`
that this module does not refine. A period is asked for in nanoseconds and may
be any integer: no function of the path checks its range. `sampling_period_ms`
is the division of C++ followed by the conversion to `int32_t`, which wraps;
`NS_PER_MS` and `INT32_MAX` are constants so that TLC meets the ends of the range
with small numbers and the proofs cover the real ones. `asked` is the period
asked for last.

### EventTime

The end of `sensor_device_poll_event_locked` (lines 327-349). A message
carries its client and the time of its sample by the HAL's clock; the client's
own reading, which is all the code sees, is that plus the client's `Skew`. The
queue in between delays messages and drops the oldest, as `SensorDevice` shows
in detail. A message arrives any time after its sample was taken, after the
client's earlier ones. The stamp stored last is kept per client, so that events
of one client are compared across those of others. A reconnected client with
another clock is another member of `Clients`.

## 3. Runs

Bounds are named in the modules. "states" are distinct ones.

| run | instance | shows |
|---|---|---|
| `device_safety` | queue 1, pool 1, both magnetic field types and an unsupported one, flushes of handle 5, `count` 1 or 2, 3 messages, 2 flushes, 2 clients, spurious wakeups; 1.0M states | order, slots, buffers, flushes, `PollReturnsEvents`, `ImplementsEventStream` |
| `device_live` | accelerometer, flushes of handles 0 and 1, 3 messages, no spurious wakeups; 121k states | `CrashNeedsOverflow`, `QueueDrains` |
| `server_scan` | 3 connections, `m_clients` of 2, `client_slots` of 3; 79k states | tables, default client, closing, `ImplementsPresence`, `ClientsAreServed` |
| `transfer_modes` | lengths 0, 1 and 3, timeout 2, kernel buffer 2; 3k states | all properties of the loops |
| `config_safety` | 2 connections, calls for the last handle, 10 ns per ms, integers of 3 bits, periods of 39, 40 and -15 ns; 427k states | the tables, what an informed default client knows |
| `time_safety` | 2 clients with clocks 2 behind and 3 ahead, time up to 5, queue of 2; 1.1M states | plausible and monotone timestamps |
| `client_reconnect` | 2 descriptors, messages of 2 units, 3 faults; 67k states | leaks, callbacks, sends, `Reconnects`, `StopReturns` |
| `lifecycle_restart` | 3 clients, both socket types; 312 states | leaks, listener, address, `CloseReturns` |
| `framing_streams` | 2 clients with 2 and 1 messages of 3, 1 and 1 (unsupported) floats, headers of 2 units; 509k states | framing, messages queued once and in order, waiting, `WrittenIsQueued` |

The bounds are enough for the interesting cases: with a queue of one, two
messages overflow it while the poll thread has a third in its hand or in a
slot; a pool of one runs out; with `count` 1 a flush-complete of handle 5
is reported first and the event of handle 2 stays pending over a poll call; two flushes of a handle use the counter, also beyond the first
answer; the magnetic field types are the ones that share code; three client
slots and a table of two reach the overrun of `m_clients` (512 and 255 in the
code), and the refusal of a connection that does not fit; a length of 3 and a
kernel buffer of 2 force short counts, and a timeout of 2 is used up in
different places; the last handle is the one an incomplete replay would
forget, and it is one of the two that the sensor list orders differently;
the three periods are the longest whose milliseconds fit the integer, with a
fraction that is cut off, the shortest that does not fit, and a negative one; in
five ticks either client fixes the offset, by a message that is late or not, and
the other has events before and after some of the first; with two
descriptors a client has a new connection while the old one's number is free, three faults lose a
connection, fail an attempt and lose the next one; a header of two units can be
cut after its type and before it, and the first client's second message starts
where a lost boundary would show. Deadlock checking is off for the device, the
server, the client and the configuration: undefined behaviour or `_exit` ends
the process, a destroyed client does nothing more, and with the bounds reached
the threads of the device wait forever.

### Disagreements

Three runs show that the code does not do what one of its comments says
("findings" in `PROJECT.json` quotes the lines):

| run | property | what happens |
|---|---|---|
| `device_pending` | `PendingIsReported` | a flush does not wake the waiting poll thread; its answer waits for the next message of any client |
| `device_sticky` | `MetaDataIsSticky` | a message of the same sensor, fetched when the flush comes, overwrites the flush-complete event |
| `server_synced` | `ClientIsSynced` | the proxy is deleted between `get_sock_client` and `send_data` |

The passing properties are stated around these: `FlushLostOnlyByStore` and
`Forget` of `EventStream` say that the second case is the only way to lose a
flush, `DefaultClientIsLive` that the window of the third is the closing of the
default client, `SenderIsSafe` (proved) that a sender never holds anything but a
live proxy or that of a client closed meanwhile.

More are visible in what passing properties leave out:

- line 259 copies the payload of the uncalibrated magnetic field sensor to the
  slot of the calibrated one: `SlotIntegrity` exempts the two slots;
- the condition variable is not waited on in a loop: a spurious wakeup makes
  the poll thread pop an empty queue, and `CrashNeedsOverflow` says that this
  and the race of line 584 are the only ways to undefined behaviour;
- `send_data` returns the size sent so far, not the documented -1, after a
  socket error (sock_utils.cpp:183, 248): `SensorConfig` therefore lets a send
  fail without its caller noticing, and its properties are about connections
  on which none did (`faulty`);
- at end of file `recv_data` tests an `errno` that `recv` has not set; with an
  EAGAIN from an earlier wait the blocking mode, and with it the only listener
  thread, loops forever. `RecvEndsUnlessStale` says that the stale value is
  the only cause, `HangNeedsCutMessage` that a client has to close in the
  middle of a message (or have sent something unexpected), and `CloseReturns`
  exempts a listener in this state;
- the payload of an unsupported type stays in the stream and is read as a
  header: `FramingIsKept` and `QueuedIsSent` are about the part of a stream
  before such a message;
- `SockClient` deletes and replaces its connection under a sending thread
  (the TODO of sock_utils.cpp:606): `SendIsSafeWithoutDisconnect` says that
  only a disconnection during the call can split a message over two
  connections or reach a deleted object;
- `recv_data` blocks the only listener thread until the client completes its
  message (sensors_vhal.cpp:546, 573): `ClientsAreServed` and `WrittenIsQueued`
  assume that no client leaves it there for ever, `CloseReturns` exempts it;
- bytes that `SockClient`'s application does not read hide the end of the
  connection (`nread != 0`, sock_client.cpp:192), for ever: `Reconnects` assumes
  that they are read;
- a period of more than 2^31 - 1 milliseconds wraps around in the conversion of
  lines 446 and 470: `RequestIsKnown` exempts it;
- `m_clients` is overrun by the 256th client: `OverrunNeedsFullTable` says that
  only then;
- `sock_server_close` unlinks the default path and not the one it bound;
  `AddressIsReusable` holds because `sock_server_init` unlinks the right one.

### Fairness

- `SensorDevice`: the poll thread always takes a step when it can, since the
  framework calls `poll()` in a loop; the listener finishes a step it has
  begun, and chooses a default client after closing one. Nothing makes a
  client connect, send or disconnect, or `recv_data` complete: there is no
  fairness on these. Locks: weak fairness suffices for `QueueDrains` because
  nobody else holds `m_mutex` over a step.
- `SockServer`, `EventFraming`: the listener thread runs; it has no other
  work. Clients need not do anything. In `SockServer` there is no fairness on
  `message_received`, since a callback returns only if its client goes on;
  `ClientsAreServed` assumes, in the property, that the listener leaves the
  callback again and again. `WrittenIsQueued` assumes likewise that from some
  point on no client leaves the listener waiting. A client sends at most
  `MaxMsgs` messages there, so that the run says nothing of one that never
  pauses; `ClientsAreServed` does (`SockServer` bounds what is unread, not what
  is sent).
- `SockServerLifecycle`: the listener runs and a close under way goes on, but
  `received` has no fairness, since it takes the client's cooperation.
- `SockClient`: the listener runs, and a join or destructor that may return
  does. The callbacks of the application are parts of the listener's steps, so
  `Reconnects` and `StopReturns` assume that they return: one that blocks keeps
  the thread from noticing `stop`. The server need not listen, nobody need send
  or stop; `Reconnects` assumes in the property that the server stays up, the
  client at work and the application reading.
- `SockTransfer`: the calling thread runs (`usleep` returns). The kernel and
  the peer need not do anything.

## 4. Proofs

`SensorDevice_proofs` proves, for every queue length, pool size, set of sensor
types, set of flushed handles, `count`s, number of clients and of messages,
with or without spurious wakeups:

| theorem | states |
|---|---|
| `TypeCorrect` | `TypeOK` |
| `DeviceInvariant` | `IInv`, the inductive invariant |
| `InOrder` | `ReportedInOrder` |
| `SlotsIntact` | `SlotIntegrity` |
| `PendingSlotsFilled` | `PendingSlotsAreFilled` |
| `OneEventAtATime` | `OneUnreportedEvent` |
| `BuffersBounded` | `BufferBound` |
| `PoolIsNeverEmpty` | `PoolNeverUnderflows` |
| `FlushCompletesAreReal` | `NoSpuriousFlushComplete` |
| `CrashesExplained` | `CrashNeedsOverflow` |
| `PollNeverReturnsZero` | `PollReturnsEvents` |
| `FlushesSurvive` | `FlushLostOnlyByStore` |

The only assumption is `DeviceAssumption` of `SensorDevice`, which TLC
evaluates in every run: the queue holds at least one message, the framework
flushes existing handles and polls with a positive count (the test of
`sensor_poll_events`), and bounds are natural numbers.

None of the properties is inductive. `IInv` strengthens them by:

- `LockInv`: where the poll thread holds `m_mutex`;
- `PollInv`: a call that reaches the reporting loop has something pending or
  has reported something: no other thread can take a pending bit away;
- `PoolInv`: when the listener has decided to create a buffer, one fewer than
  the bound is alive. The test of the pool is unlocked, but only the listener
  takes buffers out, so "not empty" stays true; and when it is empty, all
  buffers are in the queue or in the poll thread's hand;
- `OrderInv`: numbers grow from the last reported event over the slot, the
  poll thread's hand and the queue to the message being received. It needs
  `OneUnreportedEvent`: with two unreported events the highest handle would be
  reported first, whichever is older;
- `CrashInv`: a woken poll thread finds a message unless the wakeup was
  spurious, and an empty pool slot needs a dropped message.

Each part has a lemma with one step per action; `IInvStep` combines them.

It also proves `DeviceImplementsStream`: under the same
assumption `Spec => ImplementsEventStream`, the whole specification of
`EventStream` under the refinement mapping. Each action is shown to be one step
of `EventStream` or none: `post_message` accepts, `post_message_dropping_oldest`
accepts at the cost of the oldest (the queue is full, so `Capacity` messages are
in flight), a failed payload refuses, reporting a sensor event is `Report`
(`OrderInv` makes it the oldest), a flush is `Flush`, a store over a
flush-complete is `Forget`. It needs `IInv` throughout, `OneUnreportedEvent` and
`OrderInv` most. `DeviceSeesPresence` (`SeesClientPresence`) and
`DeviceAssumesNoMore` (`AllowsClientPresence`) show that the device's listener
does to its clients what `ClientPresence` allows, and all that it allows.

`SockTransfer_proofs` proves, for every set of lengths, timeout and kernel
buffer (`TransferAssumption`):

| theorem | states |
|---|---|
| `TransferInvariant` | `IInv`, the inductive invariant |
| `TransferTypes` | `TypeOK` |
| `AccountsAgree` | `NothingLostOrRepeated` |
| `TimeoutBound` | `TimeoutIsBounded` |
| `BlockGivesUpOnErrors` | `BlockMovesAll` |
| `TimeoutGivesUpLate` | `TimeoutIsUsed` |

`IInv` adds to the accounts that the retries left and the sleeps made add up
to the timeout (`retry_count = TIMEOUT_MS - sleeps`, never below -1). The two
action properties rest on one lemma, `ShortReturn`: a loop that ends early did
so in a failed call, and if that call could be retried, the count was -1.

`EventTime_proofs` proves, for any clients, clock differences, delays and
queue (`TimeAssumption`): `TimeInvariant` (`IInv`), `TimeTypes`, `PlausibleTimestamps`
(`TimestampIsPlausible`) and `MonotoneTimestamps` (`ClientTimeIsMonotone`).
`IInv` says that the samples of each client are queued in the order they were
taken, none before the one of that client stored last (`QueueInv`), that the
offset makes up for the first client's clock plus the delay of its first event,
and that each client's last stamp is its sample shifted by that offset or the
time of storing, whichever is less (`OffsetInv`); both only grow. The one step
that changes the offset finds nothing stored.

`SockServer_proofs` proves, for any connections and any sizes of the two tables
(`ServerAssumption`): `ServerInvariant` (`IInv`), `ServerTypes` (`TypeOK`),
`TablesAgree` (`RegistryAgrees`), `LiveDefault` (`DefaultClientIsLive`),
`OverrunExplained` (`OverrunNeedsFullTable`), `NoEarlyClose`
(`ClosedOnlyAtEOF`), `StableDefault` (`DefaultIsStable`), `SafeSenders`
(`SenderIsSafe`) and `ServerImplementsPresence` (`ImplementsPresence`). `IInv`
adds what
the network still holds of a connection (`NetInv`: a registered connection was
accepted, one in the backlog was not), where the scan stands when a proxy is
half forgotten (`ScanInv`) and that the default client is a registered one or
the one being closed (`DefaultInv`). `RegistryAgrees` counts: its proof uses the
cardinality facts of `FiniteSetTheorems`. So does `ServerImplementsPresence`:
that the default client is gone with the last client (`m_ncount` = 1) is the
cardinality of the registered clients without the closed one. `SafeSenders` is
an induction of its own on top of `IInv`: a closed connection stays closed, and
one that leaves its slot is closed (`ClosedForGood`).

`EventFraming_proofs` proves, for any number of clients, any messages, any
header length and any bounds (`FramingAssumption`):

| theorem | states |
|---|---|
| `FramingInvariant` | `IInv`, the inductive invariant |
| `FramingTypeCorrect` | `TypeOK` |
| `FramingKept` | `FramingIsKept` |
| `QueuedWasSent` | `QueuedIsSent` |
| `QueuedOnceInOrder` | `QueuedInOrder` |
| `HangExplained` | `HangNeedsCutMessage` |

`FramingIsKept` says where the listener stands between messages; what happens
within one takes `CallInv`: what was taken of the stream is what the call has
received after the start of the message, the rest of the call is the rest of the
header or of the payload, and the type is known from the first piece on, unless
the stream has ended within the header (`HeaderIsCut`). `StreamInv` says that
the messages of a stream follow each other without gaps, so that the end of one
is the start of the next and a place where a message starts names one message
only. `QueuedInOrder` is preserved because of `QueuedIsBehind`: what is queued
starts before the listener's place, so that what is queued next starts after all
of it. It holds for every client, whatever it sends.

`SensorConfig_proofs` proves, for any connections, handles, periods and width of
integers (`ConfigAssumption`, `ServerAssumption`):

| theorem | states |
|---|---|
| `ConfigImplementsServer` | `ConfigSpec => Spec`: the composition implements `SockServer` |
| `ConfigInvariant` | `ConfigInv`, the inductive invariant |
| `ConfigTypeCorrect` | `ConfigTypes` |
| `DisabledKnown` | `DisabledIsKnown` |
| `PeriodKnown` | `PeriodIsKnown` |
| `RequestKnown` | `RequestIsKnown` |

The first makes every theorem of `SockServer_proofs` available here, and the
others use its `IInv`. What an informed client knows is not inductive: during a
replay a client knows the entries below `replay`, and a call that holds `m_mutex`
has changed an entry that is still on its way. `Told` says which entries the
default client has been told, `KnownInv` that it knows those; `GreetedInv` and
`SenderInv` say that a client which got the replay stays the default client until
it is closed, and that a thread still holding a closed client's proxy has nothing
to tell the new one that its replay will not. `EntryInv` says the same of the
HAL's own table. `RequestIsKnown` follows from `PeriodIsKnown` and `AskedInv`, by
which an entry holds the converted period that was asked for last, through
activations too (lemma `Period`: what the two conversions keep of it).

`SockServerLifecycle_proofs` proves, for any clients and socket types
(`LifecycleAssumption`): `LifecycleInvariant` (`IInv`), `LifecycleTypes`
(`TypeOK`), `NoLeak` (`NothingLeaks`), `NoOrphanListener` (`ListenerHasServer`)
and `RestartBinds` (`AddressIsReusable`). `LifeInv` says what exists at each
point of opening and closing; in particular the address has been freed when
`bind` is called.

`SockClient_proofs` proves, for any descriptors, messages of any length and any
number of faults (`ClientAssumption`): `ClientInvariant` (`IInv`),
`ClientTypes` (`TypeOK`), `NoLeak` (`NothingLeaks`), `CallbacksInOrder`
(`AnnouncedFirst`) and `SendsAreSafe` (`SendIsSafeWithoutDisconnect`). `IInv`
adds what the listener holds at each point (`ThreadInv`), that a connection
which is not announced is left to a listener that is about to quit
(`AnnounceInv`: `m_be_working` is not set again before the join, so the next
thread announces it), and that `m_client` stays put under a sender until the
listener closes it (`SendInv`).

Only proved, and in no run: the type invariants other than `ConfigTypes`;
`PendingSlotsAreFilled`, `OneUnreportedEvent`, `PoolNeverUnderflows` and
`NoSpuriousFlushComplete` of `SensorDevice`, which are conjuncts of its `IInv`;
`SenderIsSafe`; `SeesClientPresence` and `AllowsClientPresence`. What they are
for shows in the properties that the runs check.

Only model-checked: the liveness properties (`QueueDrains`,
`ClientsAreServed`, `RecvEndsUnlessStale`, `WrittenIsQueued`, `Reconnects`,
`StopReturns`, `CloseReturns`), since fairness and `ENABLED` are out of the
prover's reach. Every safety property of a passing run is proved.

## 5. Not modelled

- Passing of file descriptors (`sock_server_send_fd` and its three companions),
  `sock_server_clients_writeable` and `sock_server_get_addr`: no code of the
  repository calls them, so there is no use to model them by.
- The composition of socket paths, the reading of properties, names and ranges
  of the sensor list, logging: strings and I/O that no state depends on. With
  the logging go two hazards: a log interval of 0 divides by zero (line 297),
  and line 150 of sock_utils.cpp logs the id of a deleted proxy.
- Handles outside the list (line 490 uses the handle unchecked): the framework
  passes handles of the list it was given.
- `cg_mutex.h` is used in a comment only; the manual tests only call what is
  modelled.
- The width of `m_flush_count` (32 bits) does not matter below 2^32 flushes,
  which `MaxFlushes` stays below.

## 6. Plan

1. *Done*: all modules of section 2; a theorem for every safety property of a
   passing run, with the proofs of section 4.
2. Left: that `recv_data` as `EventFraming` has it behaves as the blocking mode
   of `SockTransfer`; the safety part of the liveness properties (what is
   true until the awaited step, and that this step stays enabled) as invariants
   and action properties of the same specifications.
