---------------------------- MODULE SensorDevice ----------------------------
(***************************************************************************)
(* The event path of the sensor HAL (class SensorDevice).                  *)
(*                                                                         *)
(* Three threads share a SensorDevice:                                     *)
(*  - the poll thread of the Android framework, which calls poll() in a    *)
(*    loop: sensor_device_poll -> sensor_device_poll_event_locked ->       *)
(*    sensor_device_pick_pending_event_locked;                             *)
(*  - the framework's control thread, which calls flush();                 *)
(*  - the listener thread of SockServer, which accepts and closes clients  *)
(*    and runs sensor_event_callback for every readable client.            *)
(*                                                                         *)
(* m_mutex protects m_pending_sensors, m_sensors and m_flush_count; the    *)
(* poll thread holds it across several steps.  Every critical section of   *)
(* m_msg_queue_mtx is one step, as are the sections of m_msg_pool_mtx,     *)
(* except the poll thread's (poll_pc = "emplace"), which the listener's    *)
(* unprotected emplace at sensors_vhal.cpp:584 can overlap.                *)
(*                                                                         *)
(* Messages carry an id, the number of the header that announced them.     *)
(* Payload bytes, timestamps and logging are left out.                     *)
(***************************************************************************)
EXTENDS SensorTypes, Sequences

CONSTANTS
  MAX_MSG_QUEUE_SIZE,  \* capacity of m_sensor_msg_queue (128 in the code)
  MEM_POOL_SIZE,       \* buffers the constructor puts in the pool (16)
  SentTypes,           \* sensor types that clients put in their headers
  FlushHandles,        \* handles the framework flushes
  Counts,              \* |count| arguments of the framework's poll calls
  SpuriousWakeups,     \* may condition_variable::wait return unnotified?
  MaxClients,          \* bound: clients connected at the same time
  MaxMsgs,             \* bound: headers received
  MaxFlushes           \* bound: flush calls for one handle (below 2^32)

ASSUME DeviceAssumption ==
  /\ MAX_MSG_QUEUE_SIZE \in Nat \ {0}
  /\ MEM_POOL_SIZE \in Nat
  /\ FlushHandles \subseteq Handles
  /\ Counts \subseteq Nat \ {0}
  /\ SpuriousWakeups \in BOOLEAN
  /\ MaxClients \in Nat
  /\ MaxMsgs \in Nat
  /\ MaxFlushes \in Nat

VARIABLES
  m_mutex,            \* "free", or "poll" while the poll thread holds it
  poll_pc,            \* where the poll thread is
  count,              \* argument of the poll call in progress
  result,             \* events the poll call has written so far
  hand,               \* message of the buffer the poll thread has dequeued
  m_pending_sensors,  \* the handles whose bit is set
  slot_type,          \* handle -> m_sensors[handle].type
  slot_data,          \* handle -> the union of m_sensors[handle]
  m_flush_count,      \* handle -> further flush calls to answer
  m_sensor_msg_queue, \* the received messages
  m_msg_mem_pool,     \* the pool's slots: a buffer, or "null"
  lis_pc,             \* where the listener thread is
  lmsg,               \* message the listener is receiving
  clients,            \* number of connected clients
  m_pclient_,         \* is there a default client?
  crashed             \* undefined behaviour has been executed

\* History, for the properties only (rx also numbers the messages).
VARIABLES
  rx,                 \* headers received
  src,                \* handle -> id of the message last stored for it
  lastId,             \* id of the sensor event reported last
  flushes,            \* handle -> flush calls
  completes,          \* handle -> flush-complete events reported
  drops               \* messages dropped from the full queue

pollVars   == <<m_mutex, poll_pc, count, result, hand>>
eventVars  == <<m_pending_sensors, slot_type, slot_data, m_flush_count>>
bufferVars == <<m_sensor_msg_queue, m_msg_mem_pool>>
lisVars    == <<lis_pc, lmsg>>
connVars   == <<clients, m_pclient_>>
histVars   == <<rx, src, lastId, flushes, completes, drops>>
vars == <<pollVars, eventVars, bufferVars, lisVars, connVars, crashed, histVars>>

-----------------------------------------------------------------------------
\* Values.

\* slot_type[i]: a supported type, SENSOR_TYPE_META_DATA or the
\* placeholder SENSOR_TYPE_META_DATA + 1.
META_DATA   == "META_DATA"
PLACEHOLDER == "META_DATA+1"
SlotTypes   == SupportedTypes \cup {META_DATA, PLACEHOLDER}

\* The union at the end of sensors_event_t: never written, the payload of
\* message ref (torn if it was cut short), or the meta_data of a flush of
\* handle ref.
Content == [kind : {"uninit", "payload", "torn", "flush"}, ref : Nat]

Messages == [type : SupportedTypes, id : Nat, whole : BOOLEAN]

NoMsg == [type |-> "ACCELEROMETER", id |-> 0, whole |-> TRUE]

PayloadOf(msg) ==
  [kind |-> IF msg.whole THEN "payload" ELSE "torn", ref |-> msg.id]

FlushMeta(handle) == [kind |-> "flush", ref |-> handle]

\* (Seeded fault: the calibrated sensor is copied to the other slot.)
DataSlot_swapped(sensor_type) ==
  IF sensor_type = "MAGNETIC_FIELD"
  THEN ID_MAGNETIC_FIELD_UNCALIBRATED
  ELSE get_handle_from_type[sensor_type]

\* The event slot whose data a message of the given type is copied to: its
\* own, except that the memcpy for MAGNETIC_FIELD_UNCALIBRATED targets the
\* slot of MAGNETIC_FIELD (sensors_vhal.cpp:259).
DataSlot(sensor_type) ==
  IF sensor_type = "MAGNETIC_FIELD_UNCALIBRATED"
  THEN ID_MAGNETIC_FIELD
  ELSE get_handle_from_type[sensor_type]

\* (Seeded fault: a case without new_sensors |= ...)
new_sensors_forgotten(sensor_type) == {}

\* The bit that the switch sets in new_sensors.
new_sensors(sensor_type) == {get_handle_from_type[sensor_type]}

\* The type of a slot after its last flush-complete event: "sticky" no more.
TypeAfterFlush == PLACEHOLDER

\* m_flush_count when a flush finds no unanswered flush of the sensor.
FirstFlushCount == 0

\* SensorDevice::SensorDevice, and the start of the listener thread.
Init ==
  /\ m_mutex = "free"
  /\ poll_pc = "idle"
  /\ count = 0
  /\ result = 0
  /\ hand = NoMsg
  /\ m_pending_sensors = {}
  /\ slot_type = [h \in Handles |-> PLACEHOLDER]
  /\ slot_data = [h \in Handles |-> [kind |-> "uninit", ref |-> 0]]
  /\ m_flush_count = [h \in Handles |-> 0]
  /\ m_sensor_msg_queue = <<>>
  /\ m_msg_mem_pool = [i \in 1 .. MEM_POOL_SIZE |-> "buf"]
  /\ lis_pc = "idle"
  /\ lmsg = NoMsg
  /\ clients = 0
  /\ m_pclient_ = FALSE
  /\ crashed = FALSE
  /\ rx = 0
  /\ src = [h \in Handles |-> 0]
  /\ lastId = 0
  /\ flushes = [h \in Handles |-> 0]
  /\ completes = [h \in Handles |-> 0]
  /\ drops = 0

-----------------------------------------------------------------------------
\* The poll thread.

\* (Seeded fault: poll fetches an event whatever is pending.)
must_fetch_always == TRUE

\* if (!m_pending_sensors)
must_fetch == m_pending_sensors = {}

\* sensor_device_poll: lock m_mutex; report what is pending, or else go and
\* fetch an event.
sensor_device_poll(n) ==
  /\ poll_pc = "idle"
  /\ m_mutex = "free"
  /\ m_mutex' = "poll"
  /\ count' = n
  /\ result' = 0
  /\ poll_pc' = IF must_fetch THEN "check" ELSE "pick"
  /\ UNCHANGED <<hand, eventVars, bufferVars, lisVars, connVars, crashed, histVars>>

\* Head of the loop of sensor_device_poll_event_locked: release m_mutex, to
\* sleep if no client is connected, to wait for a message otherwise.
check_client ==
  /\ poll_pc = "check"
  /\ m_mutex' = "free"
  /\ poll_pc' = IF m_pclient_ THEN "dequeue" ELSE "sleep"
  /\ UNCHANGED <<count, result, hand, eventVars, bufferVars, lisVars, connVars,
                 crashed, histVars>>

\* After the 2 ms sleep: lock m_mutex again and continue the loop.
relock_after_sleep ==
  /\ poll_pc = "sleep"
  /\ m_mutex = "free"
  /\ m_mutex' = "poll"
  /\ poll_pc' = "check"
  /\ UNCHANGED <<count, result, hand, eventVars, bufferVars, lisVars, connVars,
                 crashed, histVars>>

\* m_msg_queue_ready_cv.wait: the queue is empty, block.
wait_for_message ==
  /\ poll_pc = "dequeue"
  /\ m_sensor_msg_queue = <<>>
  /\ poll_pc' = "waiting"
  /\ UNCHANGED <<m_mutex, count, result, hand, eventVars, bufferVars, lisVars,
                 connVars, crashed, histVars>>

\* wait may return although nobody called notify_all.
spurious_wakeup ==
  /\ SpuriousWakeups
  /\ poll_pc = "waiting"
  /\ poll_pc' = "woken"
  /\ UNCHANGED <<m_mutex, count, result, hand, eventVars, bufferVars, lisVars,
                 connVars, crashed, histVars>>

\* front() and pop(), either at once or after the wait.
pop_message ==
  /\ poll_pc \in {"dequeue", "woken"}
  /\ m_sensor_msg_queue # <<>>
  /\ hand' = Head(m_sensor_msg_queue)
  /\ m_sensor_msg_queue' = Tail(m_sensor_msg_queue)
  /\ poll_pc' = "relock"
  /\ UNCHANGED <<m_mutex, count, result, eventVars, m_msg_mem_pool, lisVars,
                 connVars, crashed, histVars>>

\* The code does not test the queue again after the wait: front() of an
\* empty queue is undefined.
pop_empty_queue ==
  /\ poll_pc = "woken"
  /\ m_sensor_msg_queue = <<>>
  /\ crashed' = TRUE
  /\ UNCHANGED <<pollVars, eventVars, bufferVars, lisVars, connVars, histVars>>

\* With m_mutex locked again: copy the message into its event slot and mark
\* the sensor pending.  Then m_msg_pool_mtx is locked.
store_event ==
  /\ poll_pc = "relock"
  /\ m_mutex = "free"
  /\ m_mutex' = "poll"
  /\ LET h == get_handle_from_type[hand.type]
     IN  /\ slot_type' = [slot_type EXCEPT ![h] = hand.type]
         /\ slot_data' = [slot_data EXCEPT ![DataSlot(hand.type)] = PayloadOf(hand)]
         /\ m_pending_sensors' = m_pending_sensors \cup new_sensors(hand.type)
         /\ src' = [src EXCEPT ![h] = hand.id]
  /\ hand' = NoMsg
  /\ poll_pc' = "emplace"
  /\ UNCHANGED <<count, result, m_flush_count, bufferVars, lisVars, connVars,
                 crashed, rx, lastId, flushes, completes, drops>>

\* The buffer goes back to the pool, under m_msg_pool_mtx.
return_buffer ==
  /\ poll_pc = "emplace"
  /\ m_msg_mem_pool' = Append(m_msg_mem_pool, "buf")
  /\ poll_pc' = "pick"
  /\ UNCHANGED <<m_mutex, count, result, hand, eventVars, m_sensor_msg_queue,
                 lisVars, connVars, crashed, histVars>>

\* (Seeded fault: the last counted flush is not answered.)
flush_counted_off_by_one(i) == m_flush_count[i] > 1

\* if (m_flush_count[i] > 0)
flush_counted(i) == m_flush_count[i] > 0

\* The part of sensor_device_pick_pending_event_locked that answers a flush:
\* one flush-complete event per call, the last one clears the slot.
pick_meta_data(i) ==
  /\ slot_type[i] = META_DATA
  /\ completes' = [completes EXCEPT ![i] = @ + 1]
  /\ IF flush_counted(i)
     THEN /\ m_flush_count' = [m_flush_count EXCEPT ![i] = @ - 1]
          /\ UNCHANGED <<m_pending_sensors, slot_type>>
     ELSE /\ slot_type' = [slot_type EXCEPT ![i] = TypeAfterFlush]
          /\ m_pending_sensors' = m_pending_sensors \ {i}
          /\ UNCHANGED m_flush_count
  /\ UNCHANGED <<slot_data, lastId>>

\* (Seeded fault: the bit is not cleared.)
pick_sensor_event_keeping_bit(i) ==
  /\ slot_type[i] # META_DATA
  /\ lastId' = src[i]
  /\ UNCHANGED <<m_pending_sensors, slot_type, slot_data, m_flush_count, completes>>

\* The part of it that reports a sensor event.
pick_sensor_event(i) ==
  /\ slot_type[i] # META_DATA
  /\ m_pending_sensors' = m_pending_sensors \ {i}
  /\ lastId' = src[i]
  /\ UNCHANGED <<slot_type, slot_data, m_flush_count, completes>>

\* One round of the loop of sensor_device_poll: report the pending sensor of
\* the highest bit.
sensor_device_pick_pending_event_locked ==
  /\ poll_pc = "pick"
  /\ result < count
  /\ \E i \in m_pending_sensors :
       /\ \A j \in m_pending_sensors : j =< i
       /\ pick_meta_data(i) \/ pick_sensor_event(i)
  /\ result' = result + 1
  /\ UNCHANGED <<m_mutex, poll_pc, count, hand, bufferVars, lisVars, connVars,
                 crashed, rx, src, flushes, drops>>

\* The loop ends at count events or with nothing pending; poll returns
\* result.
poll_return ==
  /\ poll_pc = "pick"
  /\ result = count \/ m_pending_sensors = {}
  /\ m_mutex' = "free"
  /\ poll_pc' = "idle"
  /\ UNCHANGED <<count, result, hand, eventVars, bufferVars, lisVars, connVars,
                 crashed, histVars>>

PollThread ==
  \/ \E n \in Counts : sensor_device_poll(n)
  \/ check_client
  \/ relock_after_sleep
  \/ wait_for_message
  \/ spurious_wakeup
  \/ pop_message
  \/ pop_empty_queue
  \/ store_event
  \/ return_buffer
  \/ sensor_device_pick_pending_event_locked
  \/ poll_return

-----------------------------------------------------------------------------
\* The framework's control thread.

\* A flush of a sensor with an unanswered flush is counted; otherwise the
\* event slot is turned into a flush-complete event.
sensor_device_flush(handle) ==
  /\ m_mutex = "free"
  /\ flushes[handle] < MaxFlushes
  /\ IF handle \in m_pending_sensors /\ slot_type[handle] = META_DATA
     THEN /\ m_flush_count' = [m_flush_count EXCEPT ![handle] = @ + 1]
          /\ UNCHANGED <<m_pending_sensors, slot_type, slot_data>>
     ELSE /\ m_flush_count' = [m_flush_count EXCEPT ![handle] = FirstFlushCount]
          /\ slot_type' = [slot_type EXCEPT ![handle] = META_DATA]
          /\ slot_data' = [slot_data EXCEPT ![handle] = FlushMeta(handle)]
          /\ m_pending_sensors' = m_pending_sensors \cup {handle}
  /\ flushes' = [flushes EXCEPT ![handle] = @ + 1]
  /\ UNCHANGED <<pollVars, bufferVars, lisVars, connVars, crashed, rx, src,
                 lastId, completes, drops>>

-----------------------------------------------------------------------------
\* The listener thread of SockServer.

\* check_new_connection: the first client becomes the default client.
accept_client ==
  /\ lis_pc = "idle"
  /\ clients < MaxClients
  /\ m_pclient_ \/ clients = 0
  /\ clients' = clients + 1
  /\ m_pclient_' = TRUE
  /\ lis_pc' = "connected"
  /\ UNCHANGED <<pollVars, eventVars, bufferVars, lmsg, crashed, histVars>>

\* client_connected_callback: sends the configuration under m_mutex (its
\* effect on this component is only that it needs the mutex).
client_connected_callback ==
  /\ lis_pc = "connected"
  /\ m_mutex = "free"
  /\ lis_pc' = "idle"
  /\ UNCHANGED <<pollVars, eventVars, bufferVars, lmsg, connVars, crashed, histVars>>

\* check_new_message closes a disconnected client, the default one or
\* another; the last one is the default client if there is one.
close_client ==
  /\ lis_pc = "idle"
  /\ clients > 0
  /\ clients' = clients - 1
  /\ m_pclient_' \in BOOLEAN
  /\ m_pclient_' => m_pclient_ /\ clients > 1
  /\ UNCHANGED <<pollVars, eventVars, bufferVars, lisVars, crashed, histVars>>

\* The end of check_new_message: choose a new default client.
choose_default ==
  /\ lis_pc = "idle"
  /\ clients > 0
  /\ ~m_pclient_
  /\ m_pclient_' = TRUE
  /\ UNCHANGED <<pollVars, eventVars, bufferVars, lisVars, clients, crashed, histVars>>

\* sensor_event_callback: receive a header; an unsupported type ends the
\* callback.
recv_header(sensor_type) ==
  /\ lis_pc = "idle"
  /\ clients > 0
  /\ rx < MaxMsgs
  /\ rx' = rx + 1
  /\ IF get_payload_len(sensor_type) = 0
     THEN UNCHANGED lisVars
     ELSE /\ lis_pc' = "header"
          /\ lmsg' = [type |-> sensor_type, id |-> rx + 1, whole |-> TRUE]
  /\ UNCHANGED <<pollVars, eventVars, bufferVars, connVars, crashed, src, lastId,
                 flushes, completes, drops>>

\* (Seeded faults: the test is missing, or always succeeds.)
pool_empty_never == FALSE
pool_empty_always == TRUE

\* m_msg_mem_pool.empty(), unlocked.  It races with the emplace of line 352,
\* which only moves the end of the queue: the answer is that before or that
\* after it, the two orders of the steps.
pool_empty == m_msg_mem_pool = <<>>

\* The test of the pool, without a lock.
check_pool ==
  /\ lis_pc = "header"
  /\ lis_pc' = IF pool_empty THEN "create" ELSE "take"
  /\ UNCHANGED <<pollVars, eventVars, bufferVars, lmsg, connVars, crashed, histVars>>

\* "pool run out, create new buffer", under m_msg_pool_mtx.
create_buffer ==
  /\ lis_pc = "create"
  /\ poll_pc # "emplace"
  /\ m_msg_mem_pool' = Append(m_msg_mem_pool, "buf")
  /\ lis_pc' = "take"
  /\ UNCHANGED <<pollVars, eventVars, m_sensor_msg_queue, lmsg, connVars, crashed,
                 histVars>>

\* front() and pop() of the pool, under m_msg_pool_mtx.  An empty pool, or a
\* slot without a buffer, is undefined behaviour when the buffer is used.
take_buffer ==
  /\ lis_pc = "take"
  /\ poll_pc # "emplace"
  /\ IF m_msg_mem_pool = <<>> \/ Head(m_msg_mem_pool) = "null"
     THEN /\ crashed' = TRUE
          /\ UNCHANGED <<lis_pc, m_msg_mem_pool>>
     ELSE /\ m_msg_mem_pool' = Tail(m_msg_mem_pool)
          /\ lis_pc' = "fill"
          /\ UNCHANGED crashed
  /\ UNCHANGED <<pollVars, eventVars, m_sensor_msg_queue, lmsg, connVars, histVars>>

\* The payload has been received, or a part of it before the connection
\* broke: only len <= 0 is an error.
recv_payload ==
  /\ lis_pc = "fill"
  /\ lis_pc' = "post"
  /\ \E whole \in BOOLEAN : lmsg' = [type |-> lmsg.type, id |-> lmsg.id, whole |-> whole]
  /\ UNCHANGED <<pollVars, eventVars, bufferVars, connVars, crashed, histVars>>

\* No byte of the payload could be received: the callback returns and
\* buf_ptr frees the buffer.
recv_payload_failed ==
  /\ lis_pc = "fill"
  /\ lis_pc' = "idle"
  /\ lmsg' = NoMsg
  /\ UNCHANGED <<pollVars, eventVars, bufferVars, connVars, crashed, histVars>>

\* (Seeded fault: nobody is notified.)
notify_nobody == poll_pc

\* m_msg_queue_ready_cv.notify_all(): where the poll thread is afterwards.
notify_all == IF poll_pc = "waiting" THEN "woken" ELSE poll_pc

\* The critical section of m_msg_queue_mtx, the queue not being full.
post_message ==
  /\ lis_pc = "post"
  /\ Len(m_sensor_msg_queue) < MAX_MSG_QUEUE_SIZE
  /\ m_sensor_msg_queue' = Append(m_sensor_msg_queue, lmsg)
  /\ poll_pc' = notify_all
  /\ lis_pc' = "idle"
  /\ lmsg' = NoMsg
  /\ UNCHANGED <<m_mutex, count, result, hand, eventVars, m_msg_mem_pool, connVars,
                 crashed, histVars>>

\* The same with a full queue: the oldest message makes room and its buffer
\* goes to the pool, without m_msg_pool_mtx.  If the poll thread is inside
\* return_buffer, the two emplaces race: they happen one after the other, or
\* both construct the same slot and one or two slots are counted.
post_message_dropping_oldest ==
  /\ lis_pc = "post"
  /\ Len(m_sensor_msg_queue) >= MAX_MSG_QUEUE_SIZE
  /\ m_sensor_msg_queue' = Append(Tail(m_sensor_msg_queue), lmsg)
  /\ drops' = drops + 1
  /\ \/ /\ m_msg_mem_pool' = Append(m_msg_mem_pool, "buf")
        /\ poll_pc' = notify_all
     \/ /\ poll_pc = "emplace"
        /\ \/ m_msg_mem_pool' = Append(m_msg_mem_pool, "buf")
           \/ m_msg_mem_pool' = Append(Append(m_msg_mem_pool, "buf"), "null")
        /\ poll_pc' = "pick"
  /\ lis_pc' = "idle"
  /\ lmsg' = NoMsg
  /\ UNCHANGED <<m_mutex, count, result, hand, eventVars, connVars, crashed, rx,
                 src, lastId, flushes, completes>>

ListenerThread ==
  \/ accept_client
  \/ client_connected_callback
  \/ close_client
  \/ choose_default
  \/ \E t \in SentTypes : recv_header(t)
  \/ check_pool
  \/ create_buffer
  \/ take_buffer
  \/ recv_payload
  \/ recv_payload_failed
  \/ post_message
  \/ post_message_dropping_oldest

\* Undefined behaviour ends the process.
Next ==
  /\ ~crashed
  /\ \/ PollThread
     \/ \E h \in FlushHandles : sensor_device_flush(h)
     \/ ListenerThread

Spec == Init /\ [][Next]_vars

\* Every thread that can take a step eventually does, except that nothing
\* makes clients connect, send or disconnect, nor the framework flush.  The
\* framework's poll thread calls poll() forever.
FairSpec ==
  /\ Spec
  /\ WF_vars(~crashed /\ PollThread)
  /\ WF_vars(~crashed /\ (choose_default \/ client_connected_callback))
  /\ WF_vars(~crashed /\ (check_pool \/ create_buffer \/ take_buffer))
  /\ WF_vars(~crashed /\ (post_message \/ post_message_dropping_oldest))

-----------------------------------------------------------------------------
\* Properties.

PollPCs == {"idle", "check", "sleep", "dequeue", "waiting", "woken", "relock",
            "emplace", "pick"}

LisPCs == {"idle", "connected", "header", "create", "take", "fill", "post"}

\* Type invariant of the device's state.
TypeOK ==
  /\ m_mutex \in {"free", "poll"}
  /\ poll_pc \in PollPCs
  /\ count \in Nat
  /\ result \in Nat
  /\ hand \in Messages
  /\ m_pending_sensors \in SUBSET Handles
  /\ slot_type \in [Handles -> SlotTypes]
  /\ slot_data \in [Handles -> Content]
  /\ m_flush_count \in [Handles -> Nat]
  /\ m_sensor_msg_queue \in Seq(Messages)
  /\ m_msg_mem_pool \in Seq({"buf", "null"})
  /\ lis_pc \in LisPCs
  /\ lmsg \in Messages
  /\ clients \in Nat
  /\ m_pclient_ \in BOOLEAN
  /\ crashed \in BOOLEAN
  /\ rx \in Nat
  /\ src \in [Handles -> Nat]
  /\ lastId \in Nat
  /\ flushes \in [Handles -> Nat]
  /\ completes \in [Handles -> Nat]
  /\ drops \in Nat

\* "The function returns the number of events written into the array, which
\* shall never be greater than |count|. [...] it shall never return 0!"
\* (sensors_vhal.cpp:170-174)
PollReturnsEvents ==
  [][poll_pc = "pick" /\ poll_pc' = "idle" => result \in 1 .. count]_vars

\* The pending sensors that carry a sensor event, not a flush-complete.
PendingData == {h \in m_pending_sensors : slot_type[h] # META_DATA}

\* A pending sensor always has something to report: the framework never
\* sees the placeholder type; and an unanswered flush stays pending.
PendingSlotsAreFilled ==
  \A h \in Handles :
    /\ h \in m_pending_sensors => slot_type[h] # PLACEHOLDER
    /\ slot_type[h] = META_DATA => h \in m_pending_sensors

\* At most one received message waits in m_sensors, and none while the poll
\* thread fetches the next one: store_event never overwrites a sensor event
\* that has not been reported.
OneUnreportedEvent ==
  /\ \A g, h \in PendingData : g = h
  /\ PendingData # {} => poll_pc \in {"idle", "emplace", "pick"}

\* Sensor events are reported in the order in which their messages arrived,
\* and none twice: what waits in m_sensors, in the poll thread's hand or in
\* the queue is newer than anything reported.
ReportedInOrder ==
  /\ \A h \in PendingData : src[h] > lastId
  /\ poll_pc = "relock" => hand.id > lastId
  /\ \A i \in 1 .. Len(m_sensor_msg_queue) : m_sensor_msg_queue[i].id > lastId

\* What a slot reports is what was put there for it: the payload of the
\* message last stored for the sensor, or the meta data of its own flush.
\* The two magnetic field slots are left out where sensors_vhal.cpp:259
\* confuses them.
SlotIntegrity ==
  \A h \in m_pending_sensors :
    IF slot_type[h] = META_DATA
    THEN h # ID_MAGNETIC_FIELD => slot_data[h] = FlushMeta(h)
    ELSE h # ID_MAGNETIC_FIELD_UNCALIBRATED =>
           /\ slot_data[h].kind \in {"payload", "torn"}
           /\ slot_data[h].ref = src[h]

\* The flush-complete events still to be reported for a handle.
Outstanding(h) ==
  IF slot_type[h] = META_DATA THEN m_flush_count[h] + 1 ELSE 0

\* No flush-complete event without its flush call: those reported and those
\* outstanding never exceed the calls.
NoSpuriousFlushComplete ==
  \A h \in Handles : completes[h] + Outstanding(h) =< flushes[h]

\* An outstanding flush can only be lost to a message of the same sensor
\* that the poll thread stores; no other step of any thread drops one.
FlushLostOnlyByStore ==
  [][\A h \in Handles :
       completes'[h] + Outstanding(h)' < completes[h] + Outstanding(h) =>
         /\ poll_pc = "relock" /\ poll_pc' = "emplace"
         /\ get_handle_from_type[hand.type] = h]_vars

\* Buffers alive: in the pool, in the queue, in the hands of the two threads.
LiveBuffers ==
  Len(m_msg_mem_pool) + Len(m_sensor_msg_queue)
  + (IF poll_pc \in {"relock", "emplace"} THEN 1 ELSE 0)
  + (IF lis_pc \in {"fill", "post"} THEN 1 ELSE 0)

\* Creating buffers on demand is bounded: there are never more than the
\* initial pool, or a full queue and one buffer for each thread.
BufferBound ==
  \/ LiveBuffers =< MEM_POOL_SIZE
  \/ LiveBuffers =< MAX_MSG_QUEUE_SIZE + 2

\* The listener never takes a buffer from an empty pool, although it tests
\* the pool without the lock; and the queue respects its capacity.
PoolNeverUnderflows ==
  /\ lis_pc = "take" => m_msg_mem_pool # <<>>
  /\ Len(m_sensor_msg_queue) =< MAX_MSG_QUEUE_SIZE

\* A pop from an empty queue or the use of a missing buffer needs a spurious
\* wakeup (sensors_vhal.cpp:197), or a queue that has been full (the emplace of
\* line 584 without the pool's lock).  The third race on the pool, the unlocked
\* empty() of line 557, leads to neither: either answer is safe.
CrashNeedsOverflow == crashed => SpuriousWakeups \/ drops > 0

\* A message in the queue is taken out of it, unless there is no client (the
\* poll thread then only sleeps) or the process is dead: no wakeup is lost.
Queued(id) ==
  \E i \in 1 .. Len(m_sensor_msg_queue) : m_sensor_msg_queue[i].id = id

QueueDrains ==
  \A id \in 1 .. MaxMsgs : Queued(id) ~> (~Queued(id) \/ ~m_pclient_ \/ crashed)

-----------------------------------------------------------------------------
\* The inductive invariant behind these properties.

\* m_mutex is held exactly in the poll thread's critical sections.
LockInv == m_mutex = "poll" <=> poll_pc \in {"check", "emplace", "pick"}

\* The poll call in progress has room for events and will report one.
PollInv ==
  /\ poll_pc # "idle" => count >= 1 /\ result =< count
  /\ poll_pc \notin {"idle", "pick"} => result = 0
  /\ poll_pc = "emplace" => m_pending_sensors # {}
  /\ poll_pc = "pick" => m_pending_sensors # {} \/ result > 0

\* The listener decides to create a buffer only when few are alive.
PoolInv ==
  /\ PoolNeverUnderflows
  /\ BufferBound
  /\ lis_pc = "create" => LiveBuffers =< MAX_MSG_QUEUE_SIZE + 1

SlotInv ==
  /\ PendingSlotsAreFilled
  /\ OneUnreportedEvent
  /\ SlotIntegrity

\* The newest message that can have reached the queue: the listener keeps
\* the last one while it receives it.
Receiving == lis_pc \in {"header", "create", "take", "fill", "post"}
Posted == IF Receiving THEN rx - 1 ELSE rx

\* Ids grow from lastId over the slots, the poll thread's hand and the queue
\* to the message being received.
OrderInv ==
  /\ lastId =< Posted
  /\ Receiving => lmsg.id = rx /\ rx > 0
  /\ \A i \in 1 .. Len(m_sensor_msg_queue) :
       m_sensor_msg_queue[i].id \in lastId + 1 .. Posted
  /\ \A i, j \in 1 .. Len(m_sensor_msg_queue) :
       i < j => m_sensor_msg_queue[i].id < m_sensor_msg_queue[j].id
  /\ poll_pc = "relock" =>
       /\ hand.id \in lastId + 1 .. Posted
       /\ \A i \in 1 .. Len(m_sensor_msg_queue) : hand.id < m_sensor_msg_queue[i].id
  /\ \A h \in PendingData :
       /\ src[h] \in lastId + 1 .. Posted
       /\ \A i \in 1 .. Len(m_sensor_msg_queue) : src[h] < m_sensor_msg_queue[i].id

\* What undefined behaviour needs.
CrashInv ==
  /\ CrashNeedsOverflow
  /\ poll_pc = "woken" => SpuriousWakeups \/ m_sensor_msg_queue # <<>>
  /\ \A i \in 1 .. Len(m_msg_mem_pool) : m_msg_mem_pool[i] = "null" => drops > 0

IInv ==
  /\ TypeOK
  /\ LockInv
  /\ PollInv
  /\ PoolInv
  /\ SlotInv
  /\ OrderInv
  /\ NoSpuriousFlushComplete
  /\ CrashInv

-----------------------------------------------------------------------------
\* The device implements EventStream.

\* The accepted messages that have not been reported: the one in m_sensors,
\* the one in the poll thread's hand and those in the queue.
QueuedIds == {m_sensor_msg_queue[i].id : i \in 1 .. Len(m_sensor_msg_queue)}

InFlight ==
  {src[h] : h \in PendingData}
  \cup (IF poll_pc = "relock" THEN {hand.id} ELSE {})
  \cup QueuedIds

Stream == INSTANCE EventStream WITH
  Capacity <- MAX_MSG_QUEUE_SIZE,
  Sensors  <- Handles,
  newest   <- Posted,
  inflight <- InFlight,
  last     <- lastId,
  owed     <- [h \in Handles |-> Outstanding(h)]

\* Whatever the three threads interleave, the framework sees the abstract
\* stream: events in order of arrival, dropped only from a full queue or by
\* a flush, and one flush-complete event per flush unless an event of the
\* sensor overwrites them.
ImplementsEventStream == Stream!Spec

-----------------------------------------------------------------------------
\* What the device takes from SockServer.

Presence == INSTANCE ClientPresence WITH
  has_default <- m_pclient_,
  announcing  <- lis_pc = "connected"

\* The device sees its clients come and go as SockServer lets them.
SeesClientPresence == Presence!Spec

\* The other variables of the device.
restVars == <<pollVars, eventVars, bufferVars, lmsg, crashed, histVars>>

\* An idle listener may take every step of ClientPresence, up to the bound on the
\* number of clients, and announces a client as soon as it gets m_mutex.
AllowsClientPresence ==
  UNCHANGED restVars =>
    /\ lis_pc = "idle" /\ lis_pc' = "connected" /\ clients < MaxClients /\ Presence!Accept
         => accept_client
    /\ lis_pc' = "idle" /\ m_mutex = "free" /\ Presence!Announce
         => client_connected_callback
    /\ lis_pc = "idle" /\ lis_pc' = "idle" /\ Presence!Close => close_client
    /\ lis_pc = "idle" /\ lis_pc' = "idle" /\ Presence!Choose => choose_default

-----------------------------------------------------------------------------
\* What comments of the code say and the code does not do.

\* "Block until there are pending events" (sensors_vhal.cpp:387): something
\* pending is eventually reported.
PendingIsReported == (m_pending_sensors # {}) ~> (m_pending_sensors = {} \/ crashed)

\* "(dev->sensors[i].type == SENSOR_TYPE_META_DATA) is sticky"
\* (sensors_vhal.cpp:821): it stays until the flush-complete is reported.
MetaDataIsSticky ==
  [][\A h \in Handles :
       slot_type[h] = META_DATA /\ slot_type'[h] # META_DATA
         => completes'[h] = completes[h] + 1]_vars
=============================================================================
