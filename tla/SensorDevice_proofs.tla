------------------------ MODULE SensorDevice_proofs ------------------------
(***************************************************************************)
(* Proofs about SensorDevice: the invariant IInv is inductive, so the      *)
(* safety properties hold for every queue capacity, pool size, set of      *)
(* sent types and flushed handles, and however many messages and flushes;  *)
(* and the device implements EventStream.                                  *)
(***************************************************************************)
EXTENDS SensorDevice, SequenceTheorems, FiniteSetTheorems, TLAPS

-----------------------------------------------------------------------------
\* Facts about the sensor tables.

\* get_handle_from_type yields a handle for every supported type.
LEMMA HandleOfType ==
  ASSUME NEW t \in SupportedTypes
  PROVE  get_handle_from_type[t] \in Handles
BY DEF SupportedTypes, get_handle_from_type, Handles, MAX_NUM_SENSORS,
       ID_MAGNETIC_FIELD, ID_MAGNETIC_FIELD_UNCALIBRATED

\* The types that get_payload_len lets through are the ones that
\* get_handle_from_type knows: the two switches agree.
LEMMA PayloadMeansSupported ==
  ASSUME NEW t, get_payload_len(t) # 0
  PROVE  t \in SupportedTypes
BY DEF get_payload_len, SupportedTypes, get_handle_from_type

\* The data of a message goes to the slot of some handle.
LEMMA DataSlotIsHandle ==
  ASSUME NEW t \in SupportedTypes
  PROVE  DataSlot(t) \in Handles
BY HandleOfType DEF DataSlot, Handles, MAX_NUM_SENSORS, ID_MAGNETIC_FIELD

\* META_DATA and the placeholder are no sensor types.
LEMMA NoTypeIsMeta ==
  /\ META_DATA \notin SupportedTypes
  /\ PLACEHOLDER \notin SupportedTypes
  /\ META_DATA # PLACEHOLDER
BY DEF META_DATA, PLACEHOLDER, SupportedTypes, get_handle_from_type

\* Tail and Append, element by element.
LEMMA TailElements ==
  ASSUME NEW S, NEW q \in Seq(S), q # <<>>
  PROVE  /\ Head(q) \in S
         /\ Head(q) = q[1]
         /\ Len(q) \in Nat \ {0}
         /\ Tail(q) \in Seq(S)
         /\ Len(Tail(q)) = Len(q) - 1
         /\ \A i \in 1 .. Len(q) - 1 : Tail(q)[i] = q[i + 1]
BY HeadTailProperties, EmptySeq

\* Append keeps the elements and adds the new one at the end.
LEMMA AppendElements ==
  ASSUME NEW S, NEW q \in Seq(S), NEW e \in S
  PROVE  /\ Append(q, e) \in Seq(S)
         /\ Append(q, e) # <<>>
         /\ Len(Append(q, e)) = Len(q) + 1
         /\ \A i \in 1 .. Len(q) : Append(q, e)[i] = q[i]
         /\ Append(q, e)[Len(q) + 1] = e
BY AppendProperties

-----------------------------------------------------------------------------
\* Type correctness.

\* The constructor establishes the types.
LEMMA TypeInit == Init => TypeOK
<1> SUFFICES ASSUME Init PROVE TypeOK
  OBVIOUS
<1>1. NoMsg \in Messages
  BY DEF NoMsg, Messages, SupportedTypes, get_handle_from_type
<1>2. [i \in 1 .. MEM_POOL_SIZE |-> "buf"] \in Seq({"buf", "null"})
  BY DeviceAssumption
<1>3. <<>> \in Seq(Messages)
  BY EmptySeq
<1>4. [kind |-> "uninit", ref |-> 0] \in Content
  BY DEF Content
<1>5. slot_type \in [Handles -> SlotTypes] /\ slot_data \in [Handles -> Content]
  BY <1>4 DEF Init, SlotTypes
<1>6. /\ m_flush_count \in [Handles -> Nat] /\ src \in [Handles -> Nat]
      /\ flushes \in [Handles -> Nat] /\ completes \in [Handles -> Nat]
  BY DEF Init
<1>7. /\ m_msg_mem_pool \in Seq({"buf", "null"})
      /\ m_sensor_msg_queue \in Seq(Messages)
      /\ hand \in Messages /\ lmsg \in Messages
  BY <1>1, <1>2, <1>3 DEF Init
<1>8. /\ m_mutex \in {"free", "poll"} /\ poll_pc \in PollPCs
      /\ lis_pc \in LisPCs /\ m_pending_sensors \in SUBSET Handles
  BY DEF Init, PollPCs, LisPCs
<1>9. /\ count \in Nat /\ result \in Nat /\ clients \in Nat
      /\ rx \in Nat /\ lastId \in Nat /\ drops \in Nat
      /\ m_pclient_ \in BOOLEAN /\ crashed \in BOOLEAN
  BY DEF Init
<1> QED
  BY <1>5, <1>6, <1>7, <1>8, <1>9 DEF TypeOK

\* No step of any thread breaks the types.
LEMMA TypeStep == TypeOK /\ [Next]_vars => TypeOK'
<1> SUFFICES ASSUME TypeOK, [Next]_vars PROVE TypeOK'
  OBVIOUS
<1>0. NoMsg \in Messages
  BY DEF NoMsg, Messages, SupportedTypes, get_handle_from_type
<1> USE DEF TypeOK, pollVars, eventVars, bufferVars, lisVars, connVars, histVars,
            PollPCs, LisPCs
<1>1. ASSUME NEW n \in Counts, sensor_device_poll(n) PROVE TypeOK'
  BY <1>1, DeviceAssumption DEF sensor_device_poll
<1>2. CASE check_client
  BY <1>2 DEF check_client
<1>3. CASE relock_after_sleep
  BY <1>3 DEF relock_after_sleep
<1>4. CASE wait_for_message
  BY <1>4 DEF wait_for_message
<1>5. CASE spurious_wakeup
  BY <1>5 DEF spurious_wakeup
<1>6. CASE pop_message
  BY <1>6, TailElements DEF pop_message
<1>7. CASE pop_empty_queue
  BY <1>7 DEF pop_empty_queue
<1>8. CASE store_event
  <2>1. /\ hand.type \in SupportedTypes
        /\ hand.id \in Nat
        /\ PayloadOf(hand) \in Content
    BY DEF Messages, PayloadOf, Content
  <2>2. /\ get_handle_from_type[hand.type] \in Handles
        /\ DataSlot(hand.type) \in Handles
    BY <2>1, HandleOfType, DataSlotIsHandle
  <2>3. slot_type' \in [Handles -> SlotTypes] /\ slot_data' \in [Handles -> Content]
    BY <1>8, <2>1, <2>2 DEF store_event, SlotTypes
  <2>4. m_pending_sensors' \in SUBSET Handles
    BY <1>8, <2>2 DEF store_event, new_sensors
  <2> QED
    BY <1>0, <1>8, <2>1, <2>2, <2>3, <2>4 DEF store_event
<1>9. CASE return_buffer
  BY <1>9, AppendElements DEF return_buffer
<1>10. CASE sensor_device_pick_pending_event_locked
  <2>1. PICK i \in Handles : pick_meta_data(i) \/ pick_sensor_event(i)
    BY <1>10 DEF sensor_device_pick_pending_event_locked
  <2>a. /\ result' \in Nat
        /\ UNCHANGED <<m_mutex, poll_pc, count, hand, bufferVars, lisVars, connVars,
                       crashed, rx, src, flushes, drops>>
    BY <1>10 DEF sensor_device_pick_pending_event_locked
  <2>2. CASE pick_meta_data(i)
    <3>1. slot_type' \in [Handles -> SlotTypes] /\ slot_data' \in [Handles -> Content]
      BY <2>2 DEF pick_meta_data, SlotTypes, TypeAfterFlush
    <3>2. m_flush_count' \in [Handles -> Nat]
      <4>1. CASE m_flush_count[i] > 0
        <5>1. m_flush_count[i] - 1 \in Nat
          BY <4>1
        <5> QED
          BY <2>2, <4>1, <5>1 DEF pick_meta_data, flush_counted
      <4>2. CASE ~(m_flush_count[i] > 0)
        BY <2>2, <4>2 DEF pick_meta_data, flush_counted
      <4> QED
        BY <4>1, <4>2
    <3>3. completes' \in [Handles -> Nat] /\ lastId' \in Nat
      BY <2>2 DEF pick_meta_data
    <3>4. m_pending_sensors' \in SUBSET Handles
      BY <2>2 DEF pick_meta_data
    <3> QED
      BY <2>a, <3>1, <3>2, <3>3, <3>4
  <2>3. CASE pick_sensor_event(i)
    BY <2>a, <2>3 DEF pick_sensor_event
  <2> QED
    BY <2>1, <2>2, <2>3
<1>11. CASE poll_return
  BY <1>11 DEF poll_return
<1>12. ASSUME NEW h \in FlushHandles, sensor_device_flush(h) PROVE TypeOK'
  <2>1. h \in Handles
    BY DeviceAssumption
  <2>2. FlushMeta(h) \in Content
    BY <2>1 DEF FlushMeta, Content, Handles, MAX_NUM_SENSORS
  <2>3. slot_type' \in [Handles -> SlotTypes] /\ slot_data' \in [Handles -> Content]
    BY <1>12, <2>1, <2>2 DEF sensor_device_flush, SlotTypes
  <2>4. m_flush_count' \in [Handles -> Nat]
    <3>1. m_flush_count[h] + 1 \in Nat /\ 0 \in Nat
      BY <2>1
    <3>2. \/ m_flush_count' = [m_flush_count EXCEPT ![h] = @ + 1]
          \/ m_flush_count' = [m_flush_count EXCEPT ![h] = 0]
      BY <1>12 DEF sensor_device_flush, FirstFlushCount
    <3> QED
      BY <2>1, <3>1, <3>2
  <2> QED
    BY <1>12, <2>1, <2>3, <2>4 DEF sensor_device_flush
<1>13. CASE accept_client
  BY <1>13 DEF accept_client
<1>14. CASE client_connected_callback
  BY <1>14 DEF client_connected_callback
<1>15. CASE close_client
  BY <1>15 DEF close_client
<1>16. CASE choose_default
  BY <1>16 DEF choose_default
<1>17. ASSUME NEW t \in SentTypes, recv_header(t) PROVE TypeOK'
  <2>1. CASE get_payload_len(t) = 0
    BY <1>17, <2>1 DEF recv_header
  <2>2. CASE get_payload_len(t) # 0
    <3>1. t \in SupportedTypes /\ rx + 1 \in Nat
      BY <2>2, PayloadMeansSupported
    <3>2. lmsg' = [type |-> t, id |-> rx + 1, whole |-> TRUE]
      BY <1>17, <2>2 DEF recv_header
    <3>3. lmsg' \in Messages
      BY <3>1, <3>2 DEF Messages
    <3> QED
      BY <1>17, <2>2, <3>3 DEF recv_header
  <2> QED
    BY <2>1, <2>2
<1>18. CASE check_pool
  BY <1>18 DEF check_pool
<1>19. CASE create_buffer
  BY <1>19, AppendElements DEF create_buffer
<1>20. CASE take_buffer
  BY <1>20, TailElements DEF take_buffer
<1>21. CASE recv_payload
  BY <1>21 DEF recv_payload, Messages
<1>22. CASE recv_payload_failed
  BY <1>0, <1>22 DEF recv_payload_failed
<1>23. CASE post_message
  BY <1>0, <1>23, AppendElements DEF post_message, notify_all
<1>24. CASE post_message_dropping_oldest
  <2>1. m_sensor_msg_queue # <<>>
    BY <1>24, DeviceAssumption, EmptySeq DEF post_message_dropping_oldest
  <2>2. m_sensor_msg_queue' \in Seq(Messages)
    BY <1>24, <2>1, TailElements, AppendElements DEF post_message_dropping_oldest
  <2>3. /\ Append(m_msg_mem_pool, "buf") \in Seq({"buf", "null"})
        /\ Append(Append(m_msg_mem_pool, "buf"), "null") \in Seq({"buf", "null"})
    BY AppendElements
  <2>4. m_msg_mem_pool' \in Seq({"buf", "null"}) /\ poll_pc' \in PollPCs
    BY <1>24, <2>3 DEF post_message_dropping_oldest, notify_all
  <2> QED
    BY <1>0, <1>24, <2>2, <2>4 DEF post_message_dropping_oldest
<1>25. CASE UNCHANGED vars
  BY <1>25 DEF vars
<1> QED
  BY <1>1, <1>2, <1>3, <1>4, <1>5, <1>6, <1>7, <1>8, <1>9, <1>10, <1>11, <1>12,
     <1>13, <1>14, <1>15, <1>16, <1>17, <1>18, <1>19, <1>20, <1>21, <1>22, <1>23,
     <1>24, <1>25 DEF Next, PollThread, ListenerThread

\* Every reachable state of the device has the types the code declares.
THEOREM TypeCorrect == Spec => []TypeOK
BY TypeInit, TypeStep, PTL DEF Spec

-----------------------------------------------------------------------------
\* The mutex and the poll call.  Actions that leave the variables of these
\* invariants alone are in the last cases.

\* The poll thread holds m_mutex where it should, and a poll call that
\* reaches its loop has an event to report.
LEMMA PollStep == TypeOK /\ LockInv /\ PollInv /\ [Next]_vars => LockInv' /\ PollInv'
<1> SUFFICES ASSUME TypeOK, LockInv, PollInv, [Next]_vars PROVE LockInv' /\ PollInv'
  OBVIOUS
<1>0. count \in Nat /\ result \in Nat
  BY DEF TypeOK
<1> USE DEF LockInv, PollInv, pollVars, eventVars
<1>1. ASSUME NEW n \in Counts, sensor_device_poll(n) PROVE LockInv' /\ PollInv'
  BY <1>1, DeviceAssumption DEF sensor_device_poll, must_fetch
<1>2. CASE check_client
  BY <1>2 DEF check_client
<1>3. CASE relock_after_sleep
  BY <1>3 DEF relock_after_sleep
<1>4. CASE wait_for_message
  BY <1>4 DEF wait_for_message
<1>5. CASE spurious_wakeup
  BY <1>5 DEF spurious_wakeup
<1>6. CASE pop_message
  BY <1>6 DEF pop_message
<1>7. CASE pop_empty_queue
  BY <1>7 DEF pop_empty_queue
<1>8. CASE store_event
  BY <1>8 DEF store_event, new_sensors
<1>9. CASE return_buffer
  BY <1>9 DEF return_buffer
<1>10. CASE sensor_device_pick_pending_event_locked
  BY <1>0, <1>10 DEF sensor_device_pick_pending_event_locked
<1>11. CASE poll_return
  BY <1>11 DEF poll_return
<1>12. ASSUME NEW h \in FlushHandles, sensor_device_flush(h) PROVE LockInv' /\ PollInv'
  <2>1. m_pending_sensors \subseteq m_pending_sensors'
    BY <1>12 DEF sensor_device_flush
  <2> QED
    BY <1>12, <2>1 DEF sensor_device_flush
<1>13. CASE post_message
  BY <1>13 DEF post_message, notify_all
<1>14. CASE post_message_dropping_oldest
  BY <1>14 DEF post_message_dropping_oldest, notify_all
<1>15. ASSUME UNCHANGED <<pollVars, eventVars>> PROVE LockInv' /\ PollInv'
  BY <1>15
<1>16. ASSUME ListenerThread, ~post_message, ~post_message_dropping_oldest
       PROVE  UNCHANGED <<pollVars, eventVars>>
  BY <1>16 DEF ListenerThread, accept_client, client_connected_callback, close_client,
               choose_default, recv_header, check_pool, create_buffer, take_buffer,
               recv_payload, recv_payload_failed
<1>17. ASSUME UNCHANGED vars PROVE UNCHANGED <<pollVars, eventVars>>
  BY <1>17 DEF vars
<1> QED
  BY <1>1, <1>2, <1>3, <1>4, <1>5, <1>6, <1>7, <1>8, <1>9, <1>10, <1>11, <1>12,
     <1>13, <1>14, <1>15, <1>16, <1>17 DEF Next, PollThread

-----------------------------------------------------------------------------
\* Buffers: LiveBuffers grows only in create_buffer.

\* The buffers of the pool and the queue stay bounded, and the listener
\* never takes from an empty pool.
LEMMA PoolStep == TypeOK /\ PoolInv /\ [Next]_vars => PoolInv'
<1> SUFFICES ASSUME TypeOK, PoolInv, [Next]_vars PROVE PoolInv'
  OBVIOUS
<1>0. /\ m_sensor_msg_queue \in Seq(Messages) /\ lmsg \in Messages
      /\ m_msg_mem_pool \in Seq({"buf", "null"})
      /\ poll_pc \in PollPCs /\ lis_pc \in LisPCs
  BY DEF TypeOK
<1>a. /\ Len(m_sensor_msg_queue) \in Nat /\ Len(m_msg_mem_pool) \in Nat
      /\ m_msg_mem_pool = <<>> => Len(m_msg_mem_pool) = 0
      /\ MAX_MSG_QUEUE_SIZE \in Nat \ {0} /\ MEM_POOL_SIZE \in Nat
  BY <1>0, DeviceAssumption, EmptySeq, LenProperties
<1>b. /\ Append(m_msg_mem_pool, "buf") \in Seq({"buf", "null"})
      /\ Append(m_msg_mem_pool, "buf") # <<>>
      /\ Len(Append(m_msg_mem_pool, "buf")) = Len(m_msg_mem_pool) + 1
      /\ Len(Append(Append(m_msg_mem_pool, "buf"), "null")) = Len(m_msg_mem_pool) + 2
      /\ Append(Append(m_msg_mem_pool, "buf"), "null") # <<>>
  BY <1>0, <1>a, AppendElements
<1> USE DEF PoolInv, PoolNeverUnderflows, BufferBound, LiveBuffers,
            bufferVars, lisVars, pollVars
<1>1. CASE pop_message
  <2>1. Len(m_sensor_msg_queue') = Len(m_sensor_msg_queue) - 1
    BY <1>0, <1>1, TailElements DEF pop_message
  <2> QED
    BY <1>a, <1>1, <2>1 DEF pop_message
<1>2. CASE store_event
  BY <1>a, <1>2 DEF store_event
<1>3. CASE return_buffer
  BY <1>a, <1>b, <1>3 DEF return_buffer
<1>4. CASE check_pool
  BY <1>0, <1>a, <1>4 DEF check_pool, pool_empty
<1>5. CASE create_buffer
  BY <1>a, <1>b, <1>5 DEF create_buffer
<1>6. CASE take_buffer
  <2>1. CASE m_msg_mem_pool = <<>> \/ Head(m_msg_mem_pool) = "null"
    BY <1>6, <2>1 DEF take_buffer
  <2>2. CASE ~(m_msg_mem_pool = <<>> \/ Head(m_msg_mem_pool) = "null")
    <3>1. Len(m_msg_mem_pool') = Len(m_msg_mem_pool) - 1
      BY <1>0, <1>6, <2>2, TailElements DEF take_buffer
    <3> QED
      BY <1>a, <1>6, <2>2, <3>1 DEF take_buffer
  <2> QED
    BY <2>1, <2>2
<1>7. CASE recv_payload
  BY <1>a, <1>7 DEF recv_payload
<1>8. CASE recv_payload_failed
  BY <1>a, <1>8 DEF recv_payload_failed
<1>9. CASE post_message
  <2>1. Len(m_sensor_msg_queue') = Len(m_sensor_msg_queue) + 1
    BY <1>0, <1>9, AppendElements DEF post_message
  <2> QED
    BY <1>a, <1>9, <2>1 DEF post_message, notify_all
<1>10. CASE post_message_dropping_oldest
  <2>1. m_sensor_msg_queue # <<>>
    BY <1>0, <1>a, <1>10, EmptySeq DEF post_message_dropping_oldest
  <2>2. Len(m_sensor_msg_queue') = Len(m_sensor_msg_queue)
    BY <1>0, <1>a, <1>10, <2>1, TailElements, AppendElements DEF post_message_dropping_oldest
  <2>3. CASE poll_pc' = notify_all /\ m_msg_mem_pool' = Append(m_msg_mem_pool, "buf")
    <3>1. poll_pc' \in {"relock", "emplace"} <=> poll_pc \in {"relock", "emplace"}
      BY <2>3 DEF notify_all
    <3>2. lis_pc = "post" /\ lis_pc' = "idle"
      BY <1>10 DEF post_message_dropping_oldest
    <3>3. Len(m_msg_mem_pool') = Len(m_msg_mem_pool) + 1
      BY <1>b, <2>3
    <3>4. LiveBuffers' = LiveBuffers
      BY <1>a, <2>2, <3>1, <3>2, <3>3
    <3> QED
      BY <1>a, <2>2, <3>2, <3>4
  <2>4. CASE /\ poll_pc = "emplace" /\ poll_pc' = "pick"
             /\ \/ m_msg_mem_pool' = Append(m_msg_mem_pool, "buf")
                \/ m_msg_mem_pool' = Append(Append(m_msg_mem_pool, "buf"), "null")
    BY <1>a, <1>b, <1>10, <2>2, <2>4 DEF post_message_dropping_oldest
  <2> QED
    BY <1>10, <2>3, <2>4 DEF post_message_dropping_oldest
<1>11. CASE accept_client \/ client_connected_callback \/ close_client \/ choose_default
  BY <1>a, <1>11 DEF accept_client, client_connected_callback, close_client, choose_default
<1>12. ASSUME NEW t \in SentTypes, recv_header(t) PROVE PoolInv'
  BY <1>a, <1>12 DEF recv_header
<1>13. ASSUME NEW h \in FlushHandles, sensor_device_flush(h) PROVE PoolInv'
  BY <1>a, <1>13 DEF sensor_device_flush
<1>14. ASSUME PollThread, ~pop_message, ~store_event, ~return_buffer
       PROVE  /\ UNCHANGED <<bufferVars, lisVars>>
              /\ poll_pc \notin {"relock", "emplace"}
              /\ poll_pc' \notin {"relock", "emplace"}
  BY <1>14 DEF PollThread, sensor_device_poll, check_client, relock_after_sleep,
               wait_for_message, spurious_wakeup, pop_empty_queue, poll_return,
               sensor_device_pick_pending_event_locked
<1>15. CASE PollThread /\ ~pop_message /\ ~store_event /\ ~return_buffer
  BY <1>a, <1>14, <1>15
<1>16. CASE UNCHANGED vars
  BY <1>16 DEF vars
<1> QED
  BY <1>1, <1>2, <1>3, <1>4, <1>5, <1>6, <1>7, <1>8, <1>9, <1>10, <1>11, <1>12,
     <1>13, <1>15, <1>16 DEF Next, ListenerThread

-----------------------------------------------------------------------------
\* Flush-complete events.

\* Flush-complete events never outnumber the flush calls.
LEMMA FlushStep == TypeOK /\ NoSpuriousFlushComplete /\ [Next]_vars
                     => NoSpuriousFlushComplete'
<1> SUFFICES ASSUME TypeOK, NoSpuriousFlushComplete, [Next]_vars, NEW g \in Handles
             PROVE  (completes[g] + Outstanding(g) =< flushes[g])'
  BY DEF NoSpuriousFlushComplete
<1>0. /\ completes \in [Handles -> Nat] /\ flushes \in [Handles -> Nat]
      /\ m_flush_count \in [Handles -> Nat] /\ slot_type \in [Handles -> SlotTypes]
      /\ completes[g] + Outstanding(g) =< flushes[g]
  BY DEF TypeOK, NoSpuriousFlushComplete
<1> USE DEF Outstanding, eventVars, histVars
<1>1. CASE store_event
  <2>1. hand.type \in SupportedTypes
    BY DEF TypeOK, Messages
  <2> QED
    BY <1>0, <1>1, <2>1, HandleOfType, NoTypeIsMeta DEF store_event
<1>2. CASE sensor_device_pick_pending_event_locked
  <2>1. PICK i \in Handles : pick_meta_data(i) \/ pick_sensor_event(i)
    BY <1>2 DEF sensor_device_pick_pending_event_locked, TypeOK
  <2>2. flushes' = flushes
    BY <1>2 DEF sensor_device_pick_pending_event_locked
  <2>3. CASE pick_meta_data(i)
    <3>1. g # i => UNCHANGED <<completes[g], Outstanding(g)>>
      BY <1>0, <2>3 DEF pick_meta_data
    <3>2. g = i => completes'[g] = completes[g] + 1 /\ Outstanding(g)' = Outstanding(g) - 1
      BY <1>0, <2>3, NoTypeIsMeta DEF pick_meta_data, flush_counted, TypeAfterFlush
    <3> QED
      BY <1>0, <2>2, <3>1, <3>2
  <2>4. CASE pick_sensor_event(i)
    BY <1>0, <2>2, <2>4 DEF pick_sensor_event
  <2> QED
    BY <2>1, <2>3, <2>4
<1>3. ASSUME NEW h \in FlushHandles, sensor_device_flush(h)
      PROVE  (completes[g] + Outstanding(g) =< flushes[g])'
  <2>1. h \in Handles
    BY DeviceAssumption
  <2> QED
    BY <1>0, <1>3, <2>1 DEF sensor_device_flush, FirstFlushCount
<1>4. ASSUME UNCHANGED <<m_flush_count, slot_type, completes, flushes>>
      PROVE  (completes[g] + Outstanding(g) =< flushes[g])'
  BY <1>0, <1>4
<1>5. ASSUME PollThread, ~store_event, ~sensor_device_pick_pending_event_locked
      PROVE  UNCHANGED <<m_flush_count, slot_type, completes, flushes>>
  BY <1>5 DEF PollThread, sensor_device_poll, check_client, relock_after_sleep,
              wait_for_message, spurious_wakeup, pop_message, pop_empty_queue,
              return_buffer, poll_return
<1>6. ASSUME ListenerThread
      PROVE  UNCHANGED <<m_flush_count, slot_type, completes, flushes>>
  BY <1>6 DEF ListenerThread, accept_client, client_connected_callback, close_client,
              choose_default, recv_header, check_pool, create_buffer, take_buffer,
              recv_payload, recv_payload_failed, post_message, post_message_dropping_oldest
<1>7. ASSUME UNCHANGED vars
      PROVE  UNCHANGED <<m_flush_count, slot_type, completes, flushes>>
  BY <1>7 DEF vars
<1> QED
  BY <1>1, <1>2, <1>3, <1>4, <1>5, <1>6, <1>7 DEF Next

-----------------------------------------------------------------------------
\* The event slots.

\* What each step does to the set of unreported sensor events.
LEMMA StorePendingData ==
  ASSUME TypeOK, SlotInv, store_event
  PROVE  PendingData' = {get_handle_from_type[hand.type]}
<1>1. hand.type \in SupportedTypes /\ get_handle_from_type[hand.type] \in Handles
  BY HandleOfType DEF TypeOK, Messages
<1>2. PendingData = {}
  BY DEF SlotInv, OneUnreportedEvent, store_event
<1>3. slot_type \in [Handles -> SlotTypes] /\ m_pending_sensors \subseteq Handles
  BY DEF TypeOK
<1> QED
  BY <1>1, <1>2, <1>3, NoTypeIsMeta DEF store_event, new_sensors, PendingData

\* Reporting an event: it is no longer unreported.
LEMMA PickPendingData ==
  ASSUME TypeOK, SlotInv, NEW i \in m_pending_sensors
  PROVE  /\ pick_meta_data(i) => PendingData' = PendingData
         /\ pick_sensor_event(i) => PendingData = {i} /\ PendingData' = {}
<1>1. slot_type \in [Handles -> SlotTypes] /\ m_pending_sensors \subseteq Handles
  BY DEF TypeOK
<1>2. ASSUME pick_meta_data(i) PROVE PendingData' = PendingData
  BY <1>1, <1>2, NoTypeIsMeta DEF pick_meta_data, PendingData, TypeAfterFlush
<1>3. ASSUME pick_sensor_event(i) PROVE PendingData = {i} /\ PendingData' = {}
  <2>1. PendingData = {i}
    BY <1>3 DEF pick_sensor_event, SlotInv, OneUnreportedEvent, PendingData
  <2> QED
    BY <1>3, <2>1 DEF pick_sensor_event, PendingData
<1> QED
  BY <1>2, <1>3

\* A flush adds no unreported sensor event.
LEMMA FlushPendingData ==
  ASSUME TypeOK, NEW h \in FlushHandles, sensor_device_flush(h)
  PROVE  PendingData' \subseteq PendingData
<1>1. slot_type \in [Handles -> SlotTypes] /\ h \in Handles
  BY DeviceAssumption DEF TypeOK
<1>2. \A g \in m_pending_sensors' :
        slot_type'[g] # META_DATA => g \in m_pending_sensors /\ slot_type[g] # META_DATA
  <2>1. CASE h \in m_pending_sensors /\ slot_type[h] = META_DATA
    BY <2>1 DEF sensor_device_flush
  <2>2. CASE ~(h \in m_pending_sensors /\ slot_type[h] = META_DATA)
    <3>1. /\ slot_type' = [slot_type EXCEPT ![h] = META_DATA]
          /\ m_pending_sensors' = m_pending_sensors \cup {h}
      BY <2>2 DEF sensor_device_flush
    <3> QED
      BY <1>1, <3>1
  <2> QED
    BY <2>1, <2>2
<1> QED
  BY <1>2 DEF PendingData

\* The event slots keep what was put there for them.
LEMMA SlotStep == TypeOK /\ SlotInv /\ [Next]_vars => SlotInv'
<1> SUFFICES ASSUME TypeOK, SlotInv, [Next]_vars PROVE SlotInv'
  OBVIOUS
<1>0. /\ slot_type \in [Handles -> SlotTypes] /\ slot_data \in [Handles -> Content]
      /\ m_pending_sensors \subseteq Handles /\ src \in [Handles -> Nat]
  BY DEF TypeOK
<1> USE DEF eventVars, histVars
<1>1. CASE store_event
  <2> DEFINE h == get_handle_from_type[hand.type]
  <2>1. /\ hand.type \in SupportedTypes /\ h \in Handles
        /\ DataSlot(hand.type) \in Handles
    BY HandleOfType, DataSlotIsHandle DEF TypeOK, Messages
  <2>2. PendingData' = {h}
    BY <1>1, StorePendingData
  <2>3. PendingSlotsAreFilled'
    BY <1>0, <1>1, <2>1, NoTypeIsMeta
       DEF store_event, new_sensors, SlotInv, PendingSlotsAreFilled
  <2>4. OneUnreportedEvent'
    BY <1>1, <2>2 DEF store_event, OneUnreportedEvent
  <2>5. SlotIntegrity'
    <3> SUFFICES ASSUME NEW g \in m_pending_sensors'
                 PROVE  IF slot_type'[g] = META_DATA
                        THEN g # ID_MAGNETIC_FIELD => slot_data'[g] = FlushMeta(g)
                        ELSE g # ID_MAGNETIC_FIELD_UNCALIBRATED =>
                               /\ slot_data'[g].kind \in {"payload", "torn"}
                               /\ slot_data'[g].ref = src'[g]
      BY DEF SlotIntegrity, FlushMeta
    <3>1. CASE g = h
      <4>1. slot_type'[g] # META_DATA /\ src'[g] = hand.id
        BY <1>0, <1>1, <2>1, <3>1, NoTypeIsMeta DEF store_event
      <4>2. g # ID_MAGNETIC_FIELD_UNCALIBRATED => DataSlot(hand.type) = g
        BY <3>1 DEF DataSlot, get_handle_from_type, ID_MAGNETIC_FIELD_UNCALIBRATED
      <4>3. g # ID_MAGNETIC_FIELD_UNCALIBRATED => slot_data'[g] = PayloadOf(hand)
        BY <1>0, <1>1, <2>1, <3>1, <4>2 DEF store_event
      <4> QED
        BY <4>1, <4>3 DEF PayloadOf
    <3>2. CASE g # h
      <4>1. g \in m_pending_sensors /\ g \notin PendingData'
        BY <1>1, <2>2, <3>2 DEF store_event, new_sensors
      <4>2. slot_type'[g] = META_DATA /\ slot_type[g] = META_DATA
        BY <1>0, <1>1, <2>1, <3>2, <4>1 DEF store_event, PendingData
      <4>3. g # ID_MAGNETIC_FIELD => slot_data'[g] = slot_data[g]
        BY <1>0, <1>1, <2>1, <3>2 DEF store_event, DataSlot
      <4> QED
        BY <4>1, <4>2, <4>3 DEF SlotInv, SlotIntegrity
    <3> QED
      BY <3>1, <3>2
  <2> QED
    BY <2>3, <2>4, <2>5 DEF SlotInv
<1>2. CASE sensor_device_pick_pending_event_locked
  <2>1. PICK i \in m_pending_sensors : pick_meta_data(i) \/ pick_sensor_event(i)
    BY <1>2 DEF sensor_device_pick_pending_event_locked
  <2>2. i \in Handles /\ poll_pc' = poll_pc /\ src' = src /\ slot_data' = slot_data
    BY <1>0, <1>2, <2>1 DEF sensor_device_pick_pending_event_locked, pick_meta_data,
                            pick_sensor_event
  <2>3. PendingSlotsAreFilled'
    <3>1. CASE pick_meta_data(i)
      BY <1>0, <2>2, <3>1, NoTypeIsMeta
         DEF pick_meta_data, TypeAfterFlush, SlotInv, PendingSlotsAreFilled
    <3>2. CASE pick_sensor_event(i)
      BY <1>0, <2>2, <3>2 DEF pick_sensor_event, SlotInv, PendingSlotsAreFilled
    <3> QED
      BY <2>1, <3>1, <3>2
  <2>4. OneUnreportedEvent'
    BY <2>1, <2>2, PickPendingData DEF SlotInv, OneUnreportedEvent
  <2>5. \A g \in m_pending_sensors' : g \in m_pending_sensors /\ slot_type'[g] = slot_type[g]
    BY <1>0, <2>1 DEF pick_meta_data, pick_sensor_event
  <2>6. SlotIntegrity'
    BY <2>2, <2>5 DEF SlotInv, SlotIntegrity, FlushMeta
  <2> QED
    BY <2>3, <2>4, <2>6 DEF SlotInv
<1>3. ASSUME NEW h \in FlushHandles, sensor_device_flush(h) PROVE SlotInv'
  <2>1. h \in Handles /\ UNCHANGED <<poll_pc, src>>
    BY <1>3, DeviceAssumption DEF sensor_device_flush, pollVars
  <2>2. PendingSlotsAreFilled'
    BY <1>0, <1>3, <2>1, NoTypeIsMeta DEF sensor_device_flush, SlotInv, PendingSlotsAreFilled
  <2>3. OneUnreportedEvent'
    BY <1>3, <2>1, FlushPendingData DEF SlotInv, OneUnreportedEvent
  <2>4. SlotIntegrity'
    BY <1>0, <1>3, <2>1 DEF sensor_device_flush, SlotInv, SlotIntegrity, FlushMeta
  <2> QED
    BY <2>2, <2>3, <2>4 DEF SlotInv
<1>4. ASSUME UNCHANGED <<eventVars, src>>,
             PendingData # {} => poll_pc' \in {"idle", "emplace", "pick"}
      PROVE  SlotInv'
  <2>1. PendingSlotsAreFilled'
    BY <1>4 DEF SlotInv, PendingSlotsAreFilled
  <2>2. PendingData' = PendingData
    BY <1>4 DEF PendingData
  <2>3. OneUnreportedEvent'
    BY <1>4, <2>2 DEF SlotInv, OneUnreportedEvent
  <2>4. SlotIntegrity'
    BY <1>4 DEF SlotInv, SlotIntegrity, FlushMeta
  <2> QED
    BY <2>1, <2>3, <2>4 DEF SlotInv
<1>5. CASE PollThread /\ ~store_event /\ ~sensor_device_pick_pending_event_locked
  <2>1. /\ UNCHANGED <<eventVars, src>>
        /\ PendingData # {} => poll_pc' \in {"idle", "emplace", "pick"}
    BY <1>5 DEF PollThread, sensor_device_poll, check_client, relock_after_sleep,
                wait_for_message, spurious_wakeup, pop_message, pop_empty_queue,
                return_buffer, poll_return, must_fetch, SlotInv, OneUnreportedEvent,
                PendingData, pollVars
  <2> QED
    BY <1>4, <2>1
<1>6. CASE ListenerThread
  <2>1. /\ UNCHANGED <<eventVars, src>>
        /\ PendingData # {} => poll_pc' \in {"idle", "emplace", "pick"}
    BY <1>6 DEF ListenerThread, accept_client, client_connected_callback, close_client,
                choose_default, recv_header, check_pool, create_buffer, take_buffer,
                recv_payload, recv_payload_failed, post_message,
                post_message_dropping_oldest, notify_all, SlotInv, OneUnreportedEvent,
                pollVars
  <2> QED
    BY <1>4, <2>1
<1>7. CASE UNCHANGED vars
  BY <1>4, <1>7 DEF vars, pollVars, SlotInv, OneUnreportedEvent
<1> QED
  BY <1>1, <1>2, <1>3, <1>5, <1>6, <1>7 DEF Next

-----------------------------------------------------------------------------
\* The order of messages.

\* A step that takes no message from one place to the next.
LEMMA OrderKept ==
  ASSUME TypeOK, OrderInv,
         UNCHANGED <<m_sensor_msg_queue, lastId, src>>,
         PendingData' \subseteq PendingData,
         poll_pc' = "relock" => poll_pc = "relock" /\ hand' = hand,
         Posted' \in Nat, Posted =< Posted',
         Receiving' => lmsg'.id = rx' /\ rx' > 0
  PROVE  OrderInv'
<1>1. Posted \in Int /\ lastId \in Nat /\ rx \in Nat
  BY DEF Posted, TypeOK
<1>2. \A h \in PendingData : src[h] \in Nat
  BY DEF PendingData, TypeOK
<1>3. (lastId =< Posted)'
  BY <1>1 DEF OrderInv
<1>4. \A i \in 1 .. Len(m_sensor_msg_queue) :
        m_sensor_msg_queue[i].id \in lastId + 1 .. Posted'
  BY <1>1 DEF OrderInv
<1>5. poll_pc' = "relock" => hand'.id \in lastId + 1 .. Posted'
  BY <1>1 DEF OrderInv
<1>6. \A h \in PendingData' : src[h] \in lastId + 1 .. Posted'
  BY <1>1 DEF OrderInv
<1> QED
  BY <1>3, <1>4, <1>5, <1>6 DEF OrderInv

\* Messages keep their order on the way from the socket to the framework.
LEMMA OrderStep == TypeOK /\ SlotInv /\ OrderInv /\ [Next]_vars => OrderInv'
<1> SUFFICES ASSUME TypeOK, SlotInv, OrderInv, [Next]_vars PROVE OrderInv'
  OBVIOUS
<1> DEFINE q == m_sensor_msg_queue
<1>0. /\ q \in Seq(Messages) /\ Len(q) \in Nat /\ hand \in Messages /\ lmsg \in Messages
      /\ lastId \in Nat /\ rx \in Nat /\ src \in [Handles -> Nat]
      /\ Posted \in Nat
      /\ lis_pc \in LisPCs /\ poll_pc \in PollPCs
  BY LenProperties DEF TypeOK, OrderInv, Posted, Receiving
<1>1. CASE pop_message
  <2>1. /\ q # <<>> /\ hand' = Head(q) /\ q' = Tail(q) /\ poll_pc' = "relock"
        /\ UNCHANGED <<lastId, src, rx, lis_pc, lmsg>>
        /\ PendingData' = PendingData
    BY <1>1 DEF pop_message, eventVars, lisVars, histVars, PendingData
  <2>2. /\ Head(q) = q[1] /\ Len(q) \in Nat \ {0} /\ Len(q') = Len(q) - 1
        /\ \A i \in 1 .. Len(q) - 1 : q'[i] = q[i + 1]
    BY <1>0, <2>1, TailElements
  <2>3. PendingData = {}
    BY <1>1 DEF pop_message, SlotInv, OneUnreportedEvent
  <2>4. Posted' = Posted /\ (Receiving' <=> Receiving)
    BY <2>1 DEF Posted, Receiving
  <2> QED
    BY <1>0, <2>1, <2>2, <2>3, <2>4 DEF OrderInv
<1>2. CASE store_event
  <2> DEFINE h == get_handle_from_type[hand.type]
  <2>1. PendingData' = {h}
    BY <1>2, StorePendingData
  <2>2. h \in Handles
    BY <1>0, HandleOfType DEF Messages
  <2>3. src'[h] = hand.id
    BY <1>0, <1>2, <2>2 DEF store_event
  <2>4. /\ poll_pc = "relock" /\ poll_pc' = "emplace"
        /\ UNCHANGED <<q, lastId, rx, lis_pc, lmsg>>
    BY <1>2 DEF store_event, bufferVars, lisVars
  <2>5. Posted' = Posted /\ (Receiving' <=> Receiving)
    BY <2>4 DEF Posted, Receiving
  <2> QED
    BY <2>1, <2>3, <2>4, <2>5 DEF OrderInv
<1>3. CASE sensor_device_pick_pending_event_locked
  <2>1. PICK i \in m_pending_sensors : pick_meta_data(i) \/ pick_sensor_event(i)
    BY <1>3 DEF sensor_device_pick_pending_event_locked
  <2>2. UNCHANGED <<q, src, rx, lis_pc, lmsg, poll_pc, hand>>
    BY <1>3 DEF sensor_device_pick_pending_event_locked, bufferVars, lisVars
  <2>3. Posted' = Posted /\ (Receiving' <=> Receiving)
    BY <2>2 DEF Posted, Receiving
  <2>4. CASE pick_meta_data(i)
    <3>1. PendingData' = PendingData /\ lastId' = lastId
      BY <2>4, PickPendingData DEF pick_meta_data
    <3> QED
      BY <2>2, <2>3, <3>1 DEF OrderInv
  <2>5. CASE pick_sensor_event(i)
    <3>1. PendingData = {i} /\ PendingData' = {} /\ lastId' = src[i] /\ src[i] \in Nat
      BY <1>0, <2>5, PickPendingData DEF pick_sensor_event, TypeOK
    <3>2. poll_pc' # "relock"
      BY <1>3, <2>2 DEF sensor_device_pick_pending_event_locked
    <3>3. \A j \in 1 .. Len(q) : q[j].id \in src[i] + 1 .. Posted
      BY <1>0, <3>1 DEF OrderInv
    <3>4. src[i] =< Posted
      BY <1>0, <3>1 DEF OrderInv
    <3> QED
      BY <2>2, <2>3, <3>1, <3>2, <3>3, <3>4 DEF OrderInv
  <2> QED
    BY <2>1, <2>4, <2>5
<1>4. ASSUME lis_pc = "post", poll_pc' # "relock" \/ poll_pc' = poll_pc,
             UNCHANGED <<eventVars, hand, lastId, src, rx>>, lis_pc' = "idle",
             NEW p \in Seq(Messages), Len(p) =< Len(q),
             NEW d \in 0 .. 1, Len(p) = Len(q) - d,
             \A i \in 1 .. Len(p) : p[i] = q[i + d], q' = Append(p, lmsg)
      PROVE  OrderInv'
  <2>1. /\ Posted' = rx /\ Posted = rx - 1 /\ lmsg.id = rx
        /\ ~Receiving' /\ PendingData' = PendingData
    BY <1>4 DEF Posted, Receiving, OrderInv, PendingData, eventVars
  <2>2. /\ Len(p) \in Nat /\ Len(q') = Len(p) + 1 /\ q'[Len(p) + 1] = lmsg
        /\ \A i \in 1 .. Len(p) : q'[i] = p[i]
    BY <1>0, <1>4, AppendElements, LenProperties
  <2>3. \A i \in 1 .. Len(q') : i = Len(q') \/ (i \in 1 .. Len(p) /\ i + d \in 1 .. Len(q)
                                               /\ q'[i] = q[i + d])
    BY <1>0, <1>4, <2>2
  <2>4. \A i \in 1 .. Len(q') : q'[i].id \in lastId + 1 .. rx
    BY <1>0, <2>1, <2>2, <2>3 DEF OrderInv
  <2>a. Len(q') \in Nat /\ q'[Len(q')].id = rx
    BY <2>1, <2>2
  <2>5. ASSUME NEW i \in 1 .. Len(q'), NEW j \in 1 .. Len(q'), i < j
        PROVE  q'[i].id < q'[j].id
    <3>1. i + d \in 1 .. Len(q) /\ q'[i] = q[i + d]
      BY <2>a, <2>3, <2>5
    <3>2. CASE j = Len(q')
      BY <1>0, <2>1, <2>a, <3>1, <3>2 DEF OrderInv
    <3>3. CASE j # Len(q')
      <4>1. j + d \in 1 .. Len(q) /\ q'[j] = q[j + d] /\ i + d < j + d
        BY <2>3, <2>5, <3>3
      <4> QED
        BY <3>1, <4>1 DEF OrderInv
    <3> QED
      BY <3>2, <3>3
  <2>b. ASSUME NEW k \in Nat, k =< Posted, \A i \in 1 .. Len(q) : k < q[i].id
        PROVE  \A i \in 1 .. Len(q') : k < q'[i].id
    <3> SUFFICES ASSUME NEW i \in 1 .. Len(q') PROVE k < q'[i].id
      OBVIOUS
    <3>1. CASE i = Len(q')
      BY <1>0, <2>1, <2>a, <2>b, <3>1
    <3>2. CASE i # Len(q')
      BY <2>3, <2>b, <3>2
    <3> QED
      BY <3>1, <3>2
  <2>6. poll_pc' = "relock" => /\ hand.id \in lastId + 1 .. rx
                               /\ \A i \in 1 .. Len(q') : hand.id < q'[i].id
    <3> SUFFICES ASSUME poll_pc = "relock"
                 PROVE  /\ hand.id \in lastId + 1 .. rx
                        /\ \A i \in 1 .. Len(q') : hand.id < q'[i].id
      BY <1>4
    <3>1. /\ hand.id \in lastId + 1 .. Posted /\ hand.id \in Nat
          /\ \A i \in 1 .. Len(q) : hand.id < q[i].id
      BY <1>0 DEF OrderInv, Messages
    <3>2. hand.id \in lastId + 1 .. rx /\ hand.id =< Posted
      BY <1>0, <2>1, <3>1
    <3> QED
      BY <2>b, <3>1, <3>2
  <2>7. ASSUME NEW h \in PendingData
        PROVE  /\ src[h] \in lastId + 1 .. rx
               /\ \A i \in 1 .. Len(q') : src[h] < q'[i].id
    <3>1. /\ src[h] \in lastId + 1 .. Posted /\ src[h] \in Nat
          /\ \A i \in 1 .. Len(q) : src[h] < q[i].id
      BY <1>0 DEF OrderInv
    <3>2. src[h] \in lastId + 1 .. rx /\ src[h] =< Posted
      BY <1>0, <2>1, <3>1
    <3> QED
      BY <2>b, <3>1, <3>2
  <2> QED
    BY <1>0, <1>4, <2>1, <2>4, <2>5, <2>6, <2>7 DEF OrderInv
<1>5. CASE post_message
  <2>1. \A i \in 1 .. Len(q) : q[i] = q[i + 0]
    BY <1>0
  <2> QED
    BY <1>0, <1>4, <1>5, <2>1 DEF post_message, notify_all, histVars
<1>6. CASE post_message_dropping_oldest
  <2>1. q # <<>>
    BY <1>0, <1>6, DeviceAssumption, EmptySeq DEF post_message_dropping_oldest
  <2>2. /\ Tail(q) \in Seq(Messages) /\ Len(Tail(q)) = Len(q) - 1
        /\ \A i \in 1 .. Len(Tail(q)) : Tail(q)[i] = q[i + 1]
    BY <1>0, <2>1, TailElements
  <2>3. Len(Tail(q)) =< Len(q)
    BY <1>0, <2>2
  <2>4. /\ lis_pc = "post" /\ lis_pc' = "idle" /\ q' = Append(Tail(q), lmsg)
        /\ poll_pc' # "relock" \/ poll_pc' = poll_pc
        /\ UNCHANGED <<eventVars, hand, lastId, src, rx>>
    BY <1>6 DEF post_message_dropping_oldest, notify_all
  <2>5. 1 \in 0 .. 1
    OBVIOUS
  <2> QED
    BY <1>4, <2>2, <2>3, <2>4, <2>5, Zenon
<1>7. ASSUME NEW h \in FlushHandles, sensor_device_flush(h) PROVE OrderInv'
  <2>1. PendingData' \subseteq PendingData
    BY <1>7, FlushPendingData
  <2>2. UNCHANGED <<q, lastId, src, rx, lis_pc, lmsg, poll_pc, hand>>
    BY <1>7 DEF sensor_device_flush, bufferVars, lisVars, pollVars
  <2>3. Posted' = Posted /\ (Receiving' <=> Receiving)
    BY <2>2 DEF Posted, Receiving
  <2> QED
    BY <2>1, <2>2, <2>3 DEF OrderInv
<1>8. CASE /\ PollThread /\ ~pop_message /\ ~store_event
           /\ ~sensor_device_pick_pending_event_locked
  <2>1. /\ UNCHANGED <<q, lastId, src, rx, lis_pc, lmsg, hand>>
        /\ UNCHANGED eventVars
        /\ poll_pc' = "relock" => poll_pc = "relock"
    BY <1>8 DEF PollThread, sensor_device_poll, check_client, relock_after_sleep,
                wait_for_message, spurious_wakeup, pop_empty_queue, return_buffer,
                poll_return, bufferVars, lisVars, histVars, pollVars
  <2>2. Posted' = Posted /\ (Receiving' <=> Receiving) /\ PendingData' = PendingData
    BY <2>1 DEF Posted, Receiving, PendingData, eventVars
  <2> QED
    BY <2>1, <2>2 DEF OrderInv
<1>9. CASE ListenerThread /\ ~post_message /\ ~post_message_dropping_oldest
  <2>1. UNCHANGED <<q, lastId, src, pollVars, eventVars>>
    BY <1>9 DEF ListenerThread, accept_client, client_connected_callback, close_client,
                choose_default, recv_header, check_pool, create_buffer, take_buffer,
                recv_payload, recv_payload_failed, bufferVars, histVars
  <2>2. PendingData' = PendingData
    BY <2>1 DEF PendingData, eventVars
  <2>3. CASE \E t \in SentTypes : recv_header(t)
    <3>1. /\ Posted' \in Nat /\ Posted =< Posted'
          /\ Receiving' => lmsg'.id = rx' /\ rx' > 0
      BY <1>0, <2>3 DEF recv_header, Posted, Receiving, lisVars
    <3> QED
      BY <2>1, <2>2, <3>1, OrderKept DEF pollVars
  <2>4. CASE recv_payload \/ recv_payload_failed
    <3>1. /\ Posted' \in Nat /\ Posted =< Posted'
          /\ Receiving' => lmsg'.id = rx' /\ rx' > 0
      BY <1>0, <2>4 DEF recv_payload, recv_payload_failed, Posted, Receiving, histVars,
                        OrderInv, NoMsg
    <3> QED
      BY <2>1, <2>2, <3>1, OrderKept DEF pollVars
  <2>5. CASE check_pool \/ create_buffer \/ take_buffer \/ accept_client
             \/ client_connected_callback \/ close_client \/ choose_default
    <3>1. UNCHANGED <<rx, lmsg>> /\ (Receiving' <=> Receiving)
      BY <2>5 DEF check_pool, create_buffer, take_buffer, accept_client, close_client,
                  client_connected_callback, choose_default, Receiving, lisVars, histVars
    <3>2. Posted' = Posted
      BY <3>1 DEF Posted
    <3> QED
      BY <1>0, <2>1, <2>2, <3>1, <3>2, OrderKept DEF pollVars, OrderInv
  <2> QED
    BY <1>9, <2>3, <2>4, <2>5 DEF ListenerThread
<1>10. CASE UNCHANGED vars
  <2>1. /\ UNCHANGED <<q, lastId, src, rx, lis_pc, lmsg, hand, poll_pc>>
        /\ PendingData' = PendingData
    BY <1>10 DEF vars, bufferVars, lisVars, histVars, pollVars, eventVars, PendingData
  <2>2. Posted' = Posted /\ (Receiving' <=> Receiving)
    BY <2>1 DEF Posted, Receiving
  <2> QED
    BY <2>1, <2>2 DEF OrderInv
<1> QED
  BY <1>1, <1>2, <1>3, <1>5, <1>6, <1>7, <1>8, <1>9, <1>10 DEF Next

-----------------------------------------------------------------------------
\* Undefined behaviour.

\* Only a spurious wakeup or an overflow of the queue leads to undefined
\* behaviour.
LEMMA CrashStep == TypeOK /\ PoolInv /\ CrashInv /\ [Next]_vars => CrashInv'
<1> SUFFICES ASSUME TypeOK, PoolInv, CrashInv, [Next]_vars PROVE CrashInv'
  OBVIOUS
<1> DEFINE pool == m_msg_mem_pool
           q == m_sensor_msg_queue
<1>0. /\ q \in Seq(Messages) /\ lmsg \in Messages /\ drops \in Nat
      /\ pool \in Seq({"buf", "null"}) /\ Len(pool) \in Nat
      /\ SpuriousWakeups \in BOOLEAN
  BY LenProperties, DeviceAssumption DEF TypeOK
<1>a. \A i \in 1 .. Len(Append(pool, "buf")) : Append(pool, "buf")[i] = "null" => drops > 0
  BY <1>0, AppendElements DEF CrashInv
<1> USE DEF CrashInv, CrashNeedsOverflow, bufferVars, histVars, pollVars, lisVars
<1>1. CASE pop_message
  BY <1>1 DEF pop_message
<1>2. CASE pop_empty_queue
  BY <1>2 DEF pop_empty_queue
<1>3. CASE return_buffer
  BY <1>a, <1>3 DEF return_buffer
<1>4. CASE create_buffer
  BY <1>a, <1>4 DEF create_buffer
<1>5. CASE take_buffer
  <2>1. pool # <<>> /\ 1 \in 1 .. Len(pool) /\ Head(pool) = pool[1]
    BY <1>0, <1>5, TailElements DEF take_buffer, PoolInv, PoolNeverUnderflows
  <2>2. CASE Head(pool) = "null"
    BY <1>5, <2>1, <2>2 DEF take_buffer
  <2>3. CASE Head(pool) # "null"
    <3>1. \A i \in 1 .. Len(Tail(pool)) : Tail(pool)[i] = "null" => drops > 0
      BY <1>0, <2>1, TailElements
    <3> QED
      BY <1>5, <2>1, <2>3, <3>1 DEF take_buffer
  <2> QED
    BY <2>2, <2>3
<1>6. CASE post_message
  <2>1. q' # <<>>
    BY <1>0, <1>6, AppendElements DEF post_message
  <2> QED
    BY <1>6, <2>1 DEF post_message
<1>7. CASE post_message_dropping_oldest
  <2>1. q # <<>>
    BY <1>0, <1>7, DeviceAssumption, EmptySeq DEF post_message_dropping_oldest
  <2>2. q' # <<>>
    BY <1>0, <1>7, <2>1, TailElements, AppendElements DEF post_message_dropping_oldest
  <2>3. drops' > 0 /\ crashed' = crashed
    BY <1>0, <1>7 DEF post_message_dropping_oldest
  <2> QED
    BY <2>2, <2>3
<1>8. ASSUME UNCHANGED <<q, pool, crashed, drops>>,
             poll_pc' = "woken" => poll_pc = "woken" \/ SpuriousWakeups
      PROVE  CrashInv'
  BY <1>8
<1>9. CASE PollThread /\ ~pop_message /\ ~pop_empty_queue /\ ~return_buffer
  <2>1. /\ UNCHANGED <<q, pool, crashed, drops>>
        /\ poll_pc' = "woken" => poll_pc = "woken" \/ SpuriousWakeups
    BY <1>9 DEF PollThread, sensor_device_poll, check_client, relock_after_sleep,
                wait_for_message, spurious_wakeup, store_event, poll_return,
                sensor_device_pick_pending_event_locked
  <2> QED
    BY <1>8, <2>1
<1>10. CASE /\ ListenerThread /\ ~create_buffer /\ ~take_buffer /\ ~post_message
            /\ ~post_message_dropping_oldest
  <2>1. UNCHANGED <<q, pool, crashed, drops, poll_pc>>
    BY <1>10 DEF ListenerThread, accept_client, client_connected_callback, close_client,
                 choose_default, recv_header, check_pool, recv_payload, recv_payload_failed
  <2> QED
    BY <1>8, <2>1
<1>11. ASSUME NEW h \in FlushHandles, sensor_device_flush(h) PROVE CrashInv'
  BY <1>11 DEF sensor_device_flush
<1>12. CASE UNCHANGED vars
  BY <1>8, <1>12 DEF vars
<1> QED
  BY <1>1, <1>2, <1>3, <1>4, <1>5, <1>6, <1>7, <1>9, <1>10, <1>11, <1>12 DEF Next

-----------------------------------------------------------------------------
\* The invariant, and what follows from it.

\* The constructor establishes the inductive invariant.
LEMMA IInvInit == Init => IInv
<1> SUFFICES ASSUME Init PROVE IInv
  OBVIOUS
<1>1. TypeOK
  BY TypeInit
<1>2. m_msg_mem_pool \in Seq({"buf", "null"}) /\ Len(m_msg_mem_pool) = MEM_POOL_SIZE
  BY <1>1, DeviceAssumption DEF Init, TypeOK
<1>3. LockInv /\ PollInv
  BY DEF Init, LockInv, PollInv
<1>4. PoolInv
  BY <1>2, DeviceAssumption, EmptySeq
     DEF Init, PoolInv, PoolNeverUnderflows, BufferBound, LiveBuffers
<1>5. PendingData = {}
  BY DEF Init, PendingData
<1>6. SlotInv
  BY <1>5, NoTypeIsMeta
     DEF Init, SlotInv, PendingSlotsAreFilled, OneUnreportedEvent, SlotIntegrity
<1>7. OrderInv
  BY <1>5 DEF Init, OrderInv, Posted, Receiving
<1>8. NoSpuriousFlushComplete
  BY NoTypeIsMeta DEF Init, NoSpuriousFlushComplete, Outstanding
<1>9. CrashInv
  BY <1>2 DEF Init, CrashInv, CrashNeedsOverflow
<1> QED
  BY <1>1, <1>3, <1>4, <1>6, <1>7, <1>8, <1>9 DEF IInv

\* Every step preserves the inductive invariant.
LEMMA IInvStep == IInv /\ [Next]_vars => IInv'
BY TypeStep, PollStep, PoolStep, SlotStep, OrderStep, FlushStep, CrashStep DEF IInv

\* IInv is an invariant of the device.
THEOREM DeviceInvariant == Spec => []IInv
BY IInvInit, IInvStep, PTL DEF Spec

\* Sensor events are reported in arrival order and none twice, whatever the
\* poll thread, flush calls and queue overflows do in between.
THEOREM InOrder == Spec => []ReportedInOrder
<1>1. IInv => ReportedInOrder
  <2> SUFFICES ASSUME IInv PROVE ReportedInOrder
    OBVIOUS
  <2>1. OrderInv /\ lastId \in Nat
    BY DEF IInv, TypeOK
  <2> QED
    BY <2>1 DEF OrderInv, ReportedInOrder
<1> QED
  BY <1>1, DeviceInvariant, PTL

\* A pending slot holds what was put there for it, by a message or by a flush.
THEOREM SlotsIntact == Spec => []SlotIntegrity
<1>1. IInv => SlotIntegrity
  BY DEF IInv, SlotInv
<1> QED
  BY <1>1, DeviceInvariant, PTL

\* The framework never sees the placeholder type of a slot that nothing was
\* put in, and an unanswered flush stays pending.
THEOREM PendingSlotsFilled == Spec => []PendingSlotsAreFilled
<1>1. IInv => PendingSlotsAreFilled
  BY DEF IInv, SlotInv
<1> QED
  BY <1>1, DeviceInvariant, PTL

\* At most one slot holds an unreported sensor event: poll fetches a message
\* only when nothing is pending.
THEOREM OneEventAtATime == Spec => []OneUnreportedEvent
<1>1. IInv => OneUnreportedEvent
  BY DEF IInv, SlotInv
<1> QED
  BY <1>1, DeviceInvariant, PTL

\* The number of buffers stays bounded, although the pool is tested without
\* its lock and filled on overflow.
THEOREM BuffersBounded == Spec => []BufferBound
<1>1. IInv => BufferBound
  BY DEF IInv, PoolInv
<1> QED
  BY <1>1, DeviceInvariant, PTL

\* The listener never takes a buffer from an empty pool.
THEOREM PoolIsNeverEmpty == Spec => []PoolNeverUnderflows
<1>1. IInv => PoolNeverUnderflows
  BY DEF IInv, PoolInv
<1> QED
  BY <1>1, DeviceInvariant, PTL

\* Every flush-complete event answers a flush call.
THEOREM FlushCompletesAreReal == Spec => []NoSpuriousFlushComplete
<1>1. IInv => NoSpuriousFlushComplete
  BY DEF IInv
<1> QED
  BY <1>1, DeviceInvariant, PTL

\* Without spurious wakeups, only a queue overflow leads to undefined
\* behaviour.
THEOREM CrashesExplained == Spec => []CrashNeedsOverflow
<1>1. IInv => CrashNeedsOverflow
  BY DEF IInv, CrashInv
<1> QED
  BY <1>1, DeviceInvariant, PTL

\* poll returns at least one and at most count events.
THEOREM PollNeverReturnsZero == Spec => PollReturnsEvents
<1>1. IInv /\ [Next]_vars => [poll_pc = "pick" /\ poll_pc' = "idle" => result \in 1 .. count]_vars
  <2> SUFFICES ASSUME IInv, Next, poll_pc = "pick", poll_pc' = "idle"
               PROVE  result \in 1 .. count
    BY DEF vars
  <2>1. poll_return
    BY DEF Next, PollThread, ListenerThread, sensor_device_poll, check_client,
           relock_after_sleep, wait_for_message, spurious_wakeup, pop_message,
           pop_empty_queue, store_event, return_buffer,
           sensor_device_pick_pending_event_locked, sensor_device_flush, accept_client,
           client_connected_callback, close_client, choose_default, recv_header,
           check_pool, create_buffer, take_buffer, recv_payload, recv_payload_failed,
           post_message, post_message_dropping_oldest, notify_all, pollVars
  <2>2. PollInv /\ count \in Nat /\ result \in Nat
    BY DEF IInv, TypeOK
  <2> QED
    BY <2>1, <2>2 DEF poll_return, PollInv
<1> QED
  BY <1>1, DeviceInvariant, PTL DEF Spec, PollReturnsEvents

\* A flush is lost only when a message of the same sensor overwrites its
\* slot: neither another flush nor a report drops one.
THEOREM FlushesSurvive == Spec => FlushLostOnlyByStore
<1> DEFINE Kept(h) ==
      completes'[h] + Outstanding(h)' < completes[h] + Outstanding(h) =>
        /\ poll_pc = "relock" /\ poll_pc' = "emplace"
        /\ get_handle_from_type[hand.type] = h
<1>1. IInv /\ [Next]_vars => [\A h \in Handles : Kept(h)]_vars
  <2> SUFFICES ASSUME IInv, Next, NEW g \in Handles PROVE Kept(g)
    OBVIOUS
  <2>0. /\ completes \in [Handles -> Nat] /\ m_flush_count \in [Handles -> Nat]
        /\ slot_type \in [Handles -> SlotTypes] /\ hand.type \in SupportedTypes
        /\ m_pending_sensors \subseteq Handles /\ PendingSlotsAreFilled
    BY DEF IInv, TypeOK, SlotInv, Messages
  <2>1. CASE store_event
    BY <2>0, <2>1, HandleOfType DEF store_event, Outstanding
  <2>2. CASE sensor_device_pick_pending_event_locked
    <3>1. PICK i \in Handles : pick_meta_data(i) \/ pick_sensor_event(i)
      BY <2>0, <2>2 DEF sensor_device_pick_pending_event_locked
    <3>2. CASE pick_meta_data(i)
      <4>1. g # i => UNCHANGED <<completes[g], Outstanding(g)>>
        BY <2>0, <3>2 DEF pick_meta_data, Outstanding
      <4>2. g = i => /\ completes'[g] = completes[g] + 1
                     /\ Outstanding(g)' = Outstanding(g) - 1
        BY <2>0, <3>2, NoTypeIsMeta
           DEF pick_meta_data, flush_counted, TypeAfterFlush, Outstanding
      <4>3. completes[g] \in Nat /\ Outstanding(g) \in Nat
        BY <2>0 DEF Outstanding
      <4> QED
        BY <4>1, <4>2, <4>3
    <3>3. CASE pick_sensor_event(i)
      BY <2>0, <3>3 DEF pick_sensor_event, Outstanding
    <3> QED
      BY <3>1, <3>2, <3>3
  <2>3. ASSUME NEW h \in FlushHandles, sensor_device_flush(h) PROVE Kept(g)
    <3>1. h \in Handles
      BY DeviceAssumption
    <3>2. completes' = completes /\ (Outstanding(g)' >= Outstanding(g))
      BY <2>0, <2>3, <3>1 DEF sensor_device_flush, Outstanding, PendingSlotsAreFilled,
                              FirstFlushCount
    <3>3. completes[g] \in Nat /\ Outstanding(g) \in Nat /\ Outstanding(g)' \in Nat
      BY <2>0, <2>3, <3>1 DEF sensor_device_flush, Outstanding, FirstFlushCount
    <3> QED
      BY <3>2, <3>3
  <2>4. ASSUME UNCHANGED <<m_flush_count, slot_type, completes>> PROVE Kept(g)
    BY <2>0, <2>4 DEF Outstanding
  <2>5. ASSUME PollThread, ~store_event, ~sensor_device_pick_pending_event_locked
        PROVE  UNCHANGED <<m_flush_count, slot_type, completes>>
    BY <2>5 DEF PollThread, sensor_device_poll, check_client, relock_after_sleep,
                wait_for_message, spurious_wakeup, pop_message, pop_empty_queue,
                return_buffer, poll_return, eventVars, histVars
  <2>6. ASSUME ListenerThread PROVE UNCHANGED <<m_flush_count, slot_type, completes>>
    BY <2>6 DEF ListenerThread, accept_client, client_connected_callback, close_client,
                choose_default, recv_header, check_pool, create_buffer, take_buffer,
                recv_payload, recv_payload_failed, post_message,
                post_message_dropping_oldest, eventVars, histVars
  <2> QED
    BY <2>1, <2>2, <2>3, <2>4, <2>5, <2>6 DEF Next
<1> QED
  BY <1>1, DeviceInvariant, PTL DEF Spec, FlushLostOnlyByStore

-----------------------------------------------------------------------------
\* The device implements EventStream: every step of its threads is a step of
\* the abstract stream or leaves it as it is.

\* The flush-complete events owed, as the mapping defines them.
Owed == [h \in Handles |-> Outstanding(h)]

\* Facts about the mapped state that every case needs.
LEMMA MappedTypes ==
  ASSUME IInv
  PROVE  /\ Posted \in Nat /\ lastId \in Nat /\ rx \in Nat
         /\ hand \in Messages /\ lmsg \in Messages
         /\ m_sensor_msg_queue \in Seq(Messages) /\ Len(m_sensor_msg_queue) \in Nat
         /\ m_flush_count \in [Handles -> Nat] /\ slot_type \in [Handles -> SlotTypes]
         /\ m_pending_sensors \subseteq Handles /\ src \in [Handles -> Nat]
         /\ PendingData \subseteq Handles
         /\ \A id \in InFlight : id \in lastId + 1 .. Posted
<1>1. TypeOK /\ OrderInv
  BY DEF IInv
<1>2. /\ lastId \in Nat /\ rx \in Nat
      /\ hand \in Messages /\ lmsg \in Messages
      /\ m_sensor_msg_queue \in Seq(Messages)
      /\ m_flush_count \in [Handles -> Nat] /\ slot_type \in [Handles -> SlotTypes]
      /\ m_pending_sensors \subseteq Handles /\ src \in [Handles -> Nat]
  BY <1>1 DEF TypeOK
<1>3. Len(m_sensor_msg_queue) \in Nat
  BY <1>2, LenProperties
<1>4. Posted \in Nat
  BY <1>1, <1>2 DEF Posted, OrderInv
<1>5. PendingData \subseteq Handles
  BY <1>2 DEF PendingData
<1>6. \A id \in InFlight : id \in lastId + 1 .. Posted
  BY <1>1 DEF InFlight, QueuedIds, OrderInv
<1> QED
  BY <1>2, <1>3, <1>4, <1>5, <1>6

\* A full queue holds as many different messages: they are in flight.
LEMMA FullQueueIsInFlight ==
  ASSUME IInv, Len(m_sensor_msg_queue) >= MAX_MSG_QUEUE_SIZE
  PROVE  Cardinality(InFlight) >= MAX_MSG_QUEUE_SIZE
<1> DEFINE q == m_sensor_msg_queue
           n == Len(q)
           f == [i \in 1 .. n |-> q[i].id]
<1>1. n \in Nat /\ Posted \in Nat /\ lastId \in Nat /\ q \in Seq(Messages)
      /\ \A id \in InFlight : id \in lastId + 1 .. Posted
  BY MappedTypes
<1>2. /\ \A i, j \in 1 .. n : i < j => q[i].id < q[j].id
      /\ \A i \in 1 .. n : q[i].id \in lastId + 1 .. Posted
  BY DEF IInv, OrderInv
<1>3. f \in [1 .. n -> InFlight]
  BY DEF InFlight, QueuedIds
<1>4. ASSUME NEW i \in 1 .. n, NEW j \in 1 .. n, f[i] = f[j] PROVE i = j
  BY <1>1, <1>2, <1>4
<1>5. f \in Injection(1 .. n, InFlight)
  BY <1>3, <1>4 DEF Injection, IsInjective
<1>6. IsFiniteSet(InFlight)
  <2>1. InFlight \in SUBSET (lastId + 1 .. Posted)
    BY <1>1
  <2>2. IsFiniteSet(lastId + 1 .. Posted)
    BY <1>1, FS_Interval
  <2> QED
    BY <2>1, <2>2, FS_Subset
<1>7. Cardinality(1 .. n) = n
  <2> HIDE DEF n
  <2>1. n \in Nat
    BY <1>1
  <2>2. Cardinality(1 .. n) = IF 1 > n THEN 0 ELSE n - 1 + 1
    BY <2>1, FS_Interval
  <2> QED
    BY <2>1, <2>2
<1>8. Cardinality(1 .. n) =< Cardinality(InFlight)
  BY <1>5, <1>6, FS_Injection
<1>9. Cardinality(InFlight) \in Nat
  BY <1>6, FS_CardinalityType
<1> QED
  BY <1>1, <1>7, <1>8, <1>9, DeviceAssumption

\* What can be in flight does not change where its three places do not.
LEMMA InFlightKept ==
  ASSUME UNCHANGED <<m_sensor_msg_queue, src>>,
         PendingData' = PendingData,
         poll_pc' = "relock" <=> poll_pc = "relock",
         hand' = hand
  PROVE  InFlight' = InFlight
BY DEF InFlight, QueuedIds

\* The debts do not change with the slots and counters.
LEMMA OwedKept ==
  ASSUME UNCHANGED <<slot_type, m_flush_count>>
  PROVE  Owed' = Owed
BY DEF Owed, Outstanding

\* Posting a message: d = 1 if the oldest one makes room.
LEMMA PostedIds ==
  ASSUME IInv, NEW d \in 0 .. 1, d =< Len(m_sensor_msg_queue),
         NEW p \in Seq(Messages), Len(p) = Len(m_sensor_msg_queue) - d,
         \A i \in 1 .. Len(p) : p[i] = m_sensor_msg_queue[i + d],
         m_sensor_msg_queue' = Append(p, lmsg)
  PROVE  IF d = 0 THEN QueuedIds' = QueuedIds \cup {lmsg.id}
         ELSE QueuedIds' = (QueuedIds \ {m_sensor_msg_queue[1].id}) \cup {lmsg.id}
<1> DEFINE q == m_sensor_msg_queue
<1>0. q \in Seq(Messages) /\ Len(q) \in Nat /\ lmsg \in Messages
  BY MappedTypes
<1>1. /\ q \in Seq(Messages) /\ Len(q) \in Nat /\ lmsg \in Messages
      /\ \A i \in 1 .. Len(q) : q[i].id \in Int
  <2>1. \A i \in 1 .. Len(q) : q[i] \in Messages
    BY <1>0, ElementOfSeq
  <2> QED
    BY <1>0, <2>1 DEF Messages
<1>2. /\ Len(p) \in Nat /\ Len(q') = Len(p) + 1 /\ q'[Len(p) + 1] = lmsg
      /\ \A i \in 1 .. Len(p) : q'[i] = p[i]
  BY <1>1, AppendElements, LenProperties
<1>3. \A i, j \in 1 .. Len(q) : i < j => q[i].id < q[j].id
  BY DEF IInv, OrderInv
<1>4. QueuedIds' = {q[i + d].id : i \in 1 .. Len(p)} \cup {lmsg.id}
  <2>1. ASSUME NEW x \in QueuedIds'
        PROVE  x \in {q[i + d].id : i \in 1 .. Len(p)} \cup {lmsg.id}
    <3>1. PICK i \in 1 .. Len(q') : x = q'[i].id
      BY DEF QueuedIds
    <3>2. CASE i = Len(p) + 1
      BY <1>2, <3>1, <3>2
    <3>3. CASE i # Len(p) + 1
      <4>1. i \in 1 .. Len(p)
        BY <1>2, <3>3
      <4> QED
        BY <1>2, <3>1, <4>1
    <3> QED
      BY <3>2, <3>3
  <2>2. ASSUME NEW i \in 1 .. Len(p) PROVE q[i + d].id \in QueuedIds'
    <3>1. i \in 1 .. Len(q') /\ q'[i] = q[i + d]
      BY <1>2
    <3> QED
      BY <3>1 DEF QueuedIds
  <2>3. lmsg.id \in QueuedIds'
    <3>1. Len(p) + 1 \in 1 .. Len(q')
      BY <1>2
    <3> QED
      BY <1>2, <3>1 DEF QueuedIds
  <2> QED
    BY <2>1, <2>2, <2>3
<1>5. CASE d = 0
  <2>1. Len(p) = Len(q) /\ \A i \in 1 .. Len(q) : i + d = i
    BY <1>1, <1>5
  <2>2. {q[i + d].id : i \in 1 .. Len(p)} = QueuedIds
    BY <2>1 DEF QueuedIds
  <2> QED
    BY <1>4, <1>5, <2>2
<1>6. CASE d = 1
  <2>1. {q[i + d].id : i \in 1 .. Len(p)} = QueuedIds \ {q[1].id}
    <3>1. ASSUME NEW i \in 1 .. Len(p) PROVE q[i + d].id \in QueuedIds \ {q[1].id}
      <4>1. i + d \in 1 .. Len(q) /\ 1 \in 1 .. Len(q) /\ 1 < i + d
        BY <1>1, <1>2, <1>6
      <4>2. q[1].id < q[i + d].id /\ q[1].id \in Int /\ q[i + d].id \in Int
        BY <1>1, <1>3, <4>1
      <4>3. q[i + d].id # q[1].id
        BY <4>2
      <4> QED
        BY <4>1, <4>3 DEF QueuedIds
    <3>2. ASSUME NEW x \in QueuedIds \ {q[1].id}
          PROVE  \E i \in 1 .. Len(p) : x = q[i + d].id
      <4>1. PICK j \in 1 .. Len(q) : x = q[j].id
        BY DEF QueuedIds
      <4>2. j # 1
        BY <4>1
      <4>3. j - 1 \in 1 .. Len(p) /\ (j - 1) + d = j
        BY <1>1, <1>6, <4>2
      <4> QED
        BY <4>1, <4>3
    <3> QED
      BY <3>1, <3>2
  <2> QED
    BY <1>4, <1>6, <2>1
<1> QED
  BY <1>5, <1>6

-----------------------------------------------------------------------------
\* One lemma for each action that is a step of the stream.

\* post_message accepts a message.
LEMMA PostAccepts == IInv /\ post_message => Stream!Accept
<1> SUFFICES ASSUME IInv, post_message PROVE Stream!Accept
  OBVIOUS
<1> DEFINE q == m_sensor_msg_queue
<1>1. /\ lis_pc = "post" /\ lis_pc' = "idle" /\ q' = Append(q, lmsg)
      /\ poll_pc' = "relock" <=> poll_pc = "relock"
      /\ UNCHANGED <<hand, slot_type, m_flush_count, m_pending_sensors, src, lastId, rx>>
  BY DEF post_message, notify_all, eventVars, histVars
<1>2. Posted' = Posted + 1 /\ Posted' = lmsg.id
  BY <1>1, MappedTypes DEF Posted, Receiving, IInv, OrderInv
<1>3. q \in Seq(Messages) /\ Len(q) \in Nat /\ \A i \in 1 .. Len(q) : q[i] = q[i + 0]
  BY MappedTypes
<1>4. QueuedIds' = QueuedIds \cup {lmsg.id}
  <2>1. 0 \in 0 .. 1 /\ 0 =< Len(q) /\ Len(q) = Len(q) - 0
    BY <1>3
  <2> QED
    BY <1>1, <1>3, <2>1, PostedIds
<1>5. PendingData' = PendingData
  BY <1>1 DEF PendingData
<1>6. InFlight' = InFlight \cup {Posted'}
  BY <1>1, <1>2, <1>4, <1>5 DEF InFlight
<1>7. Owed' = Owed
  BY <1>1, OwedKept
<1> QED
  BY <1>1, <1>2, <1>6, <1>7 DEF Stream!Accept, Owed

\* post_message_dropping_oldest accepts one and drops one.
LEMMA PostDrops ==
  IInv /\ post_message_dropping_oldest => \E id \in InFlight : Stream!AcceptDropping(id)
<1> SUFFICES ASSUME IInv, post_message_dropping_oldest
             PROVE  \E id \in InFlight : Stream!AcceptDropping(id)
  OBVIOUS
<1> DEFINE q == m_sensor_msg_queue
<1>1. /\ lis_pc = "post" /\ lis_pc' = "idle" /\ q' = Append(Tail(q), lmsg)
      /\ Len(q) >= MAX_MSG_QUEUE_SIZE
      /\ poll_pc' = "relock" <=> poll_pc = "relock"
      /\ UNCHANGED <<hand, slot_type, m_flush_count, m_pending_sensors, src, lastId, rx>>
  BY DEF post_message_dropping_oldest, notify_all, eventVars, histVars
<1>2. Posted' = Posted + 1 /\ Posted' = lmsg.id
  BY <1>1, MappedTypes DEF Posted, Receiving, IInv, OrderInv
<1>3. q \in Seq(Messages) /\ Len(q) \in Nat \ {0} /\ q # <<>>
  BY <1>1, MappedTypes, DeviceAssumption, EmptySeq
<1>4. /\ Tail(q) \in Seq(Messages) /\ Len(Tail(q)) = Len(q) - 1
      /\ \A i \in 1 .. Len(Tail(q)) : Tail(q)[i] = q[i + 1]
  BY <1>3, TailElements
<1>5. QueuedIds' = (QueuedIds \ {q[1].id}) \cup {lmsg.id}
  <2>1. 1 \in 0 .. 1 /\ 1 =< Len(q) /\ 1 # 0
    BY <1>3
  <2> QED
    BY <1>1, <1>4, <2>1, PostedIds
<1>6. PendingData' = PendingData
  BY <1>1 DEF PendingData
<1>7. q[1].id \in QueuedIds
  <2>1. 1 \in 1 .. Len(q)
    BY <1>3
  <2> QED
    BY <2>1 DEF QueuedIds
<1>8. /\ \A h \in PendingData : src[h] # q[1].id
      /\ poll_pc = "relock" => hand.id # q[1].id
  <2>1. 1 \in 1 .. Len(q)
    BY <1>3
  <2>2. /\ q[1].id \in Int
        /\ \A h \in PendingData : src[h] \in Int /\ src[h] < q[1].id
        /\ poll_pc = "relock" => hand.id \in Int /\ hand.id < q[1].id
    BY <2>1, MappedTypes DEF IInv, OrderInv
  <2> QED
    BY <2>2
<1>9. InFlight' = (InFlight \ {q[1].id}) \cup {Posted'}
  BY <1>1, <1>2, <1>5, <1>6, <1>8 DEF InFlight
<1>10. Owed' = Owed
  BY <1>1, OwedKept
<1>11. Cardinality(InFlight) >= MAX_MSG_QUEUE_SIZE
  BY <1>1, FullQueueIsInFlight
<1>12. Stream!Cardinality(InFlight) = Cardinality(InFlight)
  BY Zenon DEF Stream!Cardinality, Cardinality, Stream!IsFiniteSet, IsFiniteSet
<1>13. Stream!Cardinality(InFlight) >= MAX_MSG_QUEUE_SIZE
  BY <1>11, <1>12
<1>14. Stream!AcceptDropping(q[1].id)
  BY <1>1, <1>2, <1>9, <1>10, <1>13 DEF Stream!AcceptDropping, Owed
<1>15. q[1].id \in InFlight
  BY <1>7 DEF InFlight
<1> QED
  BY <1>14, <1>15

\* store_event may forget the flushes of the sensor, nothing else.
LEMMA StoreForgets == IInv /\ store_event => \E h \in Handles : Stream!Forget(h)
<1> SUFFICES ASSUME IInv, store_event PROVE \E h \in Handles : Stream!Forget(h)
  OBVIOUS
<1> DEFINE h == get_handle_from_type[hand.type]
<1>0. /\ hand.type \in SupportedTypes /\ slot_type \in [Handles -> SlotTypes]
      /\ src \in [Handles -> Nat]
  BY MappedTypes DEF Messages
<1>1. h \in Handles
  BY <1>0, HandleOfType
<1>2. /\ poll_pc = "relock" /\ poll_pc' = "emplace"
      /\ slot_type' = [slot_type EXCEPT ![h] = hand.type]
      /\ src'[h] = hand.id
      /\ UNCHANGED <<m_flush_count, m_sensor_msg_queue, lastId, rx, lis_pc>>
  BY <1>0, <1>1 DEF store_event, bufferVars, lisVars
<1>3. PendingData' = {h} /\ PendingData = {}
  BY StorePendingData DEF IInv, SlotInv, OneUnreportedEvent, store_event
<1>4. InFlight' = InFlight
  BY <1>2, <1>3 DEF InFlight, QueuedIds
<1>5. Posted' = Posted
  BY <1>2 DEF Posted, Receiving
<1>6. Owed' = [Owed EXCEPT ![h] = 0]
  <2>1. \A g \in Handles : Outstanding(g)' = IF g = h THEN 0 ELSE Outstanding(g)
    BY <1>0, <1>1, <1>2, NoTypeIsMeta DEF Outstanding
  <2> QED
    BY <2>1 DEF Owed
<1>7. Stream!Forget(h)
  BY <1>2, <1>4, <1>5, <1>6 DEF Stream!Forget, Owed
<1> QED
  BY <1>1, <1>7

\* pick reports the oldest message in flight, or completes a flush.
LEMMA PickReports ==
  IInv /\ sensor_device_pick_pending_event_locked
    => \/ \E id \in InFlight : Stream!Report(id)
       \/ \E h \in Handles : Stream!Complete(h)
<1> SUFFICES ASSUME IInv, sensor_device_pick_pending_event_locked
             PROVE  \/ \E id \in InFlight : Stream!Report(id)
                    \/ \E h \in Handles : Stream!Complete(h)
  OBVIOUS
<1>0. TypeOK /\ SlotInv /\ OrderInv
  BY DEF IInv
<1>1. PICK i \in m_pending_sensors : pick_meta_data(i) \/ pick_sensor_event(i)
  BY DEF sensor_device_pick_pending_event_locked
<1>2. /\ UNCHANGED <<m_sensor_msg_queue, src, rx, lis_pc, poll_pc, hand>>
      /\ poll_pc = "pick"
  BY DEF sensor_device_pick_pending_event_locked, bufferVars, lisVars
<1>3. Posted' = Posted
  BY <1>2 DEF Posted, Receiving
<1>4. i \in Handles /\ slot_type \in [Handles -> SlotTypes]
      /\ m_flush_count \in [Handles -> Nat] /\ src \in [Handles -> Nat]
  BY MappedTypes
<1>5. CASE pick_meta_data(i)
  <2>1. PendingData' = PendingData /\ lastId' = lastId
    BY <1>0, <1>5, PickPendingData DEF pick_meta_data
  <2>2. InFlight' = InFlight
    BY <1>2, <2>1, InFlightKept
  <2>3. \A g \in Handles : Outstanding(g)' = IF g = i THEN Outstanding(i) - 1 ELSE Outstanding(g)
    BY <1>4, <1>5, NoTypeIsMeta
       DEF pick_meta_data, flush_counted, TypeAfterFlush, Outstanding
  <2>4. Outstanding(i) > 0
    BY <1>4, <1>5 DEF pick_meta_data, Outstanding
  <2>5. Owed[i] > 0 /\ Owed' = [Owed EXCEPT ![i] = Owed[i] - 1]
    BY <1>4, <2>3, <2>4 DEF Owed
  <2>6. Stream!Complete(i)
    BY <1>3, <2>1, <2>2, <2>5 DEF Stream!Complete, Owed
  <2> QED
    BY <1>4, <2>6
<1>6. CASE pick_sensor_event(i)
  <2>1. PendingData = {i} /\ PendingData' = {}
    BY <1>0, <1>6, PickPendingData
  <2>2. lastId' = src[i] /\ UNCHANGED <<slot_type, m_flush_count>>
    BY <1>6 DEF pick_sensor_event
  <2>3. /\ \A k \in 1 .. Len(m_sensor_msg_queue) : src[i] < m_sensor_msg_queue[k].id
        /\ \A k \in 1 .. Len(m_sensor_msg_queue) : m_sensor_msg_queue[k].id \in Int
    BY <1>0, <2>1, MappedTypes DEF OrderInv
  <2>4. InFlight = {src[i]} \cup QueuedIds
    BY <1>2, <2>1 DEF InFlight
  <2>5. InFlight' = QueuedIds
    BY <1>2, <2>1 DEF InFlight, QueuedIds
  <2>6. \A id \in QueuedIds : src[i] < id /\ id \in Int
    BY <2>3 DEF QueuedIds
  <2>7. InFlight' = InFlight \ {src[i]} /\ \A id \in InFlight : src[i] =< id
    BY <1>4, <2>4, <2>5, <2>6
  <2>8. Owed' = Owed
    BY <2>2, OwedKept
  <2>9. Stream!Report(src[i])
    BY <1>3, <2>2, <2>7, <2>8 DEF Stream!Report, Owed
  <2> QED
    BY <2>4, <2>9
<1> QED
  BY <1>1, <1>5, <1>6

\* sensor_device_flush is a flush, which may cost the event in m_sensors.
LEMMA FlushOwes ==
  ASSUME IInv, NEW h \in FlushHandles, sensor_device_flush(h)
  PROVE  h \in Handles /\ Stream!Flush(h)
<1>0. TypeOK /\ SlotInv
  BY DEF IInv
<1>1. h \in Handles
  BY DeviceAssumption
<1>2. UNCHANGED <<m_sensor_msg_queue, lastId, src, rx, lis_pc, poll_pc, hand>>
  BY DEF sensor_device_flush, bufferVars, lisVars, pollVars
<1>3. Posted' = Posted
  BY <1>2 DEF Posted, Receiving
<1>4. slot_type \in [Handles -> SlotTypes] /\ m_flush_count \in [Handles -> Nat]
  BY MappedTypes
<1>5. \A g \in Handles : Outstanding(g)' = IF g = h THEN Outstanding(h) + 1 ELSE Outstanding(g)
  BY <1>0, <1>1, <1>4 DEF sensor_device_flush, Outstanding, FirstFlushCount, SlotInv,
                          PendingSlotsAreFilled
<1>6. Owed' = [Owed EXCEPT ![h] = Owed[h] + 1]
  BY <1>1, <1>5 DEF Owed
<1>7. PendingData' \subseteq PendingData
  BY <1>0, FlushPendingData
<1>8. CASE PendingData' = PendingData
  BY <1>1, <1>2, <1>3, <1>6, <1>8, InFlightKept DEF Stream!Flush, Owed
<1>9. CASE PendingData' # PendingData
  <2>1. PICK g \in PendingData : g \notin PendingData'
    BY <1>7, <1>9
  <2>2. PendingData = {g} /\ PendingData' = {} /\ poll_pc # "relock"
    BY <1>0, <1>7, <2>1 DEF SlotInv, OneUnreportedEvent
  <2>3. OrderInv
    BY DEF IInv
  <2>4. InFlight = {src[g]} \cup QueuedIds /\ InFlight' = QueuedIds
    BY <1>2, <2>2 DEF InFlight, QueuedIds
  <2>5. src[g] \notin QueuedIds
    <3>1. /\ \A k \in 1 .. Len(m_sensor_msg_queue) :
                src[g] < m_sensor_msg_queue[k].id /\ m_sensor_msg_queue[k].id \in Int
          /\ src[g] \in Int
      BY <2>2, <2>3, MappedTypes DEF OrderInv
    <3>2. \A k \in 1 .. Len(m_sensor_msg_queue) : src[g] # m_sensor_msg_queue[k].id
      BY <3>1
    <3> QED
      BY <3>2 DEF QueuedIds
  <2>6. src[g] \in InFlight /\ InFlight' = InFlight \ {src[g]}
    BY <2>4, <2>5
  <2> QED
    BY <1>1, <1>2, <1>3, <1>6, <2>6 DEF Stream!Flush, Owed
<1> QED
  BY <1>8, <1>9

-----------------------------------------------------------------------------
\* The steps that the stream does not see, and refused messages.

\* The device's variables that the mapping reads do not change.
LEMMA Stutters ==
  ASSUME UNCHANGED <<m_sensor_msg_queue, src, hand, lastId, eventVars>>,
         poll_pc' = "relock" <=> poll_pc = "relock"
  PROVE  /\ InFlight' = InFlight
         /\ UNCHANGED <<lastId, [h \in Handles |-> Outstanding(h)]>>
<1>1. PendingData' = PendingData
  BY DEF PendingData, eventVars
<1>2. InFlight' = InFlight
  BY <1>1, InFlightKept
<1>3. Owed' = Owed
  BY OwedKept DEF eventVars
<1> QED
  BY <1>2, <1>3 DEF Owed

\* Steps of the poll thread.
LEMMA PollThreadRefines ==
  ASSUME IInv, PollThread
  PROVE  Stream!Next \/ UNCHANGED Stream!vars
<1>1. CASE store_event
  BY <1>1, StoreForgets DEF Stream!Next
<1>2. CASE sensor_device_pick_pending_event_locked
  BY <1>2, PickReports DEF Stream!Next
<1>3. CASE pop_message
  <2> DEFINE q == m_sensor_msg_queue
  <2>1. /\ poll_pc # "relock" /\ poll_pc' = "relock" /\ q # <<>>
        /\ hand' = Head(q) /\ q' = Tail(q)
        /\ UNCHANGED <<slot_type, m_flush_count, m_pending_sensors, src, lastId, rx, lis_pc>>
    BY <1>3 DEF pop_message, eventVars, histVars, lisVars
  <2>2. /\ Head(q) = q[1] /\ Len(q) \in Nat \ {0} /\ Len(q') = Len(q) - 1
        /\ \A i \in 1 .. Len(q) - 1 : q'[i] = q[i + 1]
    BY <2>1, MappedTypes, TailElements
  <2>3. PendingData' = PendingData /\ Posted' = Posted
    BY <2>1 DEF PendingData, Posted, Receiving
  <2>4. QueuedIds = {hand'.id} \cup QueuedIds'
    <3>1. ASSUME NEW x \in QueuedIds PROVE x \in {hand'.id} \cup QueuedIds'
      <4>1. PICK i \in 1 .. Len(q) : x = q[i].id
        BY DEF QueuedIds
      <4>2. CASE i = 1
        BY <2>1, <2>2, <4>1, <4>2
      <4>3. CASE i # 1
        <5>1. i - 1 \in 1 .. Len(q') /\ q'[i - 1] = q[i]
          BY <2>2, <4>3
        <5> QED
          BY <4>1, <5>1 DEF QueuedIds
      <4> QED
        BY <4>2, <4>3
    <3>2. hand'.id \in QueuedIds
      <4>1. 1 \in 1 .. Len(q)
        BY <2>2
      <4> QED
        BY <2>1, <2>2, <4>1 DEF QueuedIds
    <3>3. ASSUME NEW x \in QueuedIds' PROVE x \in QueuedIds
      <4>1. PICK i \in 1 .. Len(q') : x = q'[i].id
        BY DEF QueuedIds
      <4>2. i + 1 \in 1 .. Len(q) /\ q'[i] = q[i + 1]
        BY <2>2
      <4> QED
        BY <4>1, <4>2 DEF QueuedIds
    <3> QED
      BY <3>1, <3>2, <3>3
  <2>5. InFlight' = InFlight
    BY <2>1, <2>3, <2>4 DEF InFlight
  <2>6. Owed' = Owed
    BY <2>1, OwedKept
  <2> QED
    BY <2>1, <2>3, <2>5, <2>6 DEF Stream!vars, Owed
<1>4. CASE ~store_event /\ ~sensor_device_pick_pending_event_locked /\ ~pop_message
  <2>1. /\ UNCHANGED <<m_sensor_msg_queue, src, hand, lastId, eventVars, rx, lis_pc>>
        /\ poll_pc' = "relock" <=> poll_pc = "relock"
    BY <1>4 DEF PollThread, sensor_device_poll, check_client, relock_after_sleep,
                wait_for_message, spurious_wakeup, pop_empty_queue, return_buffer,
                poll_return, bufferVars, lisVars, histVars, pollVars, must_fetch
  <2>2. Posted' = Posted
    BY <2>1 DEF Posted, Receiving
  <2> QED
    BY <2>1, <2>2, Stutters DEF Stream!vars
<1> QED
  BY <1>1, <1>2, <1>3, <1>4

\* Steps of the listener thread.
LEMMA ListenerRefines ==
  ASSUME IInv, ListenerThread
  PROVE  Stream!Next \/ UNCHANGED Stream!vars
<1>1. CASE post_message
  BY <1>1, PostAccepts DEF Stream!Next
<1>2. CASE post_message_dropping_oldest
  BY <1>2, PostDrops DEF Stream!Next
<1>3. CASE ~post_message /\ ~post_message_dropping_oldest
  <2>1. /\ UNCHANGED <<m_sensor_msg_queue, src, hand, lastId, eventVars>>
        /\ poll_pc' = "relock" <=> poll_pc = "relock"
    BY <1>3 DEF ListenerThread, accept_client, client_connected_callback, close_client,
                choose_default, recv_header, check_pool, create_buffer, take_buffer,
                recv_payload, recv_payload_failed, bufferVars, histVars, pollVars
  <2>2. Posted' = Posted \/ Posted' = Posted + 1
    <3>0. rx \in Nat /\ Posted \in Nat
      BY MappedTypes
    <3>1. CASE \E t \in SentTypes : recv_header(t)
      BY <3>0, <3>1 DEF recv_header, Posted, Receiving, lisVars
    <3>2. CASE recv_payload \/ recv_payload_failed
      BY <3>0, <3>2 DEF recv_payload, recv_payload_failed, Posted, Receiving, histVars
    <3>3. CASE check_pool \/ create_buffer \/ take_buffer \/ accept_client
               \/ client_connected_callback \/ close_client \/ choose_default
      <4>1. UNCHANGED rx /\ (Receiving' <=> Receiving)
        BY <3>3 DEF check_pool, create_buffer, take_buffer, accept_client, close_client,
                    client_connected_callback, choose_default, Receiving, lisVars, histVars
      <4> QED
        BY <4>1 DEF Posted
    <3> QED
      BY <1>3, <3>1, <3>2, <3>3 DEF ListenerThread
  <2>3. /\ InFlight' = InFlight
        /\ UNCHANGED <<lastId, [h \in Handles |-> Outstanding(h)]>>
    BY <2>1, Stutters
  <2>4. CASE Posted' = Posted
    BY <2>3, <2>4 DEF Stream!vars
  <2>5. CASE Posted' = Posted + 1
    BY <2>3, <2>5 DEF Stream!Next, Stream!Refuse
  <2> QED
    BY <2>2, <2>4, <2>5
<1> QED
  BY <1>1, <1>2, <1>3

\* Initial states map to initial states.
LEMMA InitRefines == Init => Stream!Init
<1> SUFFICES ASSUME Init PROVE Stream!Init
  OBVIOUS
<1>1. PendingData = {} /\ Posted = 0 /\ lastId = 0
  BY DEF Init, PendingData, Posted, Receiving
<1>2. InFlight = {}
  BY <1>1 DEF Init, InFlight, QueuedIds
<1>3. \A h \in Handles : Outstanding(h) = 0
  BY NoTypeIsMeta DEF Init, Outstanding
<1> QED
  BY <1>1, <1>2, <1>3 DEF Stream!Init

\* Every step of the device is a step of the stream or a stutter.
LEMMA StepRefines == IInv /\ [Next]_vars => [Stream!Next]_(Stream!vars)
<1> SUFFICES ASSUME IInv, [Next]_vars PROVE Stream!Next \/ UNCHANGED Stream!vars
  OBVIOUS
<1>1. CASE PollThread
  BY <1>1, PollThreadRefines
<1>2. CASE ListenerThread
  BY <1>2, ListenerRefines
<1>3. ASSUME NEW h \in FlushHandles, sensor_device_flush(h) PROVE Stream!Next
  BY <1>3, FlushOwes DEF Stream!Next
<1>4. CASE UNCHANGED vars
  <2>1. UNCHANGED <<m_sensor_msg_queue, src, hand, lastId, eventVars, rx, lis_pc, poll_pc>>
    BY <1>4 DEF vars, pollVars, bufferVars, lisVars, histVars
  <2>2. Posted' = Posted
    BY <2>1 DEF Posted, Receiving
  <2> QED
    BY <2>1, <2>2, Stutters DEF Stream!vars
<1> QED
  BY <1>1, <1>2, <1>3, <1>4 DEF Next

\* The device implements the abstract event stream, for every queue capacity
\* and pool size and whatever the threads interleave.
THEOREM DeviceImplementsStream == Spec => ImplementsEventStream
BY InitRefines, StepRefines, DeviceInvariant, PTL
   DEF Spec, Stream!Spec, ImplementsEventStream

-----------------------------------------------------------------------------
\* What the device assumes of SockServer is what SockServer implements.

\* The device's listener does to its clients what ClientPresence allows ...
THEOREM DeviceSeesPresence == Spec => SeesClientPresence
<1>1. Init => Presence!Init
  BY DEF Init, Presence!Init
<1>2. [Next]_vars => [Presence!Next]_(Presence!vars)
  <2> SUFFICES ASSUME [Next]_vars PROVE Presence!Next \/ UNCHANGED Presence!vars
    OBVIOUS
  <2>1. CASE accept_client
    BY <2>1 DEF accept_client, Presence!Next, Presence!Accept
  <2>2. CASE client_connected_callback
    BY <2>2 DEF client_connected_callback, connVars, Presence!Next, Presence!Announce
  <2>3. CASE close_client
    BY <2>3 DEF close_client, lisVars, Presence!Next, Presence!Close
  <2>4. CASE choose_default
    BY <2>4 DEF choose_default, lisVars, Presence!Next, Presence!Choose
  <2>5. CASE UNCHANGED connVars /\ (lis_pc' = "connected" <=> lis_pc = "connected")
    BY <2>5 DEF connVars, Presence!vars
  <2>6. PollThread \/ UNCHANGED vars => UNCHANGED <<connVars, lisVars>>
    BY DEF PollThread, sensor_device_poll, check_client, relock_after_sleep, wait_for_message,
           spurious_wakeup, pop_message, pop_empty_queue, store_event, return_buffer,
           sensor_device_pick_pending_event_locked, poll_return, vars
  <2>7. \A h \in FlushHandles : sensor_device_flush(h) => UNCHANGED <<connVars, lisVars>>
    BY DEF sensor_device_flush
  <2>8. ASSUME ListenerThread, ~accept_client, ~client_connected_callback, ~close_client,
               ~choose_default
        PROVE  UNCHANGED connVars /\ lis_pc # "connected" /\ lis_pc' # "connected"
    BY <2>8 DEF ListenerThread, recv_header, check_pool, create_buffer, take_buffer,
                recv_payload, recv_payload_failed, post_message,
                post_message_dropping_oldest, lisVars
  <2> QED
    BY <2>1, <2>2, <2>3, <2>4, <2>5, <2>6, <2>7, <2>8 DEF Next, lisVars
<1> QED
  BY <1>1, <1>2, PTL DEF Spec, SeesClientPresence, Presence!Spec

\* ... and whatever it allows: the device assumes no more of SockServer than
\* ServerImplementsPresence proves of it.
THEOREM DeviceAssumesNoMore == AllowsClientPresence
BY DEF AllowsClientPresence, restVars, accept_client, client_connected_callback,
       close_client, choose_default, connVars, lisVars, Presence!Accept, Presence!Announce,
       Presence!Close, Presence!Choose
=============================================================================
