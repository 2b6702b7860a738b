---------------------------- MODULE SensorConfig ----------------------------
(***************************************************************************)
(* The configuration path of class SensorDevice, composed with the         *)
(* connection management of SockServer: the framework's activate, batch    *)
(* and setDelay calls change m_sensor_config_status and send it to the     *)
(* default client; a new connection makes the listener replay all of it.   *)
(* Every step is a step of SockServer or leaves its state alone, so that   *)
(* all that is true of SockServer is true here.                            *)
(*                                                                         *)
(* m_mutex is held by a HAL thread exactly while it has the proxy s_client *)
(* in its hand.  The clients are external: a client keeps, per sensor, the *)
(* configuration message it received last.                                 *)
(*                                                                         *)
(* A period is asked for in nanoseconds, an int64_t, and kept in           *)
(* milliseconds, an int32_t; nothing in the code bounds what is asked for. *)
(***************************************************************************)
EXTENDS SensorTypes, SockServer

CONSTANTS
  ConfigHandles,  \* handles the framework configures
  Periods,        \* sampling periods it asks for, in ns
  NS_PER_MS,      \* 1000000 in the code
  INT32_MAX       \* 2^31 - 1

ASSUME ConfigAssumption ==
  /\ ConfigHandles \subseteq Handles
  /\ Periods \subseteq Int
  /\ NS_PER_MS \in Nat \ {0}
  /\ INT32_MAX \in Nat

VARIABLES
  m_sensor_config_status,  \* handle -> sensor_config_msg_t
  sending,                 \* handle whose configuration s_client is to get
  replay,                  \* loop index of client_connected_callback
  view,                    \* connection -> handle -> message received last
  asked,                   \* history: handle -> period asked for last, in ns
  greeted,                 \* history: default clients that got the replay
  faulty                   \* history: connections on which a send failed

configVars == <<m_sensor_config_status, sending, replay, view, asked, greeted, faulty>>
allVars == <<vars, configVars>>

\* sensor_config_msg_t after the constructor's memset.
ZeroMsg == [sensor_type |-> "0", enabled |-> 0, sample_period |-> 0]

ConfigInit ==
  /\ Init
  /\ m_sensor_config_status = [h \in Handles |-> ZeroMsg]
  /\ sending = 0
  /\ replay = 0
  /\ view = [c \in Conns |-> [h \in Handles |-> ZeroMsg]]
  /\ asked = [h \in Handles |-> 0]
  /\ greeted = {}
  /\ faulty = {}

-----------------------------------------------------------------------------
\* The framework's control thread.  An unknown handle is refused with -EINVAL
\* and changes nothing.

MutexFree == s_client = NULL

\* sensor_device_send_config_msg, up to send_data: without a client nothing
\* is sent, and 0 is returned "as success".
get_client(handle) ==
  IF m_pclient_ = NULL
  THEN UNCHANGED <<vars, sending>>
  ELSE get_sock_client /\ sending' = handle

\* Set the entry of the handle.
configure(handle, enabled, sample_period) ==
  m_sensor_config_status' =
    [m_sensor_config_status EXCEPT ![handle] =
       [sensor_type   |-> get_type_from_hanle[handle],
        enabled       |-> enabled,
        sample_period |-> sample_period]]

\* (Seeded fault: the test is inverted.)
must_send_inverted(enabled) == enabled = 1

\* if (!enabled): an activation waits for the batch call that follows.
must_send(enabled) == enabled = 0

sensor_device_activate(handle, enabled) ==
  /\ MutexFree
  /\ configure(handle, enabled, m_sensor_config_status[handle].sample_period)
  /\ IF must_send(enabled) THEN get_client(handle)
                           ELSE UNCHANGED <<vars, sending>>
  /\ UNCHANGED <<replay, view, asked, greeted, faulty>>

Int32 == -(INT32_MAX + 1) .. INT32_MAX

\* a / b in C++, which cuts off the fraction.
quotient(a, b) == IF a >= 0 THEN a \div b ELSE -((-a) \div b)

\* The conversion to int32_t, modulo 2^32.
to_int32(n) == ((n + (INT32_MAX + 1)) % (2 * (INT32_MAX + 1))) - (INT32_MAX + 1)

\* (Seeded fault: the number of milliseconds is rounded.)
sampling_period_ms_rounded(ns) == to_int32(quotient(ns + NS_PER_MS \div 2, NS_PER_MS))

\* (int32_t)(sampling_period_ns / 1000000)
sampling_period_ms(ns) == to_int32(quotient(ns, NS_PER_MS))

sensor_device_batch(handle, ns) ==
  /\ MutexFree
  /\ configure(handle, 1, sampling_period_ms(ns))
  /\ get_client(handle)
  /\ asked' = [asked EXCEPT ![handle] = ns]
  /\ UNCHANGED <<replay, view, greeted, faulty>>

sensor_device_set_delay(handle, ns) ==
  /\ MutexFree
  /\ configure(handle, 1, sampling_period_ms(ns))
  /\ get_client(handle)
  /\ asked' = [asked EXCEPT ![handle] = ns]
  /\ UNCHANGED <<replay, view, greeted, faulty>>

-----------------------------------------------------------------------------
\* Sending.

\* Client c receives the configuration of a handle; a message of type 0, from
\* a handle never configured, means nothing to it.
receive(c, handle) ==
  LET msg == m_sensor_config_status[handle]
  IN  view' = IF msg.sensor_type = "0" THEN view
              ELSE [view EXCEPT ![c][get_handle_from_type[msg.sensor_type]] = msg]

\* send_data delivers the message, if the peer is there; or it fails or times
\* out halfway, which the callers take for success.
deliver(c, handle) ==
  \/ /\ peer[c] = "open"
     /\ receive(c, handle)
     /\ UNCHANGED faulty
  \/ /\ faulty' = faulty \cup {c}
     /\ UNCHANGED view

\* The rest of sensor_device_send_config_msg, and the unlock.
send_config_msg ==
  /\ send_data
  /\ deliver(s_client, sending)
  /\ sending' = 0
  /\ UNCHANGED <<m_sensor_config_status, replay, asked, greeted>>

\* (Seeded fault: the last sensor is left out.)
replay_end_early == MAX_NUM_SENSORS - 1

\* for (int i = 0; i < MAX_NUM_SENSORS; i++)
replay_end == MAX_NUM_SENSORS

\* A round of the loop of client_connected_callback: m_mutex is locked and
\* the entry sent to the default client, which is not always the new one.
client_connected_callback ==
  /\ lis_pc = "callback"
  /\ replay < replay_end
  /\ MutexFree
  /\ deliver(m_pclient_, replay)
  /\ replay' = replay + 1
  /\ UNCHANGED <<vars, m_sensor_config_status, sending, asked, greeted>>

\* The callback returns.
callback_return ==
  /\ replay = replay_end
  /\ connected_callback
  /\ replay' = 0
  /\ greeted' = greeted \cup {m_pclient_}
  /\ UNCHANGED <<m_sensor_config_status, sending, view, asked, faulty>>

-----------------------------------------------------------------------------
\* The other steps of the server and its clients.  Messages of the clients have
\* nothing to do with the configuration and are left out.
server_step ==
  /\ \/ \E c \in Conns : connect(c) \/ disconnect(c)
     \/ no_new_connection
     \/ refuse_connection
     \/ accept_connection
     \/ sock_server_clients_readable
     \/ scan_nothing
     \/ scan_disconnect
     \/ forget_client
     \/ choose_default
  /\ UNCHANGED configVars

ConfigNext ==
  /\ broken = "no"
  /\ \/ \E h \in ConfigHandles :
          \/ \E enabled \in {0, 1} : sensor_device_activate(h, enabled)
          \/ \E ns \in Periods : sensor_device_batch(h, ns)
          \/ \E ns \in Periods : sensor_device_set_delay(h, ns)
     \/ send_config_msg
     \/ client_connected_callback
     \/ callback_return
     \/ server_step

ConfigSpec == ConfigInit /\ [][ConfigNext]_allVars

-----------------------------------------------------------------------------
\* Properties.

\* Type invariant of the configuration; an entry is of the sensor of its
\* handle: get_type_from_hanle, get_handle_from_type and the sensor list,
\* written out by hand in different orders, agree.
ConfigTypes ==
  /\ TypeOK
  /\ \A h \in Handles :
       LET msg == m_sensor_config_status[h]
       IN  /\ \/ msg.sensor_type = "0"
              \/ /\ get_handle_from_type[msg.sensor_type] = h
                 /\ sensor_t(h, msg.sensor_type) \in sSensorListInit
           /\ msg.enabled \in {0, 1}
           /\ msg.sample_period \in Int32
  /\ sending \in Handles
  /\ replay \in 0 .. MAX_NUM_SENSORS
  /\ greeted \subseteq Conns
  /\ faulty \subseteq Conns

\* The default client was told everything it should know about the handle:
\* it was the default client when the replay ended, no send to it failed, and
\* the entry is not on its way.
Informed(h) ==
  /\ m_pclient_ \in greeted \ faulty
  /\ ~(s_client # NULL /\ sending = h)

\* A sensor that the framework has deactivated, or never activated, is off at
\* an informed default client, whatever calls, connections and replays came
\* in between.
DisabledIsKnown ==
  \A h \in Handles :
    Informed(h) /\ m_sensor_config_status[h].enabled = 0
      => view[m_pclient_][h].enabled = 0

\* An informed default client knows the sampling period of every sensor.
PeriodIsKnown ==
  \A h \in Handles :
    Informed(h) => view[m_pclient_][h].sample_period
                     = m_sensor_config_status[h].sample_period

\* The number of milliseconds fits an int32_t.
Fits(ns) == ns >= 0 /\ ns \div NS_PER_MS =< INT32_MAX

\* An informed default client samples at least as often as the framework has
\* asked for last, and its period is less than a millisecond shorter, through
\* both conversions, through activations in between and through the replay; if
\* the number of milliseconds asked for does not fit an int32_t, it may hold
\* any period.
RequestIsKnown ==
  \A h \in Handles :
    Informed(h) /\ Fits(asked[h]) =>
      LET sample_period == view[m_pclient_][h].sample_period
      IN  /\ sample_period * NS_PER_MS =< asked[h]
          /\ asked[h] < (sample_period + 1) * NS_PER_MS

-----------------------------------------------------------------------------
\* The inductive invariant behind the safety properties, next to that of
\* SockServer.

ConfigMsgs ==
  [sensor_type : {"0"} \cup SupportedTypes, enabled : {0, 1}, sample_period : Int32]

\* An entry is empty, here and at all clients, or is of its handle's sensor.
EntryInv ==
  /\ m_sensor_config_status \in [Handles -> ConfigMsgs]
  /\ view \in [Conns -> [Handles -> ConfigMsgs]]
  /\ \A h \in Handles :
       IF m_sensor_config_status[h].sensor_type = "0"
       THEN /\ m_sensor_config_status[h] = ZeroMsg
            /\ \A c \in Conns : view[c][h] = ZeroMsg
       ELSE m_sensor_config_status[h].sensor_type = get_type_from_hanle[h]

\* An entry keeps the period that was asked for last, converted.
AskedInv ==
  /\ asked \in [Handles -> Int]
  /\ \A h \in Handles :
       m_sensor_config_status[h].sample_period = sampling_period_ms(asked[h])

\* The replay runs in the callback only, which has a client to send to.
ReplayInv == IF lis_pc = "callback" THEN m_pclient_ # NULL ELSE replay = 0

\* A client that got the replay is the default client until it is closed.
GreetedInv == \A c \in greeted : c = m_pclient_ \/ peer[c] = "closed"

\* A HAL thread sends a configured entry, to the default client or to the one
\* that was closed meanwhile; then the new one is still to get the replay.
SenderInv ==
  s_client # NULL =>
    /\ s_client = m_pclient_ \/ (m_pclient_ \notin greeted /\ replay = 0)
    /\ m_sensor_config_status[sending].sensor_type # "0"

\* The default client has got the entry in its replay, no send to it has failed,
\* and the entry is not on its way.
Told(h) ==
  /\ m_pclient_ \notin faulty
  /\ m_pclient_ \in greeted \/ (lis_pc = "callback" /\ h < replay)
  /\ ~(s_client # NULL /\ sending = h)

Known(h) ==
  /\ m_sensor_config_status[h].enabled = 0 => view[m_pclient_][h].enabled = 0
  /\ view[m_pclient_][h].sample_period = m_sensor_config_status[h].sample_period

KnownInv == \A h \in Handles : Told(h) => Known(h)

ConfigInv ==
  /\ ConfigTypes /\ EntryInv /\ AskedInv
  /\ ReplayInv /\ GreetedInv /\ SenderInv /\ KnownInv

=============================================================================
