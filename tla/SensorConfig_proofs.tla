------------------------- MODULE SensorConfig_proofs -------------------------
(***************************************************************************)
(* Proofs about the configuration path, over the connection management     *)
(* that it is composed with: for any connections, table lengths, handles   *)
(* and periods.                                                            *)
(***************************************************************************)
EXTENDS SensorConfig, SockServer_proofs

-----------------------------------------------------------------------------
\* The sensor tables and the entries made from them.

\* The two switch statements and the sensor list agree on every handle.
LEMMA SensorTablesAgree ==
  ASSUME NEW h \in Handles
  PROVE  /\ get_type_from_hanle[h] \in SupportedTypes
         /\ get_type_from_hanle[h] # "0"
         /\ get_handle_from_type[get_type_from_hanle[h]] = h
         /\ sensor_t(h, get_type_from_hanle[h]) \in sSensorListInit
<1>1. h \in {0, 1, 2, 3, 4, 5, 6, 7, 8}
  BY DEF Handles, MAX_NUM_SENSORS
<1>2. get_type_from_hanle[h] =
        << "ACCELEROMETER", "GYROSCOPE", "MAGNETIC_FIELD",
           "ACCELEROMETER_UNCALIBRATED", "GYROSCOPE_UNCALIBRATED",
           "MAGNETIC_FIELD_UNCALIBRATED", "LIGHT", "PROXIMITY",
           "AMBIENT_TEMPERATURE" >>[h + 1]
  BY DEF get_type_from_hanle
<1>3. /\ h = 0 => get_type_from_hanle[h] = "ACCELEROMETER"
      /\ h = 1 => get_type_from_hanle[h] = "GYROSCOPE"
      /\ h = 2 => get_type_from_hanle[h] = "MAGNETIC_FIELD"
      /\ h = 3 => get_type_from_hanle[h] = "ACCELEROMETER_UNCALIBRATED"
      /\ h = 4 => get_type_from_hanle[h] = "GYROSCOPE_UNCALIBRATED"
      /\ h = 5 => get_type_from_hanle[h] = "MAGNETIC_FIELD_UNCALIBRATED"
      /\ h = 6 => get_type_from_hanle[h] = "LIGHT"
      /\ h = 7 => get_type_from_hanle[h] = "PROXIMITY"
      /\ h = 8 => get_type_from_hanle[h] = "AMBIENT_TEMPERATURE"
  BY <1>2
<1>4. sensor_t(h, get_type_from_hanle[h]) \in sSensorListInit
  BY <1>1, <1>3 DEF sSensorListInit, ID_MAGNETIC_FIELD, ID_MAGNETIC_FIELD_UNCALIBRATED
<1>5. get_type_from_hanle[h] \in SupportedTypes
  BY <1>1, <1>3 DEF SupportedTypes, get_handle_from_type
<1>6. get_handle_from_type[get_type_from_hanle[h]] = h
  BY <1>1, <1>3 DEF get_handle_from_type, ID_MAGNETIC_FIELD, ID_MAGNETIC_FIELD_UNCALIBRATED
<1>7. get_type_from_hanle[h] # "0"
  BY <1>1, <1>3
<1> QED
  BY <1>4, <1>5, <1>6, <1>7

LEMMA Constants ==
  /\ NS_PER_MS \in Nat /\ NS_PER_MS > 0 /\ INT32_MAX \in Nat /\ 0 \in Int32
BY ConfigAssumption DEF Int32

\* Division of natural numbers, and the residue of a number that is one.
LEMMA Division ==
  ASSUME NEW a \in Nat, NEW b \in Nat, b > 0
  PROVE  /\ a \div b \in Nat /\ (a \div b) * b =< a /\ a < ((a \div b) + 1) * b
         /\ a < b => a \div b = 0
OBVIOUS

LEMMA Residue ==
  ASSUME NEW a \in Int, NEW b \in Nat, b > 0
  PROVE  /\ a % b \in 0 .. b - 1
         /\ a \in 0 .. b - 1 => a % b = a
OBVIOUS

\* The conversion to int32_t yields one, and keeps the numbers that fit.
LEMMA Conversion ==
  ASSUME NEW n \in Int
  PROVE  /\ to_int32(n) \in Int32
         /\ n \in Int32 => to_int32(n) = n
<1> DEFINE h == INT32_MAX + 1
           b == 2 * h
           r == (n + h) % b
<1>1. h \in Nat /\ h > 0 /\ b \in Nat /\ b > 0 /\ n + h \in Int
  BY Constants
<1>2. r \in 0 .. b - 1 /\ (n + h \in 0 .. b - 1 => r = n + h)
  BY <1>1, Residue
<1>3. to_int32(n) = r - h /\ Int32 = -h .. INT32_MAX
  BY DEF to_int32, Int32
<1> HIDE DEF r
<1> QED
  BY <1>1, <1>2, <1>3, Constants

\* A period in milliseconds is an int32_t; if the period asked for fits, it is
\* less than a millisecond shorter.
LEMMA Period ==
  ASSUME NEW ns \in Int
  PROVE  /\ sampling_period_ms(ns) \in Int32
         /\ Fits(ns) => /\ sampling_period_ms(ns) * NS_PER_MS =< ns
                        /\ ns < (sampling_period_ms(ns) + 1) * NS_PER_MS
<1> DEFINE q == quotient(ns, NS_PER_MS)
<1>1. q \in Int
  <2>1. CASE ns >= 0
    BY <2>1, Constants, Division DEF quotient
  <2>2. CASE ~(ns >= 0)
    <3>1. -ns \in Nat
      BY <2>2
    <3>2. (-ns) \div NS_PER_MS \in Nat
      BY <3>1, Constants, Division
    <3> QED
      BY <2>2, <3>2 DEF quotient
  <2> QED
    BY <2>1, <2>2
<1>2. sampling_period_ms(ns) \in Int32
  BY <1>1, Conversion DEF sampling_period_ms
<1>3. ASSUME Fits(ns)
      PROVE  /\ sampling_period_ms(ns) * NS_PER_MS =< ns
             /\ ns < (sampling_period_ms(ns) + 1) * NS_PER_MS
  <2>1. ns \in Nat /\ q = ns \div NS_PER_MS /\ q =< INT32_MAX
    BY <1>3 DEF Fits, quotient
  <2>2. q \in Nat /\ q * NS_PER_MS =< ns /\ ns < (q + 1) * NS_PER_MS
    BY <2>1, Constants, Division
  <2>3. q \in Int32
    BY <2>1, <2>2, Constants DEF Int32
  <2>4. sampling_period_ms(ns) = q
    BY <1>1, <2>3, Conversion DEF sampling_period_ms
  <2> QED
    BY <2>2, <2>4
<1> QED
  BY <1>2, <1>3

\* No period asked for is a period of 0.
LEMMA NoPeriod == sampling_period_ms(0) = 0
<1>1. quotient(0, NS_PER_MS) = 0
  BY Constants, Division DEF quotient
<1> QED
  BY <1>1, Constants, Conversion DEF sampling_period_ms

\* The entry that configure writes.
Entry(h, enabled, sample_period) ==
  [sensor_type |-> get_type_from_hanle[h], enabled |-> enabled, sample_period |-> sample_period]

\* The sensor of an entry is that of its handle, through both conversions.
LEMMA EntryTypes ==
  ASSUME NEW h \in Handles, NEW msg \in ConfigMsgs,
         msg.sensor_type = "0" \/ msg.sensor_type = get_type_from_hanle[h]
  PROVE  /\ \/ msg.sensor_type = "0"
            \/ /\ get_handle_from_type[msg.sensor_type] = h
               /\ sensor_t(h, msg.sensor_type) \in sSensorListInit
         /\ msg.enabled \in {0, 1}
         /\ msg.sample_period \in Int32
BY SensorTablesAgree DEF ConfigMsgs

-----------------------------------------------------------------------------
\* The server within the composition.

\* What the configuration path does is a step of SockServer or none.
LEMMA ServerStep ==
  ASSUME [ConfigNext]_allVars
  PROVE  [Next]_vars
<1>1. CASE UNCHANGED allVars
  BY <1>1 DEF allVars
<1>2. CASE ConfigNext
  <2>1. broken = "no"
    BY <1>2 DEF ConfigNext
  <2>2. ASSUME NEW h, get_client(h) PROVE [Next]_vars
    BY <2>1, <2>2 DEF get_client, Next
  <2>3. ASSUME NEW h \in ConfigHandles, NEW enabled \in {0, 1},
               sensor_device_activate(h, enabled)
        PROVE  [Next]_vars
    BY <2>2, <2>3 DEF sensor_device_activate
  <2>4. ASSUME NEW h \in ConfigHandles, NEW ns \in Periods,
               sensor_device_batch(h, ns) \/ sensor_device_set_delay(h, ns)
        PROVE  [Next]_vars
    BY <2>2, <2>4 DEF sensor_device_batch, sensor_device_set_delay
  <2>5. CASE send_config_msg
    BY <2>1, <2>5 DEF send_config_msg, Next
  <2>6. CASE client_connected_callback
    BY <2>6 DEF client_connected_callback
  <2>7. CASE callback_return
    BY <2>1, <2>7 DEF callback_return, Next, Listener, ListenerStep
  <2>8. CASE server_step
    BY <2>1, <2>8 DEF server_step, Next, Listener, ListenerStep
  <2> QED
    BY <1>2, <2>3, <2>4, <2>5, <2>6, <2>7, <2>8 DEF ConfigNext
<1> QED
  BY <1>1, <1>2

\* The configuration path implements SockServer: all that is proved of the
\* connection management holds while the framework configures sensors and the
\* listener replays the configuration.
THEOREM ConfigImplementsServer == ConfigSpec => Spec
<1>1. ConfigInit => Init
  BY DEF ConfigInit
<1> QED
  BY <1>1, ServerStep, PTL DEF ConfigSpec, Spec

\* The default client changes only to one that has not got the replay, and
\* only outside of the callback that replays.
LEMMA DefaultChange ==
  ASSUME IInv, TypeOK', ConfigInv, broken = "no", server_step
  PROVE  /\ m_pclient_' = m_pclient_ \/ (m_pclient_' \notin greeted /\ lis_pc # "callback")
         /\ lis_pc = "callback" <=> (lis_pc' = "callback" /\ ~accept_connection)
         /\ lis_pc' = "callback" => m_pclient_' # NULL
         /\ \A c \in greeted : c = m_pclient_' \/ peer'[c] = "closed"
         /\ s_client' = s_client
<1>1. /\ NetInv /\ ScanInv /\ TypeOK /\ greeted \subseteq Conns /\ NULL \notin Conns
      /\ \A c \in greeted : c = m_pclient_ \/ peer[c] = "closed"
      /\ lis_pc = "callback" => m_pclient_ # NULL
  BY ServerAssumption DEF IInv, ConfigInv, ConfigTypes, GreetedInv, ReplayInv
<1>2. CASE \E c \in Conns : connect(c) \/ disconnect(c)
  <2>1. PICK c \in Conns : connect(c) \/ disconnect(c)
    BY <1>2
  <2>2. /\ UNCHANGED <<srvVars, lisVars, userVars>> /\ ~accept_connection
        /\ \A d \in Conns : d # c => peer'[d] = peer[d]
        /\ peer[c] # "closed"
    BY <2>1, <1>1 DEF connect, disconnect, accept_connection, TypeOK, lisVars
  <2> QED
    BY <1>1, <2>2 DEF srvVars, lisVars, userVars
<1>3. CASE no_new_connection \/ sock_server_clients_readable \/ scan_nothing
  BY <1>1, <1>3 DEF no_new_connection, sock_server_clients_readable, scan_nothing, Scanning,
                    accept_connection, netVars, srvVars, userVars
<1>4. CASE refuse_connection
  <2>1. /\ peer' = [peer EXCEPT ![Head(backlog)] = "closed"]
        /\ UNCHANGED <<m_pclient_, s_client>> /\ lis_pc = "newconn" /\ lis_pc' = "select"
    BY <1>4 DEF refuse_connection, srvVars, userVars
  <2>2. \A c \in Conns : peer[c] = "closed" => peer'[c] = "closed"
    BY <1>1, <2>1 DEF TypeOK
  <2> QED
    BY <1>1, <2>1, <2>2
<1>5. CASE accept_connection
  <2> DEFINE c == Head(backlog)
  <2>1. /\ lis_pc = "newconn" /\ lis_pc' = "callback" /\ m_pclient_' = DefaultAfterAccept(c)
        /\ UNCHANGED <<peer, s_client>>
    BY <1>5 DEF accept_connection
  <2>2. c \in Conns /\ peer[c] \in {"open", "shut"}
    <3>1. backlog # <<>> /\ backlog \in Seq(Conns)
      BY <1>1, <1>5 DEF accept_connection, TypeOK
    <3>2. Len(backlog) \in Nat /\ 1 \in 1 .. Len(backlog) /\ c = backlog[1] /\ c \in Conns
      BY <3>1
    <3> QED
      BY <1>1, <3>2 DEF NetInv
  <2>3. m_pclient_ = NULL => c \notin greeted
    BY <1>1, <2>2
  <2> QED
    BY <1>1, <1>5, <2>1, <2>2, <2>3 DEF DefaultAfterAccept
<1>6. CASE scan_disconnect
  <2>1. /\ peer' = [peer EXCEPT ![m_clients[scan]] = "closed"]
        /\ UNCHANGED <<m_pclient_, s_client>> /\ lis_pc = "scan" /\ lis_pc' = "closed"
    BY <1>6 DEF scan_disconnect, Scanning, sock_server_close_client, userVars
  <2>2. \A c \in Conns : peer[c] = "closed" => peer'[c] = "closed"
    BY <1>1, <2>1 DEF TypeOK
  <2> QED
    BY <1>1, <2>1, <2>2
<1>7. CASE forget_client
  <2>1. /\ lis_pc = "closed" /\ lis_pc' \in {"newconn", "scan"}
        /\ m_pclient_' = DefaultAfterClose(m_clients[scan])
        /\ UNCHANGED <<peer, s_client>>
    BY <1>7 DEF forget_client, netVars, userVars
  <2>2. peer[m_clients[scan]] = "closed"
    BY <1>1, <2>1 DEF NetInv, ScanInv
  <2> QED
    BY <1>1, <2>1, <2>2 DEF DefaultAfterClose
<1>8. CASE choose_default
  <2>1. /\ lis_pc = "scan" /\ lis_pc' = "newconn" /\ UNCHANGED <<peer, s_client>>
        /\ NewDefault(m_pclient_')
    BY <1>8 DEF choose_default, netVars, userVars
  <2>2. CASE m_pclient_' = m_pclient_
    BY <1>1, <2>1, <2>2
  <2>3. CASE m_pclient_' # m_pclient_
    <3>1. m_pclient_ = NULL /\ \E i \in Indices : m_clients[i] # NULL /\ m_pclient_' = m_clients[i]
      BY <2>1, <2>3 DEF NewDefault
    <3>2. peer[m_pclient_'] \in {"open", "shut"}
      BY <1>1, <2>1, <3>1 DEF NetInv
    <3> QED
      BY <1>1, <2>1, <3>1, <3>2
  <2> QED
    BY <2>2, <2>3
<1> QED
  BY <1>2, <1>3, <1>4, <1>5, <1>6, <1>7, <1>8 DEF server_step

-----------------------------------------------------------------------------
\* Steps of the configuration path.

\* The type invariant follows from its parts.
LEMMA TypesOfParts ==
  ASSUME TypeOK', EntryInv', sending' \in Handles, replay' \in 0 .. MAX_NUM_SENSORS,
         greeted' \subseteq Conns, faulty' \subseteq Conns
  PROVE  ConfigTypes'
<1>1. ASSUME NEW h \in Handles
      PROVE  LET msg == m_sensor_config_status'[h]
             IN  /\ \/ msg.sensor_type = "0"
                    \/ /\ get_handle_from_type[msg.sensor_type] = h
                       /\ sensor_t(h, msg.sensor_type) \in sSensorListInit
                 /\ msg.enabled \in {0, 1}
                 /\ msg.sample_period \in Int32
  <2>1. /\ m_sensor_config_status'[h] \in ConfigMsgs
        /\ m_sensor_config_status'[h].sensor_type \in {"0", get_type_from_hanle[h]}
    BY <1>1 DEF EntryInv
  <2> QED
    BY <1>1, <2>1, EntryTypes
<1> QED
  BY <1>1 DEF ConfigTypes

\* Nothing was asked for.
LEMMA SameAsked ==
  ASSUME AskedInv, UNCHANGED <<m_sensor_config_status, asked>>
  PROVE  AskedInv'
BY DEF AskedInv, sampling_period_ms, quotient, to_int32

\* activate, batch and set_delay: an entry is written, and is on its way to the
\* default client if that has to know.
LEMMA ConfigureStep ==
  ASSUME ConfigInv, TypeOK', MutexFree,
         NEW h \in Handles, NEW enabled \in {0, 1}, NEW p \in Int32, NEW ns \in Int,
         configure(h, enabled, p), UNCHANGED <<replay, view, greeted, faulty>>,
         asked' = [asked EXCEPT ![h] = ns], p = sampling_period_ms(ns),
         \/ get_client(h)
         \/ /\ UNCHANGED <<vars, sending>>
            /\ enabled = 1 /\ p = m_sensor_config_status[h].sample_period
  PROVE  ConfigInv'
<1>1. /\ m_sensor_config_status' = [m_sensor_config_status EXCEPT ![h] = Entry(h, enabled, p)]
      /\ m_sensor_config_status \in [Handles -> ConfigMsgs]
      /\ Entry(h, enabled, p) \in ConfigMsgs
  <2>1. m_sensor_config_status' = [m_sensor_config_status EXCEPT ![h] = Entry(h, enabled, p)]
    BY DEF configure, Entry
  <2>2. m_sensor_config_status \in [Handles -> ConfigMsgs]
    BY DEF ConfigInv, EntryInv
  <2>3. Entry(h, enabled, p) \in ConfigMsgs
    BY SensorTablesAgree DEF Entry, ConfigMsgs
  <2> QED
    BY <2>1, <2>2, <2>3
<1>2. /\ m_sensor_config_status'[h] = Entry(h, enabled, p)
      /\ \A g \in Handles \ {h} : m_sensor_config_status'[g] = m_sensor_config_status[g]
      /\ m_sensor_config_status' \in [Handles -> ConfigMsgs]
  BY <1>1
<1>3. UNCHANGED <<peer, m_pclient_, lis_pc>>
  BY DEF get_client, get_sock_client, vars, netVars, srvVars, lisVars
<1>4. \/ s_client' = NULL /\ sending' = sending /\ m_pclient_ = NULL
      \/ s_client' = m_pclient_ /\ sending' = h
      \/ /\ s_client' = NULL /\ sending' = sending
         /\ enabled = 1 /\ p = m_sensor_config_status[h].sample_period
  BY DEF get_client, get_sock_client, vars, userVars, MutexFree
<1>5. EntryInv'
  <2>1. Entry(h, enabled, p).sensor_type = get_type_from_hanle[h] /\ get_type_from_hanle[h] # "0"
    BY SensorTablesAgree DEF Entry
  <2>2. ASSUME NEW g \in Handles
        PROVE  IF m_sensor_config_status'[g].sensor_type = "0"
               THEN /\ m_sensor_config_status'[g] = ZeroMsg
                    /\ \A c \in Conns : view[c][g] = ZeroMsg
               ELSE m_sensor_config_status'[g].sensor_type = get_type_from_hanle[g]
    <3>1. CASE g = h
      BY <1>1, <1>2, <2>1, <3>1
    <3>2. CASE g # h
      BY <1>2, <3>2 DEF ConfigInv, EntryInv
    <3> QED
      BY <3>1, <3>2
  <2> QED
    BY <1>2, <2>2 DEF ConfigInv, EntryInv
<1>6. ConfigTypes'
  BY <1>4, <1>5, TypesOfParts DEF ConfigInv, ConfigTypes
<1>7. ReplayInv' /\ GreetedInv'
  BY <1>3 DEF ConfigInv, ReplayInv, GreetedInv
<1>8. SenderInv'
  <2>1. m_sensor_config_status'[h].sensor_type # "0"
    BY <1>2, SensorTablesAgree DEF Entry
  <2> QED
    BY <1>3, <1>4, <2>1 DEF SenderInv
<1>9. KnownInv'
  <2> SUFFICES ASSUME NEW g \in Handles, Told(g)' PROVE Known(g)'
    BY DEF KnownInv
  <2>1. m_pclient_ # NULL
    <3>1. greeted \subseteq Conns /\ NULL \notin Conns
      BY ServerAssumption DEF ConfigInv, ConfigTypes
    <3> QED
      BY <1>3, <3>1 DEF Told, ConfigInv, ReplayInv
  <2>2. Told(g)
    BY <1>3 DEF Told, MutexFree
  <2>3. Known(g)
    BY <2>2 DEF ConfigInv, KnownInv
  <2>4. CASE g # h
    BY <1>2, <1>3, <2>3, <2>4 DEF Known
  <2>5. CASE g = h
    <3>1. enabled = 1 /\ p = m_sensor_config_status[h].sample_period
      BY <1>4, <2>1, <2>5 DEF Told
    <3>2. /\ m_sensor_config_status'[h].enabled = 1
          /\ m_sensor_config_status'[h].sample_period = m_sensor_config_status[h].sample_period
      BY <1>2, <3>1 DEF Entry
    <3> QED
      BY <1>3, <2>3, <2>5, <3>2 DEF Known
  <2> QED
    BY <2>4, <2>5
<1>10. AskedInv'
  <2>1. /\ asked \in [Handles -> Int]
        /\ \A g \in Handles :
             m_sensor_config_status[g].sample_period = sampling_period_ms(asked[g])
    BY DEF ConfigInv, AskedInv
  <2>2. Entry(h, enabled, p).sample_period = sampling_period_ms(ns)
    BY DEF Entry
  <2>3. ASSUME NEW g \in Handles
        PROVE  m_sensor_config_status'[g].sample_period = sampling_period_ms(asked'[g])
    <3>1. CASE g = h
      BY <1>2, <2>1, <2>2, <3>1
    <3>2. CASE g # h
      BY <1>2, <2>1, <3>2
    <3> QED
      BY <3>1, <3>2
  <2> QED
    BY <2>1, <2>3 DEF AskedInv, sampling_period_ms, quotient, to_int32
<1> QED
  BY <1>5, <1>6, <1>7, <1>8, <1>9, <1>10 DEF ConfigInv

\* deliver changes what client c holds of handle h, and nothing else; without a
\* failure c then holds the entry.
LEMMA DeliverStep ==
  ASSUME ConfigInv, NEW c \in Conns, NEW h \in Handles, deliver(c, h),
         UNCHANGED m_sensor_config_status
  PROVE  /\ EntryInv'
         /\ faulty \subseteq faulty' /\ faulty' \subseteq Conns
         /\ \A d \in Conns, g \in Handles : d # c \/ g # h => view'[d][g] = view[d][g]
         /\ c \notin faulty' => view'[c][h] = m_sensor_config_status[h]
<1> DEFINE msg == m_sensor_config_status[h]
<1>1. /\ EntryInv /\ faulty \subseteq Conns
      /\ view \in [Conns -> [Handles -> ConfigMsgs]] /\ msg \in ConfigMsgs
  BY DEF ConfigInv, ConfigTypes, EntryInv
<1>2. faulty \subseteq faulty' /\ faulty' \subseteq Conns
  BY <1>1 DEF deliver
<1>3. CASE view' = view /\ (c \notin faulty' => msg.sensor_type = "0")
  <2>1. c \notin faulty' => view'[c][h] = msg
    BY <1>1, <1>3 DEF EntryInv
  <2>2. EntryInv'
    BY <1>1, <1>3 DEF EntryInv
  <2> QED
    BY <1>2, <1>3, <2>1, <2>2
<1>4. CASE msg.sensor_type # "0" /\ receive(c, h)
  <2>1. msg.sensor_type = get_type_from_hanle[h] /\ get_handle_from_type[msg.sensor_type] = h
    BY <1>1, <1>4, SensorTablesAgree DEF EntryInv
  <2>2. view' = [view EXCEPT ![c][h] = msg]
    BY <1>4, <2>1 DEF receive
  <2>3. /\ view'[c][h] = msg
        /\ \A d \in Conns, g \in Handles : d # c \/ g # h => view'[d][g] = view[d][g]
        /\ view' \in [Conns -> [Handles -> ConfigMsgs]]
    BY <1>1, <2>2
  <2>4. EntryInv'
    <3>1. ASSUME NEW g \in Handles, m_sensor_config_status[g].sensor_type = "0", NEW d \in Conns
          PROVE  view'[d][g] = ZeroMsg
      BY <1>1, <1>4, <2>3, <3>1 DEF EntryInv
    <3> QED
      BY <1>1, <2>3, <3>1 DEF EntryInv
  <2> QED
    BY <1>2, <2>3, <2>4
<1> QED
  BY <1>3, <1>4 DEF deliver, receive

LEMMA SendStep ==
  ASSUME ConfigInv, TypeOK', send_config_msg
  PROVE  ConfigInv'
<1>1. /\ s_client # NULL /\ s_client' = NULL /\ UNCHANGED <<peer, m_pclient_, lis_pc>>
      /\ sending' = 0 /\ UNCHANGED <<m_sensor_config_status, replay, asked, greeted>>
      /\ deliver(s_client, sending)
  BY DEF send_config_msg, send_data, netVars, srvVars, lisVars
<1>2. s_client \in Conns /\ sending \in Handles /\ 0 \in Handles
  BY <1>1 DEF ConfigInv, ConfigTypes, TypeOK, Handles, MAX_NUM_SENSORS
<1>3. /\ EntryInv' /\ faulty \subseteq faulty' /\ faulty' \subseteq Conns
      /\ \A d \in Conns, g \in Handles : d # s_client \/ g # sending => view'[d][g] = view[d][g]
      /\ s_client \notin faulty' => view'[s_client][sending] = m_sensor_config_status[sending]
  BY <1>1, <1>2, DeliverStep
<1>4. ConfigTypes'
  BY <1>1, <1>2, <1>3, TypesOfParts DEF ConfigInv, ConfigTypes
<1>5. AskedInv' /\ ReplayInv' /\ GreetedInv' /\ SenderInv'
  BY <1>1, SameAsked DEF ConfigInv, ReplayInv, GreetedInv, SenderInv
<1>6. KnownInv'
  <2> SUFFICES ASSUME NEW g \in Handles, Told(g)' PROVE Known(g)'
    BY DEF KnownInv
  <2>1. m_pclient_ \in Conns
    <3>1. greeted \subseteq Conns /\ m_pclient_ \in Conns \cup {NULL}
      BY DEF ConfigInv, ConfigTypes, TypeOK
    <3> QED
      BY <1>1, <3>1 DEF Told, ConfigInv, ReplayInv
  <2>2. CASE g = sending
    <3>1. g \in Nat
      BY DEF Handles
    <3>2. m_pclient_ = s_client
      BY <1>1, <3>1 DEF Told, ConfigInv, SenderInv
    <3> QED
      BY <1>1, <1>3, <2>2, <3>2 DEF Told, Known
  <2>3. CASE g # sending
    <3>1. Told(g)
      BY <1>1, <1>3, <2>3 DEF Told
    <3> QED
      BY <1>1, <1>3, <2>1, <2>3, <3>1 DEF ConfigInv, KnownInv, Known
  <2> QED
    BY <2>2, <2>3
<1> QED
  BY <1>3, <1>4, <1>5, <1>6 DEF ConfigInv

LEMMA ReplayStep ==
  ASSUME ConfigInv, TypeOK', client_connected_callback
  PROVE  ConfigInv'
<1>1. /\ lis_pc = "callback" /\ replay < MAX_NUM_SENSORS /\ s_client = NULL
      /\ replay' = replay + 1 /\ deliver(m_pclient_, replay)
      /\ UNCHANGED <<peer, m_pclient_, lis_pc, s_client>>
      /\ UNCHANGED <<m_sensor_config_status, sending, asked, greeted>>
  BY DEF client_connected_callback, replay_end, MutexFree, vars, netVars, srvVars, lisVars, userVars
<1>2. m_pclient_ \in Conns /\ replay \in Handles /\ replay' \in 0 .. MAX_NUM_SENSORS
  <2>1. m_pclient_ \in Conns \cup {NULL} /\ m_pclient_ # NULL
    BY <1>1 DEF ConfigInv, ConfigTypes, TypeOK, ReplayInv
  <2>2. replay \in 0 .. MAX_NUM_SENSORS
    BY DEF ConfigInv, ConfigTypes
  <2>3. replay \in Handles /\ replay' \in 0 .. MAX_NUM_SENSORS
    BY <1>1, <2>2 DEF Handles, MAX_NUM_SENSORS
  <2> QED
    BY <2>1, <2>3
<1>3. /\ EntryInv' /\ faulty \subseteq faulty' /\ faulty' \subseteq Conns
      /\ \A d \in Conns, g \in Handles : d # m_pclient_ \/ g # replay => view'[d][g] = view[d][g]
      /\ m_pclient_ \notin faulty' => view'[m_pclient_][replay] = m_sensor_config_status[replay]
  BY <1>1, <1>2, DeliverStep
<1>4. ConfigTypes'
  BY <1>1, <1>2, <1>3, TypesOfParts DEF ConfigInv, ConfigTypes
<1>5. AskedInv' /\ ReplayInv' /\ GreetedInv' /\ SenderInv'
  BY <1>1, SameAsked DEF ConfigInv, ReplayInv, GreetedInv, SenderInv
<1>6. KnownInv'
  <2> SUFFICES ASSUME NEW g \in Handles, Told(g)' PROVE Known(g)'
    BY DEF KnownInv
  <2>1. CASE g = replay
    BY <1>1, <1>3, <2>1 DEF Told, Known
  <2>2. CASE g # replay
    <3>1. g < replay + 1 => g < replay
      BY <1>2, <2>2 DEF Handles
    <3>2. Told(g)
      BY <1>1, <1>3, <3>1 DEF Told
    <3> QED
      BY <1>1, <1>2, <1>3, <2>2, <3>2 DEF ConfigInv, KnownInv, Known
  <2> QED
    BY <2>1, <2>2
<1> QED
  BY <1>3, <1>4, <1>5, <1>6 DEF ConfigInv

LEMMA CallbackReturnStep ==
  ASSUME ConfigInv, TypeOK', callback_return
  PROVE  ConfigInv'
<1>1. /\ lis_pc = "callback" /\ lis_pc' = "select" /\ replay = MAX_NUM_SENSORS /\ replay' = 0
      /\ greeted' = greeted \cup {m_pclient_}
      /\ UNCHANGED <<peer, m_pclient_, s_client>>
      /\ UNCHANGED <<m_sensor_config_status, sending, view, asked, faulty>>
  BY DEF callback_return, replay_end, connected_callback, netVars, srvVars, userVars
<1>2. m_pclient_ \in Conns /\ 0 \in 0 .. MAX_NUM_SENSORS
  BY <1>1 DEF ConfigInv, ConfigTypes, TypeOK, ReplayInv, MAX_NUM_SENSORS
<1>3. EntryInv' /\ AskedInv'
  BY <1>1, SameAsked DEF ConfigInv, EntryInv
<1>4. ConfigTypes'
  BY <1>1, <1>2, <1>3, TypesOfParts DEF ConfigInv, ConfigTypes
<1>5. ReplayInv' /\ GreetedInv'
  BY <1>1 DEF ConfigInv, ReplayInv, GreetedInv
<1>6. SenderInv'
  BY <1>1 DEF ConfigInv, SenderInv, MAX_NUM_SENSORS
<1>7. KnownInv'
  <2> SUFFICES ASSUME NEW g \in Handles, Told(g)' PROVE Known(g)'
    BY DEF KnownInv
  <2>1. g < replay
    BY <1>1 DEF Handles, MAX_NUM_SENSORS
  <2>2. Told(g)
    BY <1>1, <2>1 DEF Told
  <2> QED
    BY <1>1, <2>2 DEF ConfigInv, KnownInv, Known
<1> QED
  BY <1>3, <1>4, <1>5, <1>6, <1>7 DEF ConfigInv

LEMMA ServerStepInv ==
  ASSUME IInv, TypeOK', ConfigInv, broken = "no", server_step
  PROVE  ConfigInv'
<1>1. UNCHANGED <<m_sensor_config_status, sending, replay, view, asked, greeted, faulty>>
  BY DEF server_step, configVars
<1>2. /\ m_pclient_' = m_pclient_ \/ (m_pclient_' \notin greeted /\ lis_pc # "callback")
      /\ lis_pc = "callback" <=> (lis_pc' = "callback" /\ ~accept_connection)
      /\ lis_pc' = "callback" => m_pclient_' # NULL
      /\ \A c \in greeted : c = m_pclient_' \/ peer'[c] = "closed"
      /\ s_client' = s_client
  BY DefaultChange
<1>3. lis_pc # "callback" => replay = 0
  BY DEF ConfigInv, ReplayInv
<1>4. EntryInv' /\ AskedInv'
  BY <1>1, SameAsked DEF ConfigInv, EntryInv
<1>5. ConfigTypes'
  BY <1>1, <1>4, TypesOfParts DEF ConfigInv, ConfigTypes
<1>6. ReplayInv' /\ GreetedInv'
  BY <1>1, <1>2, <1>3 DEF ReplayInv, GreetedInv
<1>7. SenderInv'
  BY <1>1, <1>2, <1>3 DEF ConfigInv, SenderInv
<1>8. KnownInv'
  <2> SUFFICES ASSUME NEW g \in Handles, Told(g)' PROVE Known(g)'
    BY DEF KnownInv
  <2>1. g \in Nat
    BY DEF Handles
  <2>2. m_pclient_' = m_pclient_ /\ Told(g)
    BY <1>1, <1>2, <1>3, <2>1 DEF Told
  <2> QED
    BY <1>1, <2>2 DEF ConfigInv, KnownInv, Known
<1> QED
  BY <1>4, <1>5, <1>6, <1>7, <1>8 DEF ConfigInv

-----------------------------------------------------------------------------
\* The inductive invariant and what it implies.

LEMMA ConfigInitInv == ConfigInit => ConfigInv
<1> SUFFICES ASSUME ConfigInit PROVE ConfigInv
  OBVIOUS
<1>1. TypeOK /\ s_client = NULL /\ lis_pc = "newconn"
  BY InitInv DEF ConfigInit, IInv, Init
<1>2. ZeroMsg \in ConfigMsgs /\ ZeroMsg.sensor_type = "0" /\ ZeroMsg.sample_period = 0
  BY Constants DEF ZeroMsg, ConfigMsgs
<1>3. EntryInv
  BY <1>2 DEF ConfigInit, EntryInv
<1>4. ConfigTypes
  BY <1>1, Constants DEF ConfigInit, ConfigTypes, ZeroMsg, Handles, MAX_NUM_SENSORS
<1>5. AskedInv
  BY <1>2, NoPeriod DEF ConfigInit, AskedInv
<1>6. ReplayInv /\ GreetedInv /\ SenderInv /\ KnownInv
  BY <1>1 DEF ConfigInit, ReplayInv, GreetedInv, SenderInv, KnownInv, Told
<1> QED
  BY <1>3, <1>4, <1>5, <1>6 DEF ConfigInv

LEMMA ConfigInvStep ==
  ASSUME IInv, IInv', ConfigInv, [ConfigNext]_allVars
  PROVE  ConfigInv'
<1>1. TypeOK' /\ AskedInv /\ ConfigHandles \subseteq Handles
  BY ConfigAssumption DEF IInv, ConfigInv
<1>2. CASE UNCHANGED allVars
  <2>1. AskedInv'
    BY <1>1, <1>2, SameAsked DEF allVars, configVars
  <2> QED
    BY <1>2, <2>1
    DEF allVars, configVars, vars, netVars, srvVars, lisVars, userVars, IInv, ConfigInv,
        ConfigTypes, TypeOK, EntryInv, ReplayInv, GreetedInv, SenderInv, KnownInv, Told, Known
<1>3. CASE ConfigNext
  <2>1. broken = "no"
    BY <1>3 DEF ConfigNext
  <2>2. ASSUME NEW h \in ConfigHandles, NEW enabled \in {0, 1},
               sensor_device_activate(h, enabled)
        PROVE  ConfigInv'
    <3> DEFINE p == m_sensor_config_status[h].sample_period
               ns == asked[h]
    <3>1. ns \in Int /\ asked' = [asked EXCEPT ![h] = ns]
      BY <1>1, <2>2 DEF sensor_device_activate, AskedInv
    <3>2. p = sampling_period_ms(ns) /\ p \in Int32
      BY <1>1, <3>1, Period DEF AskedInv
    <3>3. /\ MutexFree /\ configure(h, enabled, p) /\ UNCHANGED <<replay, view, greeted, faulty>>
          /\ h \in Handles
      BY <1>1, <2>2 DEF sensor_device_activate
    <3>4. \/ get_client(h)
          \/ /\ UNCHANGED <<vars, sending>>
             /\ enabled = 1 /\ p = m_sensor_config_status[h].sample_period
      BY <2>2 DEF sensor_device_activate, must_send
    <3> HIDE DEF p, ns
    <3> QED
      BY <1>1, <3>1, <3>2, <3>3, <3>4, ConfigureStep
  <2>3. ASSUME NEW h \in ConfigHandles, NEW ns \in Periods,
               sensor_device_batch(h, ns) \/ sensor_device_set_delay(h, ns)
        PROVE  ConfigInv'
    <3>1. ns \in Int /\ sampling_period_ms(ns) \in Int32
      BY ConfigAssumption, Period
    <3> QED
      BY <1>1, <2>3, <3>1, ConfigureStep DEF sensor_device_batch, sensor_device_set_delay
  <2> QED
    BY <1>1, <1>3, <2>1, <2>2, <2>3, SendStep, ReplayStep, CallbackReturnStep, ServerStepInv
    DEF ConfigNext
<1> QED
  BY <1>2, <1>3

\* ConfigInv is an invariant of the configuration path.
THEOREM ConfigInvariant == ConfigSpec => []ConfigInv
<1>1. ConfigSpec => []IInv
  BY ConfigImplementsServer, ServerInvariant, PTL
<1> QED
  BY <1>1, ConfigInitInv, ConfigInvStep, PTL DEF ConfigSpec

\* The configuration has its types, and every entry is of the sensor of its
\* handle: get_type_from_hanle and get_handle_from_type agree.
THEOREM ConfigTypeCorrect == ConfigSpec => []ConfigTypes
<1>1. ConfigInv => ConfigTypes
  BY DEF ConfigInv
<1> QED
  BY <1>1, ConfigInvariant, PTL

\* A sensor that is off is off at an informed default client: activate sends
\* a deactivation at once, and client_connected_callback repeats it.
THEOREM DisabledKnown == ConfigSpec => []DisabledIsKnown
<1>1. ConfigInv => DisabledIsKnown
  BY DEF ConfigInv, KnownInv, Told, Known, DisabledIsKnown, Informed
<1> QED
  BY <1>1, ConfigInvariant, PTL

\* An informed default client samples with the period that batch or set_delay
\* has set last.
THEOREM PeriodKnown == ConfigSpec => []PeriodIsKnown
<1>1. ConfigInv => PeriodIsKnown
  BY DEF ConfigInv, KnownInv, Told, Known, PeriodIsKnown, Informed
<1> QED
  BY <1>1, ConfigInvariant, PTL

\* An informed default client samples as often as was asked for last: what
\* batch or set_delay converts, and activate keeps, reaches it through sends
\* and replays, for any width of the integers.
THEOREM RequestKnown == ConfigSpec => []RequestIsKnown
<1>1. ASSUME ConfigInv PROVE RequestIsKnown
  <2> SUFFICES ASSUME NEW h \in Handles, Informed(h), Fits(asked[h])
               PROVE  LET sample_period == view[m_pclient_][h].sample_period
                      IN  /\ sample_period * NS_PER_MS =< asked[h]
                          /\ asked[h] < (sample_period + 1) * NS_PER_MS
    BY DEF RequestIsKnown
  <2>1. view[m_pclient_][h].sample_period = m_sensor_config_status[h].sample_period
    BY <1>1 DEF ConfigInv, KnownInv, Told, Known, Informed
  <2>2. /\ asked[h] \in Int
        /\ m_sensor_config_status[h].sample_period = sampling_period_ms(asked[h])
    BY <1>1 DEF ConfigInv, AskedInv
  <2> QED
    BY <2>1, <2>2, Period
<1> QED
  BY <1>1, ConfigInvariant, PTL

=============================================================================
