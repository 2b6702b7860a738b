------------------------------ MODULE EventTime ------------------------------
(***************************************************************************)
(* The timestamps of sensor events, at the end of                          *)
(* sensor_device_poll_event_locked.  A client stamps a message with its    *)
(* own clock when it takes the sample; the HAL shifts the stamp to its     *)
(* clock by an offset that the first event of all determines, and never    *)
(* lets it lie in the future.                                              *)
(*                                                                         *)
(* A message takes any time to the HAL: only the messages of one client    *)
(* arrive in the order of their samples (see EventFraming).  Between the   *)
(* listener and the poll thread they are a queue that may lose its oldest  *)
(* element (see SensorDevice).                                             *)
(***************************************************************************)
EXTENDS Integers, Sequences

CONSTANTS
  Clients,
  Skew,      \* client -> its clock minus the HAL's
  BOOT_TIME, \* now_ns() when the HAL starts
  MaxTime,   \* bound: the HAL's clock
  MaxQueue   \* bound: messages that have arrived

ASSUME TimeAssumption ==
  /\ Clients # {}
  /\ Skew \in [Clients -> Int]
  /\ BOOT_TIME \in Nat \ {0}
  /\ MaxTime \in Nat
  /\ MaxQueue \in Nat

VARIABLES
  now,            \* the HAL's clock, CLOCK_BOOTTIME
  queue,          \* messages: client and time of the sample by the HAL's clock
  m_time_start,
  m_time_offset,
  timestamp       \* client -> the stamp of its event stored last

\* History, for the properties only.
VARIABLES
  sampled,        \* client -> time of the sample it sent last
  seen, first,    \* the clients an event of which was stored, and the first one
  sample, stored  \* client -> time of the sample of its event stored last, and
                  \* the time at which it was stored

histVars == <<seen, first, sample, stored>>
timeVars == <<m_time_start, m_time_offset, timestamp>>
vars == <<now, queue, sampled, timeVars, histVars>>

\* SensorDevice::SensorDevice; nothing has been stored yet.
Init ==
  /\ now = BOOT_TIME
  /\ queue = <<>>
  /\ m_time_start = 0
  /\ m_time_offset = 0
  /\ sampled = [c \in Clients |-> 0]
  /\ timestamp = [c \in Clients |-> 0]
  /\ seen = {}
  /\ first \in Clients
  /\ sample = [c \in Clients |-> 0]
  /\ stored = [c \in Clients |-> 0]

tick ==
  /\ now < MaxTime
  /\ now' = now + 1
  /\ UNCHANGED <<queue, sampled, timeVars, histVars>>

\* A message of c arrives, with a sample taken at time t.
send_event(c, t) ==
  /\ Len(queue) < MaxQueue
  /\ t \in sampled[c] .. now
  /\ sampled' = [sampled EXCEPT ![c] = t]
  /\ queue' = Append(queue, [client |-> c, sample |-> t])
  /\ UNCHANGED <<now, timeVars, histVars>>

drop_oldest ==
  /\ queue # <<>>
  /\ queue' = Tail(queue)
  /\ UNCHANGED <<now, sampled, timeVars, histVars>>

\* (Seeded faults: no comparison; the event is put back to the start time.)
not_in_future_unchecked(remote_timestamp, host_timestamp) == remote_timestamp
not_in_future_start(remote_timestamp, host_timestamp) ==
  IF remote_timestamp > host_timestamp THEN m_time_start ELSE remote_timestamp

\* if (remote_timestamp > host_timestamp) remote_timestamp = host_timestamp;
not_in_future(remote_timestamp, host_timestamp) ==
  IF remote_timestamp > host_timestamp THEN host_timestamp ELSE remote_timestamp

\* m_time_start after an event.
TimeStart(remote_timestamp, host_timestamp) ==
  IF m_time_start = 0 THEN host_timestamp ELSE m_time_start

\* The last part of sensor_device_poll_event_locked, for the next message.
store_timestamp ==
  /\ queue # <<>>
  /\ queue' = Tail(queue)
  /\ LET msg == Head(queue)
         remote_timestamp == msg.sample + Skew[msg.client]
     IN  /\ m_time_start' = TimeStart(remote_timestamp, now)
         /\ m_time_offset' = IF m_time_start = 0 THEN now - remote_timestamp
                                                 ELSE m_time_offset
         /\ timestamp' = [timestamp EXCEPT ![msg.client] =
                            not_in_future(remote_timestamp + m_time_offset', now)]
         /\ seen' = seen \cup {msg.client}
         /\ first' = IF m_time_start = 0 THEN msg.client ELSE first
         /\ sample' = [sample EXCEPT ![msg.client] = msg.sample]
         /\ stored' = [stored EXCEPT ![msg.client] = now]
  /\ UNCHANGED <<now, sampled>>

Next ==
  \/ tick
  \/ \E c \in Clients : \E t \in 0 .. now : send_event(c, t)
  \/ drop_oldest
  \/ store_timestamp

Spec == Init /\ [][Next]_vars

-----------------------------------------------------------------------------
\* Properties.

Messages == [client : Clients, sample : Nat]

\* Type invariant of the time computation.
TypeOK ==
  /\ now \in Nat
  /\ queue \in Seq(Messages)
  /\ m_time_start \in Nat
  /\ m_time_offset \in Int
  /\ timestamp \in [Clients -> Int]
  /\ sampled \in [Clients -> Nat]
  /\ seen \subseteq Clients
  /\ first \in Clients
  /\ sample \in [Clients -> Nat]
  /\ stored \in [Clients -> Nat]

\* An event is never stamped later than it was stored ("we don't believe in
\* events from the future anyway"), and for the client that fixed the offset
\* never earlier than its sample was taken, however long messages take.
TimestampIsPlausible ==
  \A c \in seen : /\ timestamp[c] =< stored[c]
                  /\ c = first => timestamp[c] >= sample[c]

\* Timestamps of one client's events never run backwards, even if events of
\* clients with other clocks come in between, one of which fixed the offset:
\* all are shifted by the same offset, which is never computed again, and a
\* stamp that was clamped to the time of storing is not overtaken.
ClientTimeIsMonotone ==
  [][\A c \in seen : timestamp'[c] >= timestamp[c]]_vars

-----------------------------------------------------------------------------
\* The inductive invariant.

\* The messages of each client wait in the order of their samples.
QueueInv ==
  /\ \A i \in 1 .. Len(queue) : /\ sample[queue[i].client] =< queue[i].sample
                                /\ queue[i].sample =< sampled[queue[i].client]
  /\ \A i, j \in 1 .. Len(queue) :
       i < j /\ queue[i].client = queue[j].client => queue[i].sample =< queue[j].sample
  /\ \A c \in Clients : sample[c] =< sampled[c] /\ sampled[c] =< now

\* The delay of the first event, by which the first client's stamps are late.
OffsetInv ==
  /\ now > 0
  /\ m_time_start = 0 => seen = {}
  /\ m_time_start # 0 => m_time_offset + Skew[first] >= 0
  /\ \A c \in seen :
       /\ timestamp[c] = not_in_future(sample[c] + Skew[c] + m_time_offset, stored[c])
       /\ sample[c] =< stored[c]
       /\ stored[c] =< now

IInv == TypeOK /\ QueueInv /\ OffsetInv
=============================================================================
