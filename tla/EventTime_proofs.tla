--------------------------- MODULE EventTime_proofs ---------------------------
(* Theorems about EventTime, for every set of clients and clocks.          *)
EXTENDS EventTime, SequenceTheorems, TLAPS

\* The first message leaves the queue: the others move up.
LEMMA HeadAndTail ==
  ASSUME TypeOK, queue # <<>>
  PROVE  /\ Head(queue) = queue[1] /\ Head(queue) \in Messages
         /\ 1 \in 1 .. Len(queue)
         /\ Tail(queue) \in Seq(Messages) /\ Len(Tail(queue)) = Len(queue) - 1
         /\ \A i \in 1 .. Len(Tail(queue)) :
              i + 1 \in 1 .. Len(queue) /\ Tail(queue)[i] = queue[i + 1]
BY HeadTailProperties, EmptySeq DEF TypeOK

\* The constructor establishes the inductive invariant.
LEMMA IInvInit == Init => IInv
<1> SUFFICES ASSUME Init PROVE IInv
  OBVIOUS
<1>1. queue \in Seq(Messages) /\ Len(queue) = 0
  BY EmptySeq DEF Init
<1>2. TypeOK
  BY <1>1, TimeAssumption DEF Init, TypeOK
<1> QED
  BY <1>1, <1>2, TimeAssumption DEF Init, IInv, QueueInv, OffsetInv

\* The clock and a full queue preserve the inductive invariant.
LEMMA OtherSteps ==
  ASSUME IInv, tick \/ drop_oldest \/ UNCHANGED vars
  PROVE  IInv'
<1> USE DEF IInv, histVars, timeVars
<1>1. CASE tick
  <2>1. TypeOK' /\ now' = now + 1 /\ now \in Nat
    BY <1>1 DEF tick, TypeOK
  <2>2. QueueInv'
    <3>1. UNCHANGED <<queue, sample, sampled>> /\ sampled \in [Clients -> Nat]
      BY <1>1 DEF tick, TypeOK
    <3> QED
      BY <2>1, <3>1 DEF QueueInv
  <2>3. OffsetInv'
    <3>1. /\ UNCHANGED <<seen, first, sample, stored, m_time_start, m_time_offset, timestamp>>
          /\ stored \in [Clients -> Nat] /\ seen \subseteq Clients
      BY <1>1 DEF tick, TypeOK
    <3> QED
      BY <2>1, <3>1 DEF OffsetInv, not_in_future
  <2> QED
    BY <2>1, <2>2, <2>3
<1>2. CASE drop_oldest
  <2>1. queue # <<>> /\ queue' = Tail(queue)
    BY <1>2 DEF drop_oldest
  <2>2. TypeOK'
    BY <1>2, <2>1, HeadAndTail DEF drop_oldest, TypeOK
  <2>3. QueueInv'
    BY <1>2, <2>1, HeadAndTail DEF drop_oldest, QueueInv, TypeOK
  <2>4. OffsetInv'
    BY <1>2 DEF drop_oldest, OffsetInv, not_in_future
  <2> QED
    BY <2>2, <2>3, <2>4
<1>3. CASE UNCHANGED vars
  BY <1>3 DEF vars, TypeOK, QueueInv, OffsetInv, not_in_future
<1> QED
  BY <1>1, <1>2, <1>3

\* The arrival of a message preserves the inductive invariant: its sample is
\* not older than those of the same client that wait already.
LEMMA SendStep ==
  ASSUME IInv, NEW c \in Clients, NEW t \in 0 .. now, send_event(c, t)
  PROVE  IInv'
<1> DEFINE msg == [client |-> c, sample |-> t]
<1> USE DEF IInv, histVars, timeVars
<1>1. /\ t \in Nat /\ now \in Nat /\ t =< now /\ sampled[c] =< t
      /\ sampled' = [sampled EXCEPT ![c] = t]
      /\ queue' = Append(queue, msg)
      /\ UNCHANGED <<now, sample>>
  BY DEF send_event, TypeOK
<1>2. msg \in Messages /\ msg.sample = t /\ msg.client = c
  BY <1>1 DEF Messages
<1>3. /\ queue \in Seq(Messages) /\ queue' \in Seq(Messages) /\ Len(queue) \in Nat
      /\ Len(queue') = Len(queue) + 1
      /\ \A i \in 1 .. Len(queue) : queue'[i] = queue[i]
      /\ queue'[Len(queue) + 1] = msg
  BY <1>1, <1>2, AppendProperties DEF TypeOK
<1>4. TypeOK'
  BY <1>1, <1>3 DEF send_event, TypeOK
<1>5. /\ sampled \in [Clients -> Nat] /\ sample \in [Clients -> Nat]
      /\ \A d \in Clients : sampled[d] =< sampled'[d]
  BY <1>1 DEF TypeOK
<1>6. \A i \in 1 .. Len(queue) : queue[i].client \in Clients /\ queue[i].sample \in Nat
  <2>1. ASSUME NEW i \in 1 .. Len(queue) PROVE queue[i] \in Messages
    BY <1>3, <2>1, ElementOfSeq
  <2> QED
    BY <2>1 DEF Messages
<1>7. \A d \in Clients : sample[d] =< sampled'[d] /\ sampled'[d] =< now
  BY <1>1, <1>5 DEF QueueInv
<1>8. \A i \in 1 .. Len(queue') : /\ sample[queue'[i].client] =< queue'[i].sample
                                  /\ queue'[i].sample =< sampled'[queue'[i].client]
  <2> SUFFICES ASSUME NEW i \in 1 .. Len(queue')
               PROVE  /\ sample[queue'[i].client] =< queue'[i].sample
                      /\ queue'[i].sample =< sampled'[queue'[i].client]
    OBVIOUS
  <2>1. CASE i = Len(queue) + 1
    <3>1. sample[c] =< t /\ sampled'[c] = t
      BY <1>1, <1>5 DEF QueueInv
    <3> QED
      BY <1>1, <1>2, <1>3, <2>1, <3>1
  <2>2. CASE i # Len(queue) + 1
    <3>1. i \in 1 .. Len(queue) /\ queue'[i] = queue[i]
      BY <1>3, <2>2
    <3>2. sampled'[queue[i].client] \in Nat
      BY <1>1, <1>5, <1>6, <3>1
    <3> QED
      BY <1>5, <1>6, <3>1, <3>2 DEF QueueInv
  <2> QED
    BY <2>1, <2>2
<1>9. \A i, j \in 1 .. Len(queue') :
        i < j /\ queue'[i].client = queue'[j].client => queue'[i].sample =< queue'[j].sample
  <2> SUFFICES ASSUME NEW i \in 1 .. Len(queue'), NEW j \in 1 .. Len(queue'),
                      i < j, queue'[i].client = queue'[j].client
               PROVE  queue'[i].sample =< queue'[j].sample
    OBVIOUS
  <2>1. i \in 1 .. Len(queue) /\ queue'[i] = queue[i]
    BY <1>3
  <2>2. CASE j = Len(queue) + 1
    <3>1. queue'[j].sample = t /\ queue[i].client = c
      BY <1>2, <1>3, <2>1, <2>2
    <3>2. queue[i].sample =< sampled[c]
      BY <2>1, <3>1 DEF QueueInv
    <3> QED
      BY <1>1, <1>5, <1>6, <2>1, <3>1, <3>2
  <2>3. CASE j # Len(queue) + 1
    <3>1. j \in 1 .. Len(queue) /\ queue'[j] = queue[j]
      BY <1>3, <2>3
    <3> QED
      BY <2>1, <3>1 DEF QueueInv
  <2> QED
    BY <2>2, <2>3
<1>10. QueueInv'
  BY <1>1, <1>7, <1>8, <1>9 DEF QueueInv
<1>11. OffsetInv'
  BY DEF send_event, OffsetInv, not_in_future
<1> QED
  BY <1>4, <1>10, <1>11

\* The message stored next, and what storing it changes.
LEMMA Stored ==
  ASSUME IInv, store_timestamp
  PROVE  LET msg == Head(queue)
             remote == msg.sample + Skew[msg.client]
         IN  /\ msg.client \in Clients /\ msg.sample \in Nat /\ remote \in Int
             /\ sample[msg.client] =< msg.sample
             /\ msg.sample =< sampled[msg.client] /\ msg.sample =< now
             /\ m_time_start' = IF m_time_start = 0 THEN now ELSE m_time_start
             /\ m_time_offset' = IF m_time_start = 0 THEN now - remote ELSE m_time_offset
             /\ timestamp' = [timestamp EXCEPT ![msg.client] =
                                not_in_future(remote + m_time_offset', now)]
             /\ seen' = seen \cup {msg.client}
             /\ first' = IF m_time_start = 0 THEN msg.client ELSE first
             /\ sample' = [sample EXCEPT ![msg.client] = msg.sample]
             /\ stored' = [stored EXCEPT ![msg.client] = now]
             /\ UNCHANGED <<now, sampled>>
<1> DEFINE msg == Head(queue)
<1>1. queue # <<>>
  BY DEF store_timestamp
<1>2. msg = queue[1] /\ 1 \in 1 .. Len(queue) /\ msg \in Messages
  BY <1>1, HeadAndTail DEF IInv
<1>3. msg.client \in Clients /\ msg.sample \in Nat
  BY <1>2 DEF Messages
<1>4. sample[msg.client] =< msg.sample /\ msg.sample =< sampled[msg.client]
  BY <1>2 DEF IInv, QueueInv
<1>5. sampled[msg.client] \in Nat /\ now \in Nat /\ sampled[msg.client] =< now
  BY <1>3 DEF IInv, QueueInv, TypeOK
<1>6. Skew[msg.client] \in Int
  BY <1>3, TimeAssumption
<1> QED
  BY <1>3, <1>4, <1>5, <1>6 DEF store_timestamp, TimeStart

\* Storing an event preserves the inductive invariant.
LEMMA StoreStep == ASSUME IInv, store_timestamp PROVE IInv'
<1> DEFINE msg == Head(queue)
           c == msg.client
           remote == msg.sample + Skew[c]
<1> USE DEF IInv
<1>1. queue # <<>> /\ queue' = Tail(queue)
  BY DEF store_timestamp
<1>2. /\ c \in Clients /\ msg.sample \in Nat /\ remote \in Int
      /\ msg.sample =< sampled[c] /\ msg.sample =< now
      /\ UNCHANGED <<now, sampled>>
      /\ sample' = [sample EXCEPT ![c] = msg.sample]
      /\ stored' = [stored EXCEPT ![c] = now]
      /\ seen' = seen \cup {c}
  BY Stored
<1>3. /\ m_time_start' = IF m_time_start = 0 THEN now ELSE m_time_start
      /\ m_time_offset' = IF m_time_start = 0 THEN now - remote ELSE m_time_offset
      /\ timestamp' = [timestamp EXCEPT ![c] = not_in_future(remote + m_time_offset', now)]
      /\ first' = IF m_time_start = 0 THEN c ELSE first
  BY Stored
<1>4. /\ now \in Nat /\ m_time_start \in Nat /\ m_time_offset \in Int /\ now > 0
      /\ Skew[c] \in Int /\ Skew[first] \in Int
      /\ sample \in [Clients -> Nat] /\ stored \in [Clients -> Nat]
      /\ timestamp \in [Clients -> Int] /\ seen \subseteq Clients
  BY <1>2, TimeAssumption DEF TypeOK, OffsetInv
<1>5. m_time_offset' \in Int
  BY <1>2, <1>3, <1>4
<1>6. TypeOK'
  <2>1. queue' \in Seq(Messages)
    BY <1>1, HeadAndTail
  <2>2. not_in_future(remote + m_time_offset', now) \in Int
    BY <1>2, <1>4, <1>5 DEF not_in_future
  <2> QED
    BY <1>2, <1>3, <1>4, <1>5, <2>1, <2>2 DEF TypeOK
<1>7. QueueInv'
  <2>1. \A d \in Clients : sample'[d] = IF d = c THEN msg.sample ELSE sample[d]
    BY <1>2, <1>4
  <2>2. \A d \in Clients : sample'[d] =< sampled'[d] /\ sampled'[d] =< now'
    BY <1>2, <2>1 DEF QueueInv
  <2>3. \A i \in 1 .. Len(queue') :
           /\ i + 1 \in 1 .. Len(queue) /\ queue'[i] = queue[i + 1] /\ 1 < i + 1
           /\ queue'[i] \in Messages
    <3>1. \A i \in 1 .. Len(queue') :
            i + 1 \in 1 .. Len(queue) /\ queue'[i] = queue[i + 1] /\ 1 < i + 1
      BY <1>1, HeadAndTail
    <3>2. ASSUME NEW i \in 1 .. Len(queue) PROVE queue[i] \in Messages
      BY <3>2, ElementOfSeq DEF TypeOK
    <3> QED
      BY <3>1, <3>2
  <2>4. msg = queue[1] /\ 1 \in 1 .. Len(queue)
    BY <1>1, HeadAndTail
  <2>5. \A i \in 1 .. Len(queue') : /\ sample'[queue'[i].client] =< queue'[i].sample
                                    /\ queue'[i].sample =< sampled'[queue'[i].client]
    <3> SUFFICES ASSUME NEW i \in 1 .. Len(queue')
                 PROVE  /\ sample'[queue'[i].client] =< queue'[i].sample
                        /\ queue'[i].sample =< sampled'[queue'[i].client]
      OBVIOUS
    <3>1. queue'[i].client \in Clients
      BY <2>3 DEF Messages
    <3>2. /\ sample[queue'[i].client] =< queue'[i].sample
          /\ queue'[i].sample =< sampled'[queue'[i].client]
      BY <1>2, <2>3 DEF QueueInv
    <3>3. queue'[i].client = c => msg.sample =< queue'[i].sample
      BY <2>3, <2>4 DEF QueueInv
    <3> QED
      BY <2>1, <3>1, <3>2, <3>3
  <2>6. \A i, j \in 1 .. Len(queue') :
          i < j /\ queue'[i].client = queue'[j].client => queue'[i].sample =< queue'[j].sample
    BY <2>3 DEF QueueInv
  <2> QED
    BY <2>2, <2>5, <2>6 DEF QueueInv
<1>8. m_time_offset' + Skew[first'] >= 0
  <2>1. CASE m_time_start = 0
    <3>1. m_time_offset' = now - remote /\ first' = c
      BY <1>3, <2>1
    <3> QED
      BY <1>2, <1>4, <3>1
  <2>2. CASE m_time_start # 0
    BY <1>3, <2>2 DEF OffsetInv
  <2> QED
    BY <2>1, <2>2
<1>9. m_time_start' # 0
  BY <1>3, <1>4
<1>10. \A d \in seen' :
         /\ timestamp'[d] = not_in_future(sample'[d] + Skew[d] + m_time_offset', stored'[d])
         /\ sample'[d] =< stored'[d]
         /\ stored'[d] =< now'
  <2> SUFFICES ASSUME NEW d \in seen'
               PROVE  /\ timestamp'[d] =
                           not_in_future(sample'[d] + Skew[d] + m_time_offset', stored'[d])
                      /\ sample'[d] =< stored'[d]
                      /\ stored'[d] =< now'
    OBVIOUS
  <2>1. CASE d = c
    <3>1. /\ timestamp'[c] = not_in_future(remote + m_time_offset', now)
          /\ sample'[c] = msg.sample /\ stored'[c] = now /\ now' = now
      BY <1>2, <1>3, <1>4
    <3> QED
      BY <1>2, <1>4, <2>1, <3>1
  <2>2. CASE d # c
    <3>1. d \in seen /\ d \in Clients
      BY <1>2, <1>4, <2>2
    <3>2. /\ timestamp'[d] = timestamp[d] /\ sample'[d] = sample[d]
          /\ stored'[d] = stored[d] /\ now' = now
      BY <1>2, <1>3, <1>4, <2>2, <3>1
    <3>3. m_time_offset' = m_time_offset
      BY <1>3, <3>1 DEF OffsetInv
    <3> QED
      BY <3>1, <3>2, <3>3 DEF OffsetInv
  <2> QED
    BY <2>1, <2>2
<1>11. OffsetInv'
  BY <1>2, <1>4, <1>8, <1>9, <1>10 DEF OffsetInv, not_in_future
<1> QED
  BY <1>6, <1>7, <1>11

\* IInv is an invariant of the time computation.
THEOREM TimeInvariant == Spec => []IInv
<1>1. IInv /\ [Next]_vars => IInv'
  BY OtherSteps, SendStep, StoreStep DEF Next
<1> QED
  BY IInvInit, <1>1, PTL DEF Spec

\* The clocks and timestamps keep their types.
THEOREM TimeTypes == Spec => []TypeOK
<1>1. IInv => TypeOK
  BY DEF IInv
<1> QED
  BY <1>1, TimeInvariant, PTL

\* Timestamps are never in the future, and those of the first client never
\* before the sample.
THEOREM PlausibleTimestamps == Spec => []TimestampIsPlausible
<1>1. IInv => TimestampIsPlausible
  <2> SUFFICES ASSUME IInv, NEW c \in seen
               PROVE  timestamp[c] =< stored[c] /\ (c = first => timestamp[c] >= sample[c])
    BY DEF TimestampIsPlausible
  <2>1. /\ stored[c] \in Nat /\ sample[c] \in Nat /\ Skew[c] \in Int
        /\ m_time_offset \in Int
    BY TimeAssumption DEF IInv, TypeOK
  <2>2. /\ timestamp[c] = not_in_future(sample[c] + Skew[c] + m_time_offset, stored[c])
        /\ sample[c] =< stored[c]
        /\ c = first => m_time_offset + Skew[c] >= 0
    BY DEF IInv, OffsetInv
  <2> QED
    BY <2>1, <2>2 DEF not_in_future
<1> QED
  BY <1>1, TimeInvariant, PTL

\* No client's events run backwards in time, whatever other clients send in
\* between.
THEOREM MonotoneTimestamps == Spec => ClientTimeIsMonotone
<1>1. ASSUME IInv, [Next]_vars, NEW c \in seen
      PROVE  timestamp'[c] >= timestamp[c]
  <2>1. /\ timestamp \in [Clients -> Int] /\ c \in Clients /\ now \in Nat
        /\ Skew[c] \in Int /\ m_time_offset \in Int
        /\ stored[c] \in Nat /\ sample[c] \in Nat
    BY <1>1, TimeAssumption DEF IInv, TypeOK
  <2>2. CASE store_timestamp /\ Head(queue).client = c
    <3> DEFINE msg == Head(queue)
    <3>1. /\ msg.sample \in Nat /\ sample[c] =< msg.sample
          /\ timestamp' = [timestamp EXCEPT ![c] =
                             not_in_future(msg.sample + Skew[c] + m_time_offset', now)]
          /\ m_time_start # 0 => m_time_offset' = m_time_offset
      BY <1>1, <2>2, Stored
    <3>2. /\ m_time_start # 0
          /\ timestamp[c] = not_in_future(sample[c] + Skew[c] + m_time_offset, stored[c])
          /\ stored[c] =< now
      BY <1>1 DEF IInv, OffsetInv
    <3>3. timestamp'[c] = not_in_future(msg.sample + Skew[c] + m_time_offset, now)
      BY <2>1, <3>1, <3>2
    <3> QED
      BY <2>1, <3>1, <3>2, <3>3 DEF not_in_future
  <2>3. CASE store_timestamp /\ Head(queue).client # c
    <3>1. timestamp'[c] = timestamp[c]
      BY <1>1, <2>1, <2>3, Stored
    <3> QED
      BY <2>1, <3>1
  <2>4. CASE ~store_timestamp
    <3>1. timestamp' = timestamp
      BY <1>1, <2>4 DEF Next, tick, send_event, drop_oldest, vars, timeVars
    <3> QED
      BY <2>1, <3>1
  <2> QED
    BY <2>2, <2>3, <2>4
<1>2. IInv /\ [Next]_vars => \A c \in seen : timestamp'[c] >= timestamp[c]
  BY <1>1
<1>3. IInv /\ [Next]_vars => [\A c \in seen : timestamp'[c] >= timestamp[c]]_vars
  BY <1>2
<1> QED
  BY <1>3, TimeInvariant, PTL DEF Spec, ClientTimeIsMonotone
=============================================================================
