------------------------- MODULE EventFraming_proofs -------------------------
(***************************************************************************)
(* Proofs about the framing of the event streams, for any number of        *)
(* clients, any messages and any lengths of streams.                       *)
(***************************************************************************)
EXTENDS EventFraming, SequenceTheorems, TLAPS

-----------------------------------------------------------------------------
\* Lengths and turns.

\* get_payload_len never returns a negative length.
LEMMA PayloadLenType == \A t : get_payload_len(t) \in Nat
BY DEF get_payload_len

\* The scan of check_new_message goes from a client to a client.
LEMMA NextTurnType ==
  ASSUME turn \in Clients
  PROVE  NextTurn \in Clients
<1>1. NClients \in Nat \ {0} /\ turn \in Nat
  BY FramingAssumption DEF Clients
<1>2. turn % NClients \in 0 .. NClients - 1
  BY <1>1
<1> QED
  BY <1>1, <1>2 DEF NextTurn, Clients

-----------------------------------------------------------------------------
\* Streams.

LEMMA StreamTypes ==
  ASSUME FramingTypes, NEW c \in Clients
  PROVE  /\ Begun(c) \subseteq Sent
         /\ \A m \in Begun(c) : End(m) \in Nat /\ End(m) > m.start /\ m.start \in Nat
         /\ SentEnd(c) \in Nat
<1>1. sent[c] \in Seq(Sent)
  BY DEF FramingTypes
<1>2. Begun(c) \subseteq Sent
  BY <1>1, ElementOfSeq DEF Begun
<1>3. \A m \in Sent : End(m) \in Nat /\ End(m) > m.start /\ m.start \in Nat
  BY FramingAssumption DEF Sent, End
<1>4. sent[c] # <<>> => sent[c][Len(sent[c])] \in Sent
  BY <1>1, ElementOfSeq, LenProperties, EmptySeq
<1> QED
  BY <1>2, <1>3, <1>4 DEF SentEnd

\* A step that leaves a client's list of messages alone leaves its stream alone.
LEMMA SameStream ==
  ASSUME NEW c \in Clients, sent'[c] = sent[c]
  PROVE  /\ Begun(c)' = Begun(c)
         /\ SentEnd(c)' = SentEnd(c)
BY DEF Begun, SentEnd, End

\* A new message comes at the end of the stream.
LEMMA LongerStream ==
  ASSUME FramingTypes, NEW c \in Clients, NEW new \in Sent,
         sent'[c] = Append(sent[c], new)
  PROVE  /\ Begun(c)' = Begun(c) \cup {new}
         /\ SentEnd(c)' = End(new)
<1>1. sent[c] \in Seq(Sent)
  BY DEF FramingTypes
<1> DEFINE s == sent[c]
           t == sent'[c]
<1>2. /\ t \in Seq(Sent) /\ Len(t) = Len(s) + 1 /\ Len(s) \in Nat
      /\ \A i \in 1 .. Len(s) : t[i] = s[i]
      /\ t[Len(s) + 1] = new
  BY <1>1, AppendProperties, LenProperties
<1>3. {t[i] : i \in 1 .. Len(t)} = {s[i] : i \in 1 .. Len(s)} \cup {new}
  <2>1. \A i \in 1 .. Len(t) : i \in 1 .. Len(s) \/ i = Len(s) + 1
    BY <1>2
  <2>2. 1 .. Len(s) \subseteq 1 .. Len(t) /\ Len(s) + 1 \in 1 .. Len(t)
    BY <1>2
  <2> HIDE DEF s, t
  <2> QED
    BY <1>2, <2>1, <2>2
<1>4. t # <<>>
  BY <1>2, EmptySeq
<1> QED
  BY <1>2, <1>3, <1>4 DEF Begun, SentEnd, End

\* Where a message ends and more has been begun, another one starts.
LEMMA BoundaryStarts ==
  ASSUME FramingTypes, StreamInv, NEW c \in Clients,
         NEW p \in {0} \cup {End(m) : m \in Begun(c)}, p < SentEnd(c)
  PROVE  \E m \in Begun(c) : m.start = p
<1>1. CASE p = 0
  BY <1>1, StreamTypes DEF StreamInv
<1>2. CASE \E m \in Begun(c) : p = End(m)
  BY <1>2, StreamTypes DEF StreamInv
<1> QED
  BY <1>1, <1>2

\* No two messages of a stream start at the same place.
LEMMA StartsDiffer ==
  ASSUME FramingTypes, StreamInv, NEW c \in Clients,
         NEW m \in Begun(c), NEW n \in Begun(c), m.start = n.start
  PROVE  m = n
<1>1. /\ End(m) \in Nat /\ End(m) > m.start /\ m.start \in Nat
      /\ End(n) \in Nat /\ End(n) > n.start /\ n.start \in Nat
  BY StreamTypes
<1>2. m = n \/ End(m) =< n.start \/ End(n) =< m.start
  BY DEF StreamInv
<1> QED
  BY <1>1, <1>2

\* What is expected up to a place is expected up to an earlier one.
LEMMA ExpectedIsMonotone ==
  ASSUME FramingTypes, NEW c \in Clients, NEW p \in Nat, NEW q \in Nat, p =< q,
         Expected(c, q)
  PROVE  Expected(c, p)
BY StreamTypes DEF Expected

\* In a call, the header is one that the client wrote, if all before it is
\* expected; its type is known once something of it was received.
LEMMA ReadMessage ==
  ASSUME IInv, lis_pc # "scan", Expected(turn, sensor_events_header.start)
  PROVE  \E m \in Begun(turn) :
           /\ m.start = sensor_events_header.start
           /\ lis_pc = "payload" \/ total_size > 0 => sensor_events_header.type = m.type
<1> DEFINE p == sensor_events_header.start
<1>1. /\ turn \in Clients /\ p \in Nat /\ written[turn] \in Nat /\ p < written[turn]
      /\ written[turn] =< SentEnd(turn) /\ SentEnd(turn) \in Nat
  BY StreamTypes DEF IInv, TypeOK, FramingTypes, CallInv
<1>2. Position(turn) = p
  BY DEF Position
<1>3. p \in {0} \cup {End(m) : m \in Begun(turn)}
  BY <1>1, <1>2 DEF IInv, FramingIsKept
<1>4. PICK m \in Begun(turn) : m.start = p
  BY <1>1, <1>3, BoundaryStarts DEF IInv
<1>5. lis_pc = "payload" \/ total_size > 0 => sensor_events_header.type = m.type
  <2>1. \A n \in Begun(turn) : n.start = p => n = m
    BY <1>1, <1>4, StartsDiffer DEF IInv
  <2> QED
    BY <1>4, <2>1 DEF IInv, CallInv, TypeAt
<1> QED
  BY <1>4, <1>5

-----------------------------------------------------------------------------
\* Steps of the clients.

\* What a client adds to its stream, or takes away by closing, does not
\* disturb the listener: it adds behind what was written before.
LEMMA ClientFrame ==
  ASSUME IInv, TypeOK', FramingTypes', StreamInv',
         \A c \in Clients :
           /\ Begun(c) \subseteq Begun(c)'
           /\ \A m \in Begun(c)' : m \in Begun(c) \/ m.start >= written[c]
           /\ written[c] =< written'[c]
           /\ ~is_open[c] => ~is_open'[c] /\ written'[c] = written[c],
         UNCHANGED <<taken, turn, lis_pc, sensor_events_header, callVars, errno, queued>>
  PROVE  IInv'
<1> USE DEF callVars
<1>1. turn \in Clients /\ FramingTypes /\ \A c \in Clients : taken[c] \in Nat /\ written[c] \in Nat
  BY DEF IInv, TypeOK, FramingTypes
<1>2. \A c \in Clients : \A p : Expected(c, p)' => Expected(c, p)
  BY DEF Expected, WellFormed
<1>3. CallInv'
  <2>1. CASE lis_pc = "scan"
    BY <2>1 DEF CallInv
  <2>2. CASE lis_pc # "scan"
    <3> DEFINE h == sensor_events_header
    <3>1. h.start < written[turn] /\ h.start \in Nat /\ written'[turn] \in Nat
      BY <2>2, <1>1 DEF IInv, CallInv, TypeOK, FramingTypes
    <3>2. h.start < written'[turn]
      BY <3>1, <1>1
    <3>3. HeaderIsCut => HeaderIsCut'
      BY <1>1 DEF HeaderIsCut
    <3>4. h.type \in Types /\ TypeAt(h.start, h.type) => TypeAt(h.start, h.type)'
      <4>1. \A m \in Begun(turn)' : m.start = h.start => m \in Begun(turn)
        BY <3>1, <1>1, StreamTypes
      <4>2. Begun(turn) \subseteq Begun(turn)'
        BY <1>1
      <4> QED
        BY <4>1, <4>2 DEF TypeAt
    <3> QED
      BY <2>2, <3>2, <3>3, <3>4 DEF IInv, CallInv, payload_len
  <2> QED
    BY <2>1, <2>2
<1>4. FramingIsKept'
  <2> SUFFICES ASSUME NEW c \in Clients, Expected(c, Position(c))'
               PROVE  \/ Position(c)' \in {0} \cup {End(m) : m \in Begun(c)'}
                      \/ ~is_open'[c] /\ Position(c)' = written'[c]
    BY DEF FramingIsKept, End
  <2>1. Position(c)' = Position(c)
    BY DEF Position
  <2>2. \/ Position(c) \in {0} \cup {End(m) : m \in Begun(c)}
        \/ ~is_open[c] /\ Position(c) = written[c]
    BY <2>1, <1>2 DEF IInv, FramingIsKept
  <2> QED
    BY <2>1, <2>2
<1>5. QueuedIsSent'
  <2> SUFFICES ASSUME NEW c \in Clients, NEW q \in InQueue(c), Expected(c, q.start)'
               PROVE  \E m \in Begun(c)' :
                        /\ q.start = m.start /\ q.type = m.type /\ q.got > 0
                        /\ WellFormed(m) => q.got = m.data_num \/ ~is_open'[c]
    BY DEF QueuedIsSent, WellFormed, InQueue
  <2>1. PICK m \in Begun(c) :
          /\ q.start = m.start /\ q.type = m.type /\ q.got > 0
          /\ WellFormed(m) => q.got = m.data_num \/ ~is_open[c]
    BY <1>2 DEF IInv, QueuedIsSent
  <2> QED
    BY <2>1
<1>6. QueuedIsBehind' /\ QueuedInOrder'
  BY DEF IInv, QueuedIsBehind, QueuedInOrder, Position, InQueue
<1> QED
  BY <1>3, <1>4, <1>5, <1>6 DEF IInv

LEMMA BeginStep ==
  ASSUME IInv, NEW c \in Clients, NEW m \in Msgs, begin_message(c, m),
         UNCHANGED <<taken, turn, lis_pc, sensor_events_header, callVars, errno, queued>>
  PROVE  IInv'
<1> DEFINE new == [type |-> m.type, data_num |-> m.data_num, start |-> SentEnd(c)]
<1>1. FramingTypes /\ TypeOK /\ StreamInv
  BY DEF IInv
<1>2. /\ new \in Sent /\ End(new) \in Nat /\ new.start = SentEnd(c) /\ End(new) > SentEnd(c)
      /\ SentEnd(c) \in Nat
  BY <1>1, StreamTypes, FramingAssumption DEF Sent, Types, End
<1> HIDE DEF new
<1>3. /\ sent' = [sent EXCEPT ![c] = Append(sent[c], new)]
      /\ sent'[c] = Append(sent[c], new)
      /\ \A d \in Clients \ {c} : sent'[d] = sent[d]
      /\ sent' \in [Clients -> Seq(Sent)]
  BY <1>1, <1>2, AppendProperties DEF begin_message, FramingTypes, new
<1>4. Begun(c)' = Begun(c) \cup {new} /\ SentEnd(c)' = End(new)
  BY <1>1, <1>2, <1>3, LongerStream
<1>5. \A d \in Clients \ {c} : Begun(d)' = Begun(d) /\ SentEnd(d)' = SentEnd(d)
  BY <1>3, SameStream
<1>6. UNCHANGED <<written, is_open, reset>> /\ written[c] = SentEnd(c)
  BY DEF begin_message
<1>7. FramingTypes'
  BY <1>1, <1>3, <1>6 DEF FramingTypes
<1>8. TypeOK'
  <2>1. \A d \in Clients : taken[d] \in 0 .. written[d] /\ written[d] \in 0 .. SentEnd(d)'
    BY <1>1, <1>2, <1>4, <1>5 DEF TypeOK
  <2> QED
    BY <1>1, <1>6, <2>1 DEF TypeOK, callVars
<1>9. StreamInv'
  <2> SUFFICES ASSUME NEW d \in Clients
      PROVE  /\ SentEnd(d)' > 0 => \E n \in Begun(d)' : n.start = 0
             /\ \A n \in Begun(d)' :
                  /\ End(n) =< SentEnd(d)'
                  /\ End(n) = SentEnd(d)' \/ \E next \in Begun(d)' : next.start = End(n)
             /\ \A n, next \in Begun(d)' : n = next \/ End(n) =< next.start \/ End(next) =< n.start
    BY DEF StreamInv, End
  <2>1. CASE d # c
    BY <2>1, <1>1, <1>5 DEF StreamInv
  <2>2. CASE d = c
    <3>1. \A n \in Begun(c) : End(n) \in Nat /\ n.start \in Nat /\ End(n) =< SentEnd(c)
      BY <1>1, StreamTypes DEF StreamInv
    <3>2. SentEnd(c) = 0 => new.start = 0
      BY <1>2
    <3>3. \A n \in Begun(c) :
            /\ End(n) =< End(new)
            /\ \E next \in Begun(c) \cup {new} : next.start = End(n)
            /\ End(n) =< new.start
      BY <1>1, <1>2, <3>1 DEF StreamInv
    <3> QED
      BY <2>2, <1>1, <1>2, <1>4, <3>1, <3>2, <3>3 DEF StreamInv
  <2> QED
    BY <2>1, <2>2
<1>10. \A d \in Clients :
         /\ Begun(d) \subseteq Begun(d)'
         /\ \A n \in Begun(d)' : n \in Begun(d) \/ n.start >= written[d]
  <2>1. new.start >= written[c]
    BY <1>2, <1>6
  <2> QED
    BY <1>4, <1>5, <2>1
<1>11. \A d \in Clients : written[d] =< written'[d]
  BY <1>1, <1>6 DEF FramingTypes
<1> QED
  BY <1>6, <1>7, <1>8, <1>9, <1>10, <1>11, ClientFrame

LEMMA WriteStep ==
  ASSUME IInv, NEW c \in Clients, NEW n \in Nat, NEW unread \in BOOLEAN, write(c, n) \/ close(c, unread),
         UNCHANGED <<taken, turn, lis_pc, sensor_events_header, callVars, errno, queued>>
  PROVE  IInv'
<1>1. FramingTypes /\ TypeOK /\ StreamInv
  BY DEF IInv
<1>2. \A d \in Clients : Begun(d)' = Begun(d) /\ SentEnd(d)' = SentEnd(d) /\ SentEnd(d) \in Nat
  BY <1>1, SameStream, StreamTypes DEF write, close
<1>3. /\ written' \in [Clients -> Nat]
      /\ \A d \in Clients : written[d] =< written'[d] /\ written'[d] =< SentEnd(d)
  <2>1. CASE write(c, n)
    BY <2>1, <1>1, <1>2 DEF write, FramingTypes, TypeOK
  <2>2. CASE close(c, unread)
    BY <2>2, <1>1, <1>2 DEF close, FramingTypes, TypeOK
  <2> QED
    BY <2>1, <2>2
<1>4. /\ is_open' \in [Clients -> BOOLEAN] /\ sent' = sent
      /\ \A d \in Clients : ~is_open[d] => ~is_open'[d]
  <2>1. CASE write(c, n)
    BY <2>1, <1>1 DEF write, TypeOK
  <2>2. CASE close(c, unread)
    BY <2>2, <1>1, Zenon DEF close, TypeOK
  <2> QED
    BY <2>1, <2>2
<1>5. \A d \in Clients : ~is_open[d] => written'[d] = written[d]
  <2>1. CASE write(c, n)
    BY <2>1, <1>1 DEF write, FramingTypes
  <2>2. CASE close(c, unread)
    BY <2>2 DEF close
  <2> QED
    BY <2>1, <2>2
<1>6. FramingTypes'
  BY <1>1, <1>3, <1>4 DEF FramingTypes
<1>7. TypeOK'
  <2>1. \A d \in Clients : taken[d] \in 0 .. written'[d] /\ written'[d] \in 0 .. SentEnd(d)'
    BY <1>1, <1>2, <1>3 DEF TypeOK, FramingTypes
  <2>2. reset' \subseteq Clients
    BY <1>1 DEF write, close, TypeOK
  <2> QED
    BY <1>1, <1>4, <2>1, <2>2 DEF TypeOK, callVars
<1>8. StreamInv'
  BY <1>1, <1>2 DEF StreamInv, End
<1> QED
  BY <1>2, <1>3, <1>4, <1>5, <1>6, <1>7, <1>8, ClientFrame

-----------------------------------------------------------------------------
\* Steps of the listener.

\* The listener leaves the streams alone.
LEMMA ListenerFrame ==
  ASSUME IInv, UNCHANGED clientVars
  PROVE  /\ StreamInv'
         /\ \A c \in Clients : Begun(c)' = Begun(c) /\ SentEnd(c)' = SentEnd(c)
         /\ \A c \in Clients : \A p : Expected(c, p)' <=> Expected(c, p)
         /\ UNCHANGED queued => QueuedIsSent' /\ QueuedInOrder'
<1>1. \A c \in Clients : Begun(c)' = Begun(c) /\ SentEnd(c)' = SentEnd(c)
  BY SameStream DEF clientVars
<1>2. StreamInv'
  BY <1>1 DEF IInv, StreamInv, End
<1>3. \A c \in Clients : \A p : Expected(c, p)' <=> Expected(c, p)
  BY <1>1 DEF Expected, WellFormed
<1>4. UNCHANGED queued => QueuedIsSent'
  <2> SUFFICES ASSUME UNCHANGED queued, NEW c \in Clients, NEW q \in InQueue(c),
                      Expected(c, q.start)'
               PROVE  \E m \in Begun(c)' :
                        /\ q.start = m.start /\ q.type = m.type /\ q.got > 0
                        /\ WellFormed(m) => q.got = m.data_num \/ ~is_open'[c]
    BY DEF QueuedIsSent, WellFormed, InQueue
  <2> QED
    BY <1>1, <1>3 DEF IInv, QueuedIsSent, clientVars
<1>5. UNCHANGED queued => QueuedInOrder'
  BY DEF IInv, QueuedInOrder
<1> QED
  BY <1>1, <1>2, <1>3, <1>4, <1>5

\* The place of a client in its stream does not change in the middle of a call.
LEMMA SamePlace ==
  ASSUME IInv, UNCHANGED clientVars,
         \A c \in Clients : Position(c)' = Position(c)
  PROVE  FramingIsKept' /\ (UNCHANGED queued => QueuedIsBehind')
<1>1. FramingIsKept'
  <2> SUFFICES ASSUME NEW c \in Clients, Expected(c, Position(c))'
               PROVE  \/ Position(c)' \in {0} \cup {End(m) : m \in Begun(c)'}
                      \/ ~is_open'[c] /\ Position(c)' = written'[c]
    BY DEF FramingIsKept, End
  <2> QED
    BY ListenerFrame DEF IInv, FramingIsKept, Expected, WellFormed, clientVars
<1>2. UNCHANGED queued => QueuedIsBehind'
  BY DEF IInv, QueuedIsBehind, InQueue
<1> QED
  BY <1>1, <1>2

LEMMA SkipStep ==
  ASSUME IInv, skip_client
  PROVE  IInv'
<1>1. UNCHANGED <<clientVars, reset>> /\ turn' \in Clients
  BY NextTurnType DEF skip_client, IInv, TypeOK
<1>2. TypeOK' /\ FramingTypes'
  BY <1>1, ListenerFrame DEF skip_client, IInv, TypeOK, FramingTypes, clientVars, callVars
<1>3. CallInv'
  BY DEF skip_client, CallInv
<1>4. FramingIsKept' /\ QueuedIsBehind'
  BY <1>1, SamePlace DEF skip_client, Position
<1> QED
  BY <1>1, <1>2, <1>3, <1>4, ListenerFrame DEF IInv, skip_client

LEMMA CallbackStep ==
  ASSUME IInv, sensor_event_callback
  PROVE  IInv'
<1>1. /\ UNCHANGED clientVars /\ UNCHANGED <<reset, taken, turn, errno, queued>>
      /\ lis_pc = "scan" /\ lis_pc' = "header" /\ left_size' = HeaderLen /\ total_size' = 0
      /\ sensor_events_header' = [type |-> "uninit", start |-> taken[turn]]
  BY DEF sensor_event_callback, CallRecv
<1>2. turn \in Clients /\ taken[turn] \in Nat /\ written[turn] \in Nat /\ HeaderLen \in Nat
  BY FramingAssumption DEF IInv, TypeOK, FramingTypes
<1>3. taken[turn] < written[turn]
  BY <1>2 DEF sensor_event_callback, Available
<1>4. TypeOK' /\ FramingTypes'
  BY <1>1, <1>2, ListenerFrame DEF IInv, TypeOK, FramingTypes, clientVars
<1>5. CallInv'
  BY <1>1, <1>2, <1>3 DEF CallInv, clientVars
<1>6. FramingIsKept' /\ QueuedIsBehind'
  BY <1>1, SamePlace DEF Position
<1> QED
  BY <1>1, <1>4, <1>5, <1>6, ListenerFrame DEF IInv

LEMMA RecvStep ==
  ASSUME IInv, NEW n \in 1 .. Available, recv(n)
  PROVE  IInv'
<1> DEFINE h == sensor_events_header
<1>1. /\ UNCHANGED clientVars /\ UNCHANGED <<reset, turn, lis_pc, errno, queued>>
      /\ lis_pc \in {"header", "payload"} /\ left_size > 0 /\ n =< left_size
      /\ taken' = [taken EXCEPT ![turn] = @ + n]
      /\ left_size' = left_size - n /\ total_size' = total_size + n
  BY DEF recv, Receiving
<1>2. /\ turn \in Clients /\ taken[turn] \in Nat /\ written[turn] \in Nat /\ n \in Nat
      /\ n > 0 /\ taken[turn] + n =< written[turn]
      /\ left_size \in Nat /\ total_size \in Nat /\ HeaderLen \in Nat
  BY FramingAssumption DEF IInv, TypeOK, FramingTypes, Available
<1>3. /\ h' \in [type : Types \cup {"uninit"}, start : Nat]
      /\ h'.start = h.start
      /\ ~(lis_pc = "header" /\ total_size = 0) => h' = h
  BY DEF recv, IInv, FramingTypes
<1>4. h'.type \in Types /\ TypeAt(h.start, h'.type)
  <2>1. CASE lis_pc = "header" /\ total_size = 0
    <3>1. h.start = taken[turn]
      BY <2>1, <1>1, <1>2 DEF IInv, CallInv, FramingTypes
    <3>2. PICK t \in Types : TypeAt(taken[turn], t) /\ h' = [h EXCEPT !.type = t]
      BY <2>1 DEF recv
    <3>3. h'.type = t
      BY <3>2 DEF IInv, FramingTypes
    <3> QED
      BY <3>1, <3>2, <3>3
  <2>2. CASE ~(lis_pc = "header" /\ total_size = 0)
    BY <2>2, <1>1, <1>2, <1>3 DEF IInv, CallInv
  <2> QED
    BY <2>1, <2>2
<1>5. /\ taken' \in [Clients -> Nat] /\ taken'[turn] = taken[turn] + n
      /\ \A c \in Clients \ {turn} : taken'[c] = taken[c]
  BY <1>1, <1>2 DEF IInv, FramingTypes
<1>6. TypeOK' /\ FramingTypes'
  <2>1. \A c \in Clients : taken'[c] \in 0 .. written[c]
    BY <1>2, <1>5 DEF IInv, TypeOK
  <2>2. left_size' \in Nat /\ total_size' \in Nat
    BY <1>1, <1>2
  <2> QED
    BY <1>1, <1>3, <1>5, <2>1, <2>2, ListenerFrame DEF IInv, TypeOK, FramingTypes, clientVars
<1>7. CallInv'
  <2>1. ~HeaderIsCut
    BY <1>2 DEF HeaderIsCut
  <2>2. h.start \in Nat /\ h.start < written[turn]
    BY <1>1 DEF IInv, FramingTypes, CallInv
  <2>3. lis_pc = "header" => /\ taken'[turn] = h.start + total_size'
                             /\ left_size' + total_size' = HeaderLen
    BY <1>1, <1>2, <1>5, <2>2 DEF IInv, CallInv
  <2>4. lis_pc = "payload" =>
          /\ taken'[turn] = h.start + HeaderLen + total_size'
          /\ left_size' + total_size' = payload_len
          /\ payload_len > 0 /\ payload_len' = payload_len
    BY <1>1, <1>2, <1>3, <1>5, <2>1, <2>2 DEF IInv, CallInv, payload_len
  <2>5. TypeAt(h.start, h.type)'
    BY <1>1, <1>2, <1>3, <1>4, ListenerFrame DEF TypeAt
  <2> QED
    BY <1>1, <1>3, <1>4, <2>2, <2>3, <2>4, <2>5 DEF CallInv, clientVars
<1>8. FramingIsKept' /\ QueuedIsBehind'
  BY <1>1, <1>3, <1>5, SamePlace DEF Position
<1> QED
  BY <1>1, <1>6, <1>7, <1>8, ListenerFrame DEF IInv

LEMMA WaitStep ==
  ASSUME IInv, recv_waits \/ recv_fails
  PROVE  IInv'
<1>1. /\ UNCHANGED clientVars
      /\ UNCHANGED <<taken, turn, lis_pc, sensor_events_header, callVars, queued>>
      /\ errno' \in {"EAGAIN", "ECONNRESET"} /\ reset' \subseteq reset
  BY DEF recv_waits, recv_fails
<1>2. TypeOK' /\ FramingTypes'
  BY <1>1, ListenerFrame DEF IInv, TypeOK, FramingTypes, clientVars, callVars
<1>3. CallInv'
  <2>1. lis_pc # "scan" => turn \in Clients
    BY DEF IInv, TypeOK
  <2> QED
    BY <1>1, <2>1, ListenerFrame
    DEF IInv, CallInv, HeaderIsCut, payload_len, TypeAt, clientVars, callVars
<1>4. FramingIsKept' /\ QueuedIsBehind'
  BY <1>1, SamePlace DEF Position
<1> QED
  BY <1>1, <1>2, <1>3, <1>4, ListenerFrame DEF IInv

\* What is queued has its type.
LEMMA InQueueTypes ==
  ASSUME FramingTypes, NEW c \in Clients
  PROVE  InQueue(c) \subseteq Posted
<1>1. queued[c] \in Seq(Posted)
  BY DEF FramingTypes
<1> QED
  BY <1>1, ElementOfSeq DEF InQueue

\* sensor_event_callback returns.  Other clients keep their places; the one
\* whose turn it was now stands where the listener has stopped to read.
LEMMA ReturnStep ==
  ASSUME IInv, lis_pc # "scan", Return, UNCHANGED <<clientVars, reset, taken, errno>>,
         queued' \in [Clients -> Seq(Posted)], QueuedIsSent', QueuedInOrder',
         sensor_events_header.start < taken[turn],
         \A c \in Clients : \A q \in InQueue(c)' :
           q \in InQueue(c) \/ (c = turn /\ q.start = sensor_events_header.start),
         Expected(turn, taken[turn]) =>
           \/ \E m \in Begun(turn) : taken[turn] = End(m)
           \/ ~is_open[turn] /\ taken[turn] = written[turn]
  PROVE  IInv'
<1>1. /\ lis_pc' = "scan" /\ left_size' = 0 /\ total_size' = 0
      /\ sensor_events_header' = NoHeader /\ turn' \in Clients
  BY NextTurnType DEF Return, CallRecv, IInv, TypeOK
<1>2. TypeOK' /\ FramingTypes'
  BY <1>1, ListenerFrame DEF IInv, TypeOK, FramingTypes, NoHeader, clientVars
<1>3. CallInv'
  BY <1>1 DEF CallInv
<1>4. FramingIsKept'
  <2> SUFFICES ASSUME NEW c \in Clients, Expected(c, Position(c))'
               PROVE  \/ Position(c)' \in {0} \cup {End(m) : m \in Begun(c)'}
                      \/ ~is_open'[c] /\ Position(c)' = written'[c]
    BY DEF FramingIsKept, End
  <2>1. Position(c)' = taken[c] /\ Begun(c)' = Begun(c)
    BY <1>1, ListenerFrame DEF Position
  <2>2. Expected(c, taken[c])
    BY <2>1 DEF Expected, WellFormed
  <2>3. CASE c = turn
    BY <2>1, <2>2, <2>3 DEF clientVars
  <2>4. CASE c # turn
    BY <2>1, <2>2, <2>4 DEF IInv, FramingIsKept, Position, clientVars
  <2> QED
    BY <2>3, <2>4
<1>5. QueuedIsBehind'
  <2> SUFFICES ASSUME NEW c \in Clients, NEW q \in InQueue(c)' PROVE q.start < taken[c]
    BY <1>1 DEF QueuedIsBehind, Position
  <2>1. CASE q \in InQueue(c)
    <3>1. q.start < Position(c)
      BY <2>1 DEF IInv, QueuedIsBehind
    <3>2. q.start \in Nat /\ taken[turn] \in Nat /\ sensor_events_header.start \in Nat
      BY <2>1, InQueueTypes DEF IInv, FramingTypes, TypeOK, Posted
    <3> QED
      BY <3>1, <3>2 DEF Position
  <2>2. CASE q \notin InQueue(c)
    BY <2>2
  <2> QED
    BY <2>1, <2>2
<1> QED
  BY <1>2, <1>3, <1>4, <1>5, ListenerFrame DEF IInv

LEMMA HeaderStep ==
  ASSUME IInv, header_received
  PROVE  IInv'
<1> DEFINE h == sensor_events_header
<1>1. /\ UNCHANGED clientVars /\ UNCHANGED <<reset, taken, errno, queued>> /\ lis_pc = "header"
      /\ left_size = 0 \/ (Available = 0 /\ ~is_open[turn])
  BY DEF header_received, Returned
<1>2. /\ turn \in Clients /\ taken[turn] \in Nat /\ written[turn] \in Nat
      /\ taken[turn] =< written[turn] /\ HeaderLen \in Nat /\ HeaderLen > 0
      /\ left_size \in Nat /\ total_size \in Nat /\ h.start \in Nat
      /\ h \in [type : Types \cup {"uninit"}, start : Nat] /\ payload_len \in Nat
  BY FramingAssumption, PayloadLenType DEF IInv, TypeOK, FramingTypes, payload_len
<1>3. /\ h.start < written[turn] /\ taken[turn] = h.start + total_size
      /\ left_size + total_size = HeaderLen
  BY <1>1 DEF IInv, CallInv
<1>4. total_size > 0
  BY <1>1, <1>2, <1>3 DEF Available
<1>5. h.type \in Types /\ TypeAt(h.start, h.type)
  BY <1>1, <1>4 DEF IInv, CallInv
<1>6. CASE payload_len > 0
  <2>1. /\ lis_pc' = "payload" /\ left_size' = payload_len /\ total_size' = 0
        /\ UNCHANGED <<turn, sensor_events_header>>
    BY <1>4, <1>6 DEF header_received, CallRecv
  <2>2. TypeOK' /\ FramingTypes'
    BY <1>1, <1>2, <2>1, ListenerFrame DEF IInv, TypeOK, FramingTypes, clientVars
  <2>3. taken[turn] = h.start + HeaderLen \/ HeaderIsCut'
    <3>1. CASE left_size = 0
      BY <3>1, <1>2, <1>3
    <3>2. CASE left_size # 0
      BY <3>2, <1>1, <1>2, <1>3, <2>1 DEF Available, HeaderIsCut, clientVars
    <3> QED
      BY <3>1, <3>2
  <2>4. TypeAt(h.start, h.type)'
    BY <1>2, <1>5, <2>1, ListenerFrame, <1>1 DEF TypeAt
  <2>5. CallInv'
    <3>1. taken'[turn'] = h'.start + HeaderLen + total_size' \/ HeaderIsCut'
      BY <1>1, <1>2, <2>1, <2>3
    <3> QED
      BY <1>1, <1>2, <1>3, <1>5, <1>6, <2>1, <2>4, <3>1 DEF CallInv, payload_len, clientVars
  <2>6. FramingIsKept' /\ QueuedIsBehind'
    BY <1>1, <2>1, SamePlace DEF Position
  <2> QED
    BY <1>1, <2>2, <2>5, <2>6, ListenerFrame DEF IInv
<1>7. CASE ~(payload_len > 0)
  <2>1. Return
    BY <1>7 DEF header_received
  <2>2. ASSUME Expected(turn, taken[turn])
        PROVE  \/ \E m \in Begun(turn) : taken[turn] = End(m)
               \/ ~is_open[turn] /\ taken[turn] = written[turn]
    <3>1. CASE left_size # 0
      BY <3>1, <1>1, <1>2 DEF Available
    <3>2. CASE left_size = 0
      <4>1. Expected(turn, h.start)
        BY <2>2, <1>2, <1>3, ExpectedIsMonotone DEF IInv
      <4>2. PICK m \in Begun(turn) : m.start = h.start /\ h.type = m.type
        BY <1>1, <1>4, <4>1, ReadMessage
      <4>3. WellFormed(m)
        BY <2>2, <4>2, <1>2, <1>3, <1>4 DEF Expected
      <4>4. m.data_num = 0
        BY <4>2, <4>3, <1>2, <1>7 DEF WellFormed, payload_len
      <4> QED
        BY <3>2, <4>2, <4>4, <1>2, <1>3 DEF End
    <3> QED
      BY <3>1, <3>2
  <2>3. queued' \in [Clients -> Seq(Posted)] /\ QueuedIsSent' /\ QueuedInOrder'
    BY <1>1, ListenerFrame DEF IInv, FramingTypes
  <2>4. h.start < taken[turn]
    BY <1>2, <1>3, <1>4
  <2>5. \A c \in Clients : InQueue(c)' = InQueue(c)
    BY <1>1 DEF InQueue
  <2> QED
    BY <1>1, <2>1, <2>2, <2>3, <2>4, <2>5, ReturnStep
<1> QED
  BY <1>6, <1>7

LEMMA PayloadStep ==
  ASSUME IInv, payload_received
  PROVE  IInv'
<1> DEFINE h == sensor_events_header
           q == [type |-> h.type, start |-> h.start, got |-> total_size]
<1>1. /\ UNCHANGED clientVars /\ UNCHANGED <<reset, taken, errno>> /\ lis_pc = "payload" /\ Return
      /\ left_size = 0 \/ (Available = 0 /\ ~is_open[turn])
      /\ queued' = IF total_size > 0
                   THEN [queued EXCEPT ![turn] = Append(queued[turn], q)] ELSE queued
  BY DEF payload_received, Returned, must_post
<1>2. /\ turn \in Clients /\ taken[turn] \in Nat /\ written[turn] \in Nat
      /\ taken[turn] =< written[turn] /\ HeaderLen \in Nat /\ HeaderLen > 0
      /\ left_size \in Nat /\ total_size \in Nat /\ h.start \in Nat
      /\ payload_len \in Nat
  BY FramingAssumption, PayloadLenType DEF IInv, TypeOK, FramingTypes, payload_len
<1>3. /\ h.start < written[turn] /\ left_size + total_size = payload_len /\ payload_len > 0
      /\ taken[turn] = h.start + HeaderLen + total_size \/ HeaderIsCut
      /\ h.type \in Types
  BY <1>1 DEF IInv, CallInv
<1>4. Expected(turn, h.start) => \E m \in Begun(turn) : m.start = h.start /\ h.type = m.type
  BY <1>1, ReadMessage
<1>5. ASSUME Expected(turn, taken[turn])
      PROVE  \/ \E m \in Begun(turn) : taken[turn] = End(m)
             \/ ~is_open[turn] /\ taken[turn] = written[turn]
  <2>1. CASE left_size # 0
    BY <2>1, <1>1, <1>2 DEF Available
  <2>2. CASE left_size = 0
    <3>1. total_size = payload_len /\ taken[turn] = h.start + HeaderLen + total_size
      BY <2>2, <1>2, <1>3 DEF HeaderIsCut
    <3>2. Expected(turn, h.start) /\ h.start < taken[turn]
      BY <1>5, <1>2, <3>1, ExpectedIsMonotone DEF IInv
    <3>3. PICK m \in Begun(turn) : m.start = h.start /\ h.type = m.type
      BY <1>4, <3>2
    <3>4. WellFormed(m)
      BY <1>5, <3>2, <3>3 DEF Expected
    <3> QED
      BY <3>1, <3>3, <3>4 DEF WellFormed, payload_len, End
  <2> QED
    BY <2>1, <2>2
<1>6. q \in Posted /\ q.type = h.type /\ q.start = h.start /\ q.got = total_size
  BY <1>2, <1>3 DEF Posted
<1> HIDE DEF q
<1>7. queued \in [Clients -> Seq(Posted)] /\ Append(queued[turn], q) \in Seq(Posted)
  BY <1>2, <1>6, AppendProperties DEF IInv, FramingTypes
<1>8. queued' \in [Clients -> Seq(Posted)]
  BY <1>1, <1>7
<1>9. \A c \in Clients :
        \/ queued'[c] = queued[c]
        \/ c = turn /\ total_size > 0 /\ queued'[c] = Append(queued[c], q)
  BY <1>1, <1>7
<1>10. \A c \in Clients : \A r \in InQueue(c)' :
         r \in InQueue(c) \/ (c = turn /\ r = q /\ total_size > 0)
  <2> SUFFICES ASSUME NEW c \in Clients, NEW i \in 1 .. Len(queued'[c])
               PROVE  \/ \E j \in 1 .. Len(queued[c]) : queued'[c][i] = queued[c][j]
                      \/ c = turn /\ queued'[c][i] = q /\ total_size > 0
    BY DEF InQueue
  <2>1. CASE queued'[c] = queued[c]
    BY <2>1
  <2>2. CASE c = turn /\ total_size > 0 /\ queued'[c] = Append(queued[c], q)
    BY <2>2, <1>6, <1>7, AppendProperties, LenProperties
  <2> QED
    BY <1>9, <2>1, <2>2
<1>11. QueuedIsSent'
  <2> SUFFICES ASSUME NEW c \in Clients, NEW r \in InQueue(c)', Expected(c, r.start)'
               PROVE  \E m \in Begun(c)' :
                        /\ r.start = m.start /\ r.type = m.type /\ r.got > 0
                        /\ WellFormed(m) => r.got = m.data_num \/ ~is_open'[c]
    BY DEF QueuedIsSent, WellFormed
  <2>1. Expected(c, r.start) /\ Begun(c)' = Begun(c)
    BY <1>1, ListenerFrame
  <2>2. CASE r \in InQueue(c)
    BY <1>1, <2>1, <2>2 DEF IInv, QueuedIsSent, clientVars
  <2>3. CASE c = turn /\ r = q /\ total_size > 0
    <3>1. PICK m \in Begun(turn) : m.start = h.start /\ h.type = m.type
      BY <1>4, <1>6, <2>1, <2>3
    <3>2. WellFormed(m) => total_size = m.data_num \/ ~is_open[turn]
      BY <1>1, <1>2, <1>3, <3>1 DEF WellFormed, payload_len
    <3> QED
      BY <1>1, <1>6, <2>1, <2>3, <3>1, <3>2 DEF clientVars
  <2> QED
    BY <1>10, <2>2, <2>3
<1>12. QueuedInOrder'
  <2> SUFFICES ASSUME NEW c \in Clients, NEW i \in 1 .. Len(queued'[c]),
                      NEW j \in 1 .. Len(queued'[c]), i < j
               PROVE  queued'[c][i].start < queued'[c][j].start
    BY DEF QueuedInOrder
  <2>1. CASE queued'[c] = queued[c]
    BY <2>1 DEF IInv, QueuedInOrder
  <2>2. CASE c = turn /\ queued'[c] = Append(queued[c], q)
    <3> DEFINE n == Len(queued[c])
    <3>1. /\ n \in Nat /\ Len(queued'[c]) = n + 1 /\ queued'[c][n + 1] = q
          /\ \A k \in 1 .. n : queued'[c][k] = queued[c][k]
      BY <2>2, <1>6, <1>7, AppendProperties, LenProperties
    <3>2. i \in 1 .. n
      BY <3>1
    <3>3. CASE j = n + 1
      <4>1. queued[c][i] \in InQueue(c) /\ Position(c) = h.start
        BY <1>1, <2>2, <3>2 DEF InQueue, Position
      <4>2. queued[c][i].start < h.start
        BY <4>1 DEF IInv, QueuedIsBehind
      <4> QED
        BY <1>6, <3>1, <3>2, <3>3, <4>2
    <3>4. CASE j # n + 1
      <4>1. j \in 1 .. n
        BY <3>1, <3>4
      <4> QED
        BY <3>1, <3>2, <4>1 DEF IInv, QueuedInOrder
    <3> QED
      BY <3>3, <3>4
  <2> QED
    BY <1>9, <2>1, <2>2
<1>13. h.start < taken[turn]
  BY <1>2, <1>3 DEF HeaderIsCut
<1>14. \A c \in Clients : \A r \in InQueue(c)' :
         r \in InQueue(c) \/ (c = turn /\ r.start = sensor_events_header.start)
  BY <1>6, <1>10
<1> QED
  BY <1>1, <1>5, <1>8, <1>11, <1>12, <1>13, <1>14, ReturnStep

-----------------------------------------------------------------------------
\* The inductive invariant and what it implies.

LEMMA InitInv == Init => IInv
<1> SUFFICES ASSUME Init PROVE IInv
  OBVIOUS
<1>1. /\ \A c \in Clients : sent[c] = <<>> /\ Len(sent[c]) = 0 /\ taken[c] = 0 /\ written[c] = 0
      /\ 1 \in Clients
  BY FramingAssumption, EmptySeq DEF Init, Clients
<1>2. \A c \in Clients : Begun(c) = {} /\ SentEnd(c) = 0
  BY <1>1 DEF Begun, SentEnd
<1>3. FramingTypes
  BY EmptySeq DEF Init, FramingTypes, NoHeader
<1>4. TypeOK
  BY <1>1, <1>2 DEF Init, TypeOK, NoHeader
<1>5. StreamInv /\ CallInv
  BY <1>2 DEF Init, StreamInv, CallInv
<1>6. QueuedIsSent /\ QueuedIsBehind /\ QueuedInOrder
  <2>1. \A c \in Clients : queued[c] = <<>> /\ Len(queued[c]) = 0
    BY EmptySeq DEF Init
  <2>2. \A c \in Clients : InQueue(c) = {}
    BY <2>1 DEF InQueue
  <2> QED
    BY <2>1, <2>2 DEF QueuedIsSent, QueuedIsBehind, QueuedInOrder
<1>7. FramingIsKept
  BY <1>1 DEF Init, FramingIsKept, Position
<1> QED
  BY <1>3, <1>4, <1>5, <1>6, <1>7 DEF IInv

LEMMA InvStep == ASSUME IInv, [Next]_vars PROVE IInv'
<1>1. CASE ClientStep
  <2>1. PICK c \in Clients :
          \/ \E m \in Msgs : begin_message(c, m)
          \/ \E n \in 1 .. SentEnd(c) - written[c] : write(c, n)
          \/ \E unread \in BOOLEAN : close(c, unread)
    BY <1>1 DEF ClientStep
  <2>2. UNCHANGED <<taken, turn, lis_pc, sensor_events_header, callVars, errno, queued>>
    BY <1>1 DEF ClientStep
  <2>3. CASE \E m \in Msgs : begin_message(c, m)
    BY <2>2, <2>3, BeginStep
  <2>4. CASE \E n \in 1 .. SentEnd(c) - written[c] : write(c, n)
    <3>1. PICK n \in Nat : write(c, n)
      BY <2>4, StreamTypes DEF IInv, FramingTypes
    <3> QED
      BY <2>2, <3>1, WriteStep
  <2>5. CASE \E unread \in BOOLEAN : close(c, unread)
    <3>1. 0 \in Nat
      OBVIOUS
    <3> QED
      BY <2>2, <2>5, <3>1, WriteStep
  <2> QED
    BY <2>1, <2>3, <2>4, <2>5
<1>2. CASE skip_client
  BY <1>2, SkipStep
<1>3. CASE sensor_event_callback
  BY <1>3, CallbackStep
<1>4. CASE \E n \in 1 .. Available : recv(n)
  BY <1>4, RecvStep
<1>5. CASE recv_waits \/ recv_fails
  BY <1>5, WaitStep
<1>6. CASE header_received
  BY <1>6, HeaderStep
<1>7. CASE payload_received
  BY <1>7, PayloadStep
<1>8. CASE UNCHANGED vars
  <2>1. IInv /\ UNCHANGED clientVars /\ UNCHANGED callVars
        /\ UNCHANGED <<reset, taken, turn, lis_pc, sensor_events_header, errno, queued>>
    BY <1>8 DEF vars
  <2>2. \A c \in Clients :
          /\ Begun(c)' = Begun(c) /\ written'[c] = written[c]
          /\ is_open'[c] = is_open[c] /\ written[c] \in Nat
    BY <2>1, ListenerFrame DEF clientVars, IInv, FramingTypes
  <2>3. TypeOK' /\ FramingTypes' /\ StreamInv'
    BY <2>1, ListenerFrame DEF IInv, TypeOK, FramingTypes, clientVars, callVars
  <2> QED
    BY <2>1, <2>2, <2>3, ClientFrame
<1> QED
  BY <1>1, <1>2, <1>3, <1>4, <1>5, <1>6, <1>7, <1>8 DEF Next, Listener

\* IInv is an invariant of the streams and of the listener.
THEOREM FramingInvariant == Spec => []IInv
BY InitInv, InvStep, PTL DEF Spec

\* The streams and the variables of sensor_event_callback have their types; no
\* recv takes more than the client has written.
THEOREM FramingTypeCorrect == Spec => []TypeOK
<1>1. IInv => TypeOK
  BY DEF IInv
<1> QED
  BY <1>1, FramingInvariant, PTL

\* sensor_event_callback reads the stream of a client that sends what it
\* expects at its message boundaries, whatever the other clients send.
THEOREM FramingKept == Spec => []FramingIsKept
<1>1. IInv => FramingIsKept
  BY DEF IInv
<1> QED
  BY <1>1, FramingInvariant, PTL

\* What sensor_event_callback queues for such a client is what it has sent.
THEOREM QueuedWasSent == Spec => []QueuedIsSent
<1>1. IInv => QueuedIsSent
  BY DEF IInv
<1> QED
  BY <1>1, FramingInvariant, PTL

\* sensor_event_callback queues no message of a client twice, and none before
\* an older one.
THEOREM QueuedOnceInOrder == Spec => []QueuedInOrder
<1>1. IInv => QueuedInOrder
  BY DEF IInv
<1> QED
  BY <1>1, FramingInvariant, PTL

\* recv_data waits for a client that has closed only if this client has cut a
\* message short or sent something that the HAL does not expect.
THEOREM HangExplained == Spec => []HangNeedsCutMessage
<1>1. ASSUME IInv PROVE HangNeedsCutMessage
  <2> SUFFICES ASSUME Receiving, Available = 0, written[turn] >= SentEnd(turn),
                      Expected(turn, written[turn])
               PROVE  FALSE
    <3>1. written[turn] \in Nat /\ SentEnd(turn) \in Nat
      BY <1>1, StreamTypes DEF IInv, TypeOK, FramingTypes
    <3> QED
      BY <3>1 DEF HangNeedsCutMessage
  <2> DEFINE h == sensor_events_header
  <2>1. /\ turn \in Clients /\ taken[turn] \in Nat /\ written[turn] \in Nat
        /\ SentEnd(turn) \in Nat /\ HeaderLen \in Nat /\ left_size \in Nat
        /\ total_size \in Nat /\ h.start \in Nat /\ left_size > 0
        /\ lis_pc \in {"header", "payload"} /\ taken[turn] = written[turn]
    BY <1>1, StreamTypes, FramingAssumption DEF IInv, TypeOK, FramingTypes, Receiving, Available
  <2>2. h.start < written[turn]
    BY <1>1, <2>1 DEF IInv, CallInv
  <2>3. PICK m \in Begun(turn) :
          m.start = h.start /\ (lis_pc = "payload" => h.type = m.type)
    <3>1. Expected(turn, h.start)
      BY <1>1, <2>1, <2>2, ExpectedIsMonotone DEF IInv
    <3> QED
      BY <1>1, <2>1, <3>1, ReadMessage
  <2>4. WellFormed(m) /\ m.data_num \in Nat /\ End(m) =< SentEnd(turn)
    BY <1>1, <2>1, <2>2, <2>3, StreamTypes DEF Expected, IInv, StreamInv, Sent
  <2>5. CASE lis_pc = "header"
    BY <1>1, <2>1, <2>3, <2>4, <2>5 DEF IInv, CallInv, End
  <2>6. CASE lis_pc = "payload"
    <3>1. m.data_num = payload_len
      BY <2>3, <2>4, <2>6 DEF WellFormed, payload_len
    <3> QED
      BY <1>1, <2>1, <2>3, <2>4, <2>6, <3>1 DEF IInv, CallInv, HeaderIsCut, End
  <2> QED
    BY <2>1, <2>5, <2>6
<1> QED
  BY <1>1, FramingInvariant, PTL

=============================================================================
