---------------------------- MODULE EventFraming ----------------------------
(***************************************************************************)
(* How sensor_event_callback cuts the clients' byte streams into messages: *)
(* a header (aic_sensors_event_t), then as many floats as the type in the  *)
(* header calls for, both with blocking recv_data calls in the only        *)
(* listener thread.  Clients write their messages in pieces, stall, or     *)
(* close in the middle of one; they may also send types, or numbers of     *)
(* floats, that the HAL does not expect.  A client that closes without     *)
(* having read what the HAL sent resets its connection: once the data is   *)
(* read, recv fails with ECONNRESET instead of finding the end.            *)
(*                                                                         *)
(* Streams are counted in units of four bytes, the size of a float and of  *)
(* the header's field type, which is its first unit.  What is read as a    *)
(* type from the middle of a message is any number, so any type.           *)
(***************************************************************************)
EXTENDS SensorTypes, Sequences

CONSTANTS
  NClients,
  Msgs,      \* what clients send: [type, data_num], with data_num floats
  HeaderLen, \* sizeof(aic_sensors_event_t) in units (4)
  MaxMsgs    \* bound: client -> messages it sends

ASSUME FramingAssumption ==
  /\ NClients \in Nat \ {0}
  /\ HeaderLen \in Nat \ {0}
  /\ \A m \in Msgs : m.data_num \in Nat
  /\ MaxMsgs \in [1 .. NClients -> Nat]

Clients == 1 .. NClients
Types == {m.type : m \in Msgs}
NoHeader == [type |-> "uninit", start |-> 0]

VARIABLES
  sent,      \* client -> messages begun, with the places where they start
  written,   \* client -> units written so far
  is_open,   \* client -> has it not closed yet?
  reset,     \* clients whose next recv on an empty socket fails with ECONNRESET
  taken,     \* client -> units the listener has received
  turn,      \* the client check_new_message looks at
  lis_pc,    \* "scan", or "header" or "payload" in the callback
  sensor_events_header, \* type read from the header, and where that started
  left_size, total_size, \* of the recv_data call
  errno,     \* of the listener thread
  queued     \* history: client -> what has been put in m_sensor_msg_queue for it

clientVars == <<sent, written, is_open>>
callVars == <<left_size, total_size>>
vars == <<clientVars, reset, taken, turn, lis_pc, sensor_events_header, callVars, errno, queued>>

Init ==
  /\ sent = [c \in Clients |-> <<>>]
  /\ written = [c \in Clients |-> 0]
  /\ is_open = [c \in Clients |-> TRUE]
  /\ reset = {}
  /\ taken = [c \in Clients |-> 0]
  /\ turn = 1
  /\ lis_pc = "scan"
  /\ sensor_events_header = NoHeader
  /\ left_size = 0
  /\ total_size = 0
  /\ errno = "0"
  /\ queued = [c \in Clients |-> <<>>]

End(m) == m.start + HeaderLen + m.data_num
Begun(c) == {sent[c][i] : i \in 1 .. Len(sent[c])}
SentEnd(c) == IF sent[c] = <<>> THEN 0 ELSE End(sent[c][Len(sent[c])])

-----------------------------------------------------------------------------
\* The clients.

begin_message(c, m) ==
  /\ is_open[c]
  /\ written[c] = SentEnd(c)
  /\ Len(sent[c]) < MaxMsgs[c]
  /\ sent' = [sent EXCEPT ![c] =
                Append(@, [type |-> m.type, data_num |-> m.data_num, start |-> SentEnd(c)])]
  /\ UNCHANGED <<written, is_open, reset>>

write(c, n) ==
  /\ is_open[c]
  /\ written[c] + n =< SentEnd(c)
  /\ written' = [written EXCEPT ![c] = @ + n]
  /\ UNCHANGED <<sent, is_open, reset>>

\* unread: are there messages of the HAL that the client has not read?
close(c, unread) ==
  /\ is_open[c]
  /\ is_open' = [is_open EXCEPT ![c] = FALSE]
  /\ reset' = IF unread THEN reset \cup {c} ELSE reset
  /\ UNCHANGED <<sent, written>>

ClientStep ==
  /\ \E c \in Clients :
       \/ \E m \in Msgs : begin_message(c, m)
       \/ \E n \in 1 .. SentEnd(c) - written[c] : write(c, n)
       \/ \E unread \in BOOLEAN : close(c, unread)
  /\ UNCHANGED <<taken, turn, lis_pc, sensor_events_header, callVars, errno, queued>>

-----------------------------------------------------------------------------
\* The listener: check_new_message and sensor_event_callback.

Available == written[turn] - taken[turn]

\* (Seeded fault: the scan always starts over.)
NextTurn_first == 1

NextTurn == (turn % NClients) + 1

\* recv_data(client, ..., len, SOCK_BLOCK_MODE) is called.
CallRecv(pc, len) ==
  /\ lis_pc' = pc
  /\ left_size' = len
  /\ total_size' = 0

\* (Seeded faults: a payload is taken for one float shorter, or longer.)
payload_len_short == get_payload_len(sensor_events_header.type) - 1
payload_len_long == get_payload_len(sensor_events_header.type) + 1

\* int payload_len = get_payload_len(sensor_events_header.type)
payload_len == get_payload_len(sensor_events_header.type)

\* (Seeded fault: the callback receives another payload for the same header.)
Return_again ==
  /\ CallRecv("payload", payload_len)
  /\ UNCHANGED <<sensor_events_header, turn>>

\* sensor_event_callback returns, its variables are gone; the scan goes on.
Return ==
  /\ CallRecv("scan", 0)
  /\ sensor_events_header' = NoHeader
  /\ turn' = NextTurn

\* Nothing to read, or the end of the stream: see SockServer.
skip_client ==
  /\ lis_pc = "scan"
  /\ Available = 0
  /\ turn' = NextTurn
  /\ UNCHANGED <<clientVars, reset, taken, lis_pc, sensor_events_header, callVars, errno, queued>>

sensor_event_callback ==
  /\ lis_pc = "scan"
  /\ Available > 0
  /\ CallRecv("header", HeaderLen)
  /\ sensor_events_header' = [type |-> "uninit", start |-> taken[turn]]
  /\ UNCHANGED <<clientVars, reset, taken, turn, errno, queued>>

Receiving == lis_pc \in {"header", "payload"} /\ left_size > 0

\* What the first unit of a header says, at place p of the client's stream.
TypeAt(p, t) ==
  IF \E m \in Begun(turn) : m.start = p
  THEN \E m \in Begun(turn) : m.start = p /\ t = m.type
  ELSE t \in Types

recv(n) ==
  /\ Receiving
  /\ n =< left_size
  /\ taken' = [taken EXCEPT ![turn] = @ + n]
  /\ left_size' = left_size - n
  /\ total_size' = total_size + n
  /\ IF lis_pc = "header" /\ total_size = 0
     THEN \E t \in Types : /\ TypeAt(taken[turn], t)
                           /\ sensor_events_header' = [sensor_events_header EXCEPT !.type = t]
     ELSE UNCHANGED sensor_events_header
  /\ UNCHANGED <<clientVars, reset, turn, lis_pc, errno, queued>>

\* recv fails with EAGAIN, or returns 0 and errno still says EAGAIN: usleep.
recv_waits ==
  /\ Receiving
  /\ Available = 0
  /\ turn \notin reset
  /\ is_open[turn] \/ errno = "EAGAIN"
  /\ errno' = "EAGAIN"
  /\ UNCHANGED <<clientVars, reset, taken, turn, lis_pc, sensor_events_header, callVars, queued>>

\* recv fails with the error of the connection, which it reports once: the loop
\* breaks, also after an EAGAIN.
recv_fails ==
  /\ Receiving
  /\ Available = 0
  /\ turn \in reset
  /\ reset' = reset \ {turn}
  /\ errno' = "ECONNRESET"
  /\ UNCHANGED <<clientVars, taken, turn, lis_pc, sensor_events_header, callVars, queued>>

\* recv_data returns: everything is there, or the stream has ended or failed.
Returned ==
  /\ lis_pc # "scan"
  /\ \/ left_size = 0
     \/ Available = 0 /\ ~is_open[turn] /\ turn \notin reset /\ errno # "EAGAIN"

header_received ==
  /\ Returned
  /\ lis_pc = "header"
  /\ IF total_size > 0 /\ payload_len > 0
     THEN CallRecv("payload", payload_len) /\ UNCHANGED <<turn, sensor_events_header>>
     ELSE Return
  /\ UNCHANGED <<clientVars, reset, taken, errno, queued>>

\* (Seeded fault: the length of the payload is not tested.)
must_post_always == TRUE

\* if (len <= 0) return
must_post == total_size > 0

\* A message is queued, even if the stream ended within its payload.
payload_received ==
  /\ Returned
  /\ lis_pc = "payload"
  /\ queued' = IF must_post
               THEN [queued EXCEPT ![turn] =
                       Append(@, [type |-> sensor_events_header.type,
                                  start |-> sensor_events_header.start, got |-> total_size])]
               ELSE queued
  /\ Return
  /\ UNCHANGED <<clientVars, reset, taken, errno>>

Listener ==
  \/ skip_client
  \/ sensor_event_callback
  \/ \E n \in 1 .. Available : recv(n)
  \/ recv_waits
  \/ recv_fails
  \/ header_received
  \/ payload_received

Next == ClientStep \/ Listener

Spec == Init /\ [][Next]_vars

\* The listener thread runs; clients need not do anything.
FairSpec == Spec /\ WF_vars(Listener)

-----------------------------------------------------------------------------
\* Properties.

\* Type invariant of the streams and of the listener.
TypeOK ==
  /\ \A c \in Clients : taken[c] \in 0 .. written[c] /\ written[c] \in 0 .. SentEnd(c)
  /\ is_open \in [Clients -> BOOLEAN]
  /\ reset \subseteq Clients
  /\ turn \in Clients
  /\ lis_pc \in {"scan", "header", "payload"}
  /\ sensor_events_header.type \in Types \cup {"uninit"}
  /\ sensor_events_header.start \in Nat
  /\ left_size \in Nat
  /\ total_size \in Nat
  /\ errno \in {"0", "EAGAIN", "ECONNRESET"}

WellFormed(m) == m.data_num = get_payload_len(m.type)

\* The client has begun nothing but messages the HAL expects ahead of place p.
Expected(c, p) == \A m \in Begun(c) : m.start < p => WellFormed(m)

\* The place where the listener stands in client c's stream, within a message
\* or between two.
Position(c) == IF c = turn /\ lis_pc # "scan" THEN sensor_events_header.start ELSE taken[c]

\* The stream of a client that sends what the HAL expects is read at its
\* message boundaries, whatever the pieces and whatever other clients do; only
\* the end of the stream may come in between.
FramingIsKept ==
  \A c \in Clients :
    Expected(c, Position(c)) =>
      \/ Position(c) \in {0} \cup {End(m) : m \in Begun(c)}
      \/ ~is_open[c] /\ Position(c) = written[c]

InQueue(c) == {queued[c][i] : i \in 1 .. Len(queued[c])}

\* What is queued for such a client is one of its messages, with its type and
\* its whole payload, or with a part of it if the client closed meanwhile.
QueuedIsSent ==
  \A c \in Clients : \A q \in InQueue(c) :
    Expected(c, q.start) =>
      \E m \in Begun(c) :
        /\ q.start = m.start
        /\ q.type = m.type
        /\ q.got > 0
        /\ WellFormed(m) => q.got = m.data_num \/ ~is_open[c]

\* The messages of a client are queued once, and in the order in which they
\* start in its stream: the places where the queued ones start increase.
QueuedInOrder ==
  \A c \in Clients : \A i, j \in 1 .. Len(queued[c]) :
    i < j => queued[c][i].start < queued[c][j].start

\* The callback waits for a client that has closed, which it may do for ever,
\* only if that client closed in the middle of a message, or sent something
\* unexpected.
HangNeedsCutMessage ==
  Receiving /\ ~is_open[turn] /\ Available = 0 =>
    written[turn] < SentEnd(turn) \/ ~Expected(turn, written[turn])

\* The listener waits for the rest of a message.
Blocked == Receiving /\ Available = 0

\* Message i of client c has been written whole, and nothing unexpected before.
Written(c, i) ==
  /\ i =< Len(sent[c])
  /\ End(sent[c][i]) =< written[c]
  /\ Expected(c, End(sent[c][i]))

Queued(c, i) ==
  /\ i =< Len(sent[c])
  /\ \E q \in InQueue(c) : q.start = sent[c][i].start

\* Unless some client leaves the listener waiting for the rest of its message,
\* every message that a client has written is queued, if it and all before it
\* is expected: other clients cannot keep it from being received.
WrittenIsQueued ==
  <>[](~Blocked) =>
    \A c \in Clients : \A i \in 1 .. MaxMsgs[c] : Written(c, i) ~> Queued(c, i)

-----------------------------------------------------------------------------
\* The inductive invariant behind the safety properties.

Sent == [type : Types, data_num : Nat, start : Nat]
Posted == [type : Types, start : Nat, got : Nat]

FramingTypes ==
  /\ sent \in [Clients -> Seq(Sent)]
  /\ written \in [Clients -> Nat]
  /\ taken \in [Clients -> Nat]
  /\ sensor_events_header \in [type : Types \cup {"uninit"}, start : Nat]
  /\ queued \in [Clients -> Seq(Posted)]

\* The messages of a stream follow each other without gaps or overlaps.
StreamInv ==
  \A c \in Clients :
    /\ SentEnd(c) > 0 => \E m \in Begun(c) : m.start = 0
    /\ \A m \in Begun(c) :
         /\ End(m) =< SentEnd(c)
         /\ End(m) = SentEnd(c) \/ \E next \in Begun(c) : next.start = End(m)
    /\ \A m, next \in Begun(c) : m = next \/ End(m) =< next.start \/ End(next) =< m.start

\* The header was cut short by the end of the stream.
HeaderIsCut ==
  /\ ~is_open[turn]
  /\ taken[turn] = written[turn]
  /\ taken[turn] < sensor_events_header.start + HeaderLen
  /\ total_size = 0

\* Where the call of recv_data stands: something was there to be read, the type
\* is known from the first piece on, and the pieces add up.
CallInv ==
  lis_pc # "scan" =>
    /\ sensor_events_header.start < written[turn]
    /\ lis_pc = "header" =>
         /\ taken[turn] = sensor_events_header.start + total_size
         /\ left_size + total_size = HeaderLen
    /\ lis_pc = "payload" =>
         /\ taken[turn] = sensor_events_header.start + HeaderLen + total_size \/ HeaderIsCut
         /\ left_size + total_size = payload_len
         /\ payload_len > 0
    /\ lis_pc = "payload" \/ total_size > 0 =>
         /\ sensor_events_header.type \in Types
         /\ TypeAt(sensor_events_header.start, sensor_events_header.type)

\* The listener stands behind everything that it has queued.
QueuedIsBehind == \A c \in Clients : \A q \in InQueue(c) : q.start < Position(c)

IInv ==
  /\ TypeOK /\ FramingTypes
  /\ StreamInv /\ CallInv
  /\ FramingIsKept /\ QueuedIsSent /\ QueuedIsBehind /\ QueuedInOrder
=============================================================================
