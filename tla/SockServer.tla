----------------------------- MODULE SockServer -----------------------------
(***************************************************************************)
(* Connection management of class SockServer and of the C layer below it   *)
(* (sock_server.cpp): the listener accepts clients into slots, scans them  *)
(* for messages and disconnections, and keeps a default client,            *)
(* m_pclient_, that the HAL's threads send to.  Those threads read         *)
(* m_pclient_ without m_pclient_mutex_ and use the proxy later.            *)
(*                                                                         *)
(* A connection stands for its file descriptor and for its proxy object    *)
(* (sock_client_proxy_t), which is alive while the connection is in a      *)
(* slot.  Message contents are left out.  The callback that receives a     *)
(* message waits for all of it (see EventFraming), as long as the client   *)
(* takes to send the rest: nothing makes it return.                        *)
(***************************************************************************)
EXTENDS Integers, Sequences, FiniteSets

CONSTANTS
  Conns,             \* connections that clients make
  NULL,              \* the null pointer, and the empty slot (fd -1)
  MAX_CLIENTS,       \* length of m_clients (255 in the code)
  SOCK_MAX_CLIENTS,  \* length of client_slots (512)
  MaxUnread          \* bound: messages on their way per connection

ASSUME ServerAssumption ==
  /\ NULL \notin Conns
  /\ MAX_CLIENTS \in Nat \ {0}
  /\ SOCK_MAX_CLIENTS \in Nat
  /\ MAX_CLIENTS =< SOCK_MAX_CLIENTS
  /\ MaxUnread \in Nat

Ids == 0 .. SOCK_MAX_CLIENTS - 1
Indices == 0 .. MAX_CLIENTS - 1

VARIABLES
  peer,          \* the client's side: "none", "open", "shut" by it, or "closed" by us
  unread,        \* messages the client has sent and nobody has received
  backlog,       \* connections waiting for accept
  client_slots,  \* id -> connection
  rfds,          \* result of the last select on the clients
  m_clients,     \* index -> connection
  m_pclient_,    \* the default client
  m_ncount,
  lis_pc,        \* where the listener thread is
  scan,          \* loop index of check_new_message
  s_client,      \* proxy a HAL thread is about to send to, or NULL
  broken         \* undefined behaviour: "no", "index" or "freed"

netVars  == <<peer, unread, backlog>>
srvVars  == <<client_slots, rfds, m_clients, m_pclient_, m_ncount>>
lisVars  == <<lis_pc, scan>>
userVars == <<s_client, broken>>
vars == <<netVars, srvVars, lisVars, userVars>>

\* SockServer::start and the fields' initialisers.
Init ==
  /\ peer = [c \in Conns |-> "none"]
  /\ unread = [c \in Conns |-> 0]
  /\ backlog = <<>>
  /\ client_slots = [i \in Ids |-> NULL]
  /\ rfds = {}
  /\ m_clients = [i \in Indices |-> NULL]
  /\ m_pclient_ = NULL
  /\ m_ncount = 0
  /\ lis_pc = "newconn"
  /\ scan = 0
  /\ s_client = NULL
  /\ broken = "no"

-----------------------------------------------------------------------------
\* The clients and the network.

connect(c) ==
  /\ peer[c] = "none"
  /\ peer' = [peer EXCEPT ![c] = "open"]
  /\ backlog' = Append(backlog, c)
  /\ UNCHANGED <<unread, srvVars, lisVars, userVars>>

send_message(c) ==
  /\ peer[c] = "open"
  /\ unread[c] < MaxUnread
  /\ unread' = [unread EXCEPT ![c] = @ + 1]
  /\ UNCHANGED <<peer, backlog, srvVars, lisVars, userVars>>

disconnect(c) ==
  /\ peer[c] = "open"
  /\ peer' = [peer EXCEPT ![c] = "shut"]
  /\ UNCHANGED <<unread, backlog, srvVars, lisVars, userVars>>

-----------------------------------------------------------------------------
\* check_new_connection.

EmptySlots == {i \in Ids : client_slots[i] = NULL}

\* (Seeded faults: a slot in use is not skipped; the last slot is taken.)
sock_server_find_empty_slot_unchecked(id) == id = 0
sock_server_find_empty_slot_last(id) ==
  /\ id \in EmptySlots
  /\ \A j \in EmptySlots : j =< id

\* The first empty slot.
sock_server_find_empty_slot(id) ==
  /\ id \in EmptySlots
  /\ \A j \in EmptySlots : id =< j

\* No connection is waiting.
no_new_connection ==
  /\ lis_pc = "newconn"
  /\ backlog = <<>>
  /\ lis_pc' = "select"
  /\ UNCHANGED <<netVars, srvVars, scan, userVars>>

\* The slots are full, or accept or ioctl fails: the connection is closed.
refuse_connection ==
  /\ lis_pc = "newconn"
  /\ backlog # <<>>
  /\ backlog' = Tail(backlog)
  /\ peer' = [peer EXCEPT ![Head(backlog)] = "closed"]
  /\ lis_pc' = "select"
  /\ UNCHANGED <<unread, srvVars, scan, userVars>>

\* (Seeded fault: the newest client takes over.)
DefaultAfterAccept_newest(c) == c

\* The first client becomes the default client.
DefaultAfterAccept(c) == IF m_pclient_ = NULL THEN c ELSE m_pclient_

\* The connection's file descriptor is put in the empty slot id.
sock_server_create_client(c, id) ==
  /\ sock_server_find_empty_slot(id)
  /\ client_slots' = [client_slots EXCEPT ![id] = c]

\* A client is accepted.  Its id is an index of client_slots, not always of
\* m_clients.
accept_connection ==
  /\ lis_pc = "newconn"
  /\ backlog # <<>>
  /\ backlog' = Tail(backlog)
  /\ LET c == Head(backlog)
     IN  \E id \in Ids :
           /\ sock_server_create_client(c, id)
           /\ m_pclient_' = DefaultAfterAccept(c)
           /\ IF id \in Indices
              THEN /\ m_clients' = [m_clients EXCEPT ![id] = c]
                   /\ UNCHANGED broken
              ELSE /\ broken' = "index"
                   /\ UNCHANGED m_clients
  /\ m_ncount' = m_ncount + 1
  /\ lis_pc' = "callback"
  /\ UNCHANGED <<peer, unread, rfds, scan, s_client>>

\* m_connected_callback, which sends to the default client.
connected_callback ==
  /\ lis_pc = "callback"
  /\ lis_pc' = "select"
  /\ UNCHANGED <<netVars, srvVars, scan, userVars>>

-----------------------------------------------------------------------------
\* check_new_message.

Accepted == {client_slots[i] : i \in Ids} \ {NULL}

\* select on all clients: readable are those with data and those at EOF.
sock_server_clients_readable ==
  /\ lis_pc = "select"
  /\ LET ready == {c \in Accepted : unread[c] > 0 \/ peer[c] = "shut"}
     IN  /\ rfds' = ready
         /\ lis_pc' = IF ready = {} THEN "newconn" ELSE "scan"
  /\ scan' = 0
  /\ UNCHANGED <<netVars, client_slots, m_clients, m_pclient_, m_ncount, userVars>>

\* (Seeded fault: EOF is noticed before the data that precedes it.)
sock_server_check_connect_eof_first(c) ==
  IF c \notin rfds THEN "normal"
  ELSE IF peer[c] = "shut" THEN "disconnect" ELSE "readable"

sock_server_check_connect(c) ==
  IF c \notin rfds THEN "normal"
  ELSE IF unread[c] > 0 THEN "readable" ELSE "disconnect"

Scanning == lis_pc = "scan" /\ scan \in Indices

scan_nothing ==
  /\ Scanning
  /\ \/ m_clients[scan] = NULL
     \/ sock_server_check_connect(m_clients[scan]) = "normal"
  /\ scan' = scan + 1
  /\ UNCHANGED <<netVars, srvVars, lis_pc, userVars>>

\* m_listener_callback is called.
scan_readable ==
  /\ Scanning
  /\ m_clients[scan] # NULL
  /\ sock_server_check_connect(m_clients[scan]) = "readable"
  /\ lis_pc' = "message"
  /\ UNCHANGED <<netVars, srvVars, scan, userVars>>

\* (Seeded fault: return instead of break after the callback.)
message_received_returning ==
  /\ lis_pc = "message"
  /\ unread' = [unread EXCEPT ![m_clients[scan]] = @ - 1]
  /\ lis_pc' = "newconn"
  /\ UNCHANGED <<peer, backlog, srvVars, scan, userVars>>

\* The callback has received a message, and returns.
message_received ==
  /\ lis_pc = "message"
  /\ unread' = [unread EXCEPT ![m_clients[scan]] = @ - 1]
  /\ lis_pc' = "scan"
  /\ scan' = scan + 1
  /\ UNCHANGED <<peer, backlog, srvVars, userVars>>

\* The slot is emptied and the proxy deleted.
sock_server_close_client(i) ==
  /\ client_slots' = [client_slots EXCEPT ![i] = NULL]
  /\ peer' = [peer EXCEPT ![m_clients[i]] = "closed"]

\* The first part of the disconnect case.
scan_disconnect ==
  /\ Scanning
  /\ m_clients[scan] # NULL
  /\ sock_server_check_connect(m_clients[scan]) = "disconnect"
  /\ sock_server_close_client(scan)
  /\ lis_pc' = "closed"
  /\ UNCHANGED <<unread, backlog, rfds, m_clients, m_pclient_, m_ncount, scan, userVars>>

\* (Seeded fault: the pointer is kept.)
DefaultAfterClose_kept(c) == m_pclient_

\* The pointer to a default client that has been closed is reset.
DefaultAfterClose(c) == IF m_pclient_ = c THEN NULL ELSE m_pclient_

\* The rest of the disconnect case; the last client ends the scan.
forget_client ==
  /\ lis_pc = "closed"
  /\ m_pclient_' = DefaultAfterClose(m_clients[scan])
  /\ m_clients' = [m_clients EXCEPT ![scan] = NULL]
  /\ m_ncount' = m_ncount - 1
  /\ lis_pc' = IF m_ncount = 1 THEN "newconn" ELSE "scan"
  /\ scan' = scan + 1
  /\ UNCHANGED <<netVars, client_slots, rfds, userVars>>

\* (Seeded fault: no new default client is chosen.)
NewDefault_none(c) == c = m_pclient_

\* The default client, or the first client if there is none.
NewDefault(c) ==
  IF m_pclient_ # NULL \/ \A i \in Indices : m_clients[i] = NULL
  THEN c = m_pclient_
  ELSE \E i \in Indices :
         /\ m_clients[i] # NULL
         /\ \A j \in 0 .. i - 1 : m_clients[j] = NULL
         /\ c = m_clients[i]

choose_default ==
  /\ lis_pc = "scan"
  /\ scan = MAX_CLIENTS
  /\ \E c \in Conns \cup {NULL} : NewDefault(c) /\ m_pclient_' = c
  /\ lis_pc' = "newconn"
  /\ UNCHANGED <<netVars, client_slots, rfds, m_clients, m_ncount, scan, userVars>>

\* Steps that wait for nobody.
ListenerStep ==
  \/ no_new_connection
  \/ refuse_connection
  \/ accept_connection
  \/ connected_callback
  \/ sock_server_clients_readable
  \/ scan_nothing
  \/ scan_readable
  \/ scan_disconnect
  \/ forget_client
  \/ choose_default

Listener == ListenerStep \/ message_received

-----------------------------------------------------------------------------
\* A HAL thread in sensor_device_send_config_msg.

get_sock_client ==
  /\ s_client = NULL
  /\ m_pclient_ # NULL
  /\ s_client' = m_pclient_
  /\ UNCHANGED <<netVars, srvVars, lisVars, broken>>

\* send_data dereferences the proxy.
send_data ==
  /\ s_client # NULL
  /\ s_client' = NULL
  /\ broken' = IF s_client \in Accepted THEN broken ELSE "freed"
  /\ UNCHANGED <<netVars, srvVars, lisVars>>

Next ==
  /\ broken = "no"
  /\ \/ \E c \in Conns : connect(c) \/ send_message(c) \/ disconnect(c)
     \/ Listener
     \/ get_sock_client
     \/ send_data

Spec == Init /\ [][Next]_vars

\* The listener thread runs, except while it waits in the callback.
FairSpec == Spec /\ WF_vars(broken = "no" /\ ListenerStep)

-----------------------------------------------------------------------------
\* Properties.

\* Type invariant of the server's state.
TypeOK ==
  /\ peer \in [Conns -> {"none", "open", "shut", "closed"}]
  /\ unread \in [Conns -> Nat]
  /\ backlog \in Seq(Conns)
  /\ client_slots \in [Ids -> Conns \cup {NULL}]
  /\ rfds \in SUBSET Conns
  /\ m_clients \in [Indices -> Conns \cup {NULL}]
  /\ m_pclient_ \in Conns \cup {NULL}
  /\ m_ncount \in Nat
  /\ lis_pc \in {"newconn", "callback", "select", "scan", "message", "closed"}
  /\ scan \in 0 .. MAX_CLIENTS
  /\ s_client \in Conns \cup {NULL}
  /\ broken \in {"no", "index", "freed"}

Registered == {m_clients[i] : i \in Indices} \ {NULL}

\* The two tables agree, up to the client being closed, and m_ncount counts
\* the registered clients: the early return of check_new_message at
\* m_ncount = 0 is taken exactly when no client is left.
RegistryAgrees ==
  broken # "index" =>
    /\ \A i \in Ids :
         IF i \in Indices /\ ~(lis_pc = "closed" /\ i = scan)
         THEN client_slots[i] = m_clients[i]
         ELSE client_slots[i] = NULL
    /\ m_ncount = Cardinality(Registered)
    /\ \A i, j \in Indices : m_clients[i] = m_clients[j] => i = j \/ m_clients[i] = NULL

\* The default client is a live client, except while its closing is under
\* way; and whenever the listener waits for connections, there is a default
\* client if there is any client.
DefaultClientIsLive ==
  broken # "index" =>
    /\ m_pclient_ # NULL =>
         m_pclient_ \in Accepted \/ (lis_pc = "closed" /\ m_pclient_ = m_clients[scan])
    /\ lis_pc = "newconn" => (m_pclient_ = NULL <=> Accepted = {})

\* The server closes an accepted connection only after the client has shut
\* it, and no message sent before is lost.
ClosedOnlyAtEOF ==
  [][\A c \in Accepted : c \notin Accepted' => peer[c] = "shut" /\ unread[c] = 0]_vars

\* The default client changes only when there is none or it has been closed.
DefaultIsStable ==
  [][m_pclient_' # m_pclient_ => m_pclient_ = NULL \/ m_pclient_ \notin Accepted]_vars

\* m_clients is overrun only when all of its elements are in use.
OverrunNeedsFullTable ==
  broken = "index" => Cardinality(Accepted) > MAX_CLIENTS

\* If no client leaves the callback waiting for the rest of its message for
\* ever, a waiting connection is accepted or refused, and a disconnection is
\* noticed: the scan reaches every client, whatever and however much the others
\* send.  With ClosedOnlyAtEOF, all that the client sent has then been received.
ClientsAreServed ==
  []<>(lis_pc # "message") =>
    \A c \in Conns :
      /\ (\E i \in 1 .. Len(backlog) : backlog[i] = c)
           ~> (~(\E i \in 1 .. Len(backlog) : backlog[i] = c) \/ broken # "no")
      /\ (c \in Accepted /\ peer[c] = "shut") ~> (c \notin Accepted \/ broken # "no")

-----------------------------------------------------------------------------
\* The server implements ClientPresence.

Presence == INSTANCE ClientPresence WITH
  clients     <- m_ncount,
  has_default <- m_pclient_ # NULL,
  announcing  <- lis_pc = "callback"

\* Whatever the clients do and whichever of them is closed in a scan, the HAL
\* sees them come and go one at a time, each new one announced to it at once,
\* and no client is accepted while others wait for a default client.
ImplementsPresence == Presence!Spec

\* A HAL thread that is about to send holds a live proxy, or that of a client
\* whose connection the listener has closed.
SenderIsSafe ==
  broken # "index" /\ s_client # NULL =>
    s_client \in Accepted \/ peer[s_client] = "closed"

-----------------------------------------------------------------------------
\* The inductive invariant behind the safety properties.

\* A connection is in the backlog or registered, not both, and not twice; only
\* the one whose closing is under way is closed.
NetInv ==
  /\ \A i, j \in 1 .. Len(backlog) : backlog[i] = backlog[j] => i = j
  /\ \A i \in 1 .. Len(backlog) :
       peer[backlog[i]] \in {"open", "shut"} /\ backlog[i] \notin Registered
  /\ \A i \in Indices :
       m_clients[i] # NULL =>
         peer[m_clients[i]] \in IF lis_pc = "closed" /\ i = scan THEN {"closed"}
                                ELSE {"open", "shut"}

\* What select has found is still true of the clients that the scan has not
\* reached.
ScanInv ==
  /\ lis_pc \in {"message", "closed"} => scan \in Indices /\ m_clients[scan] # NULL
  /\ lis_pc = "message" => unread[m_clients[scan]] > 0
  /\ lis_pc \in {"scan", "message", "closed"} =>
       \A i \in Indices :
         i >= scan /\ m_clients[i] \in rfds /\ ~(lis_pc = "closed" /\ i = scan) =>
           unread[m_clients[i]] > 0 \/ peer[m_clients[i]] = "shut"

\* There is a default client whenever there is a client, except in a scan.
DefaultInv ==
  lis_pc \in {"newconn", "callback", "select"} => (m_pclient_ = NULL <=> Accepted = {})

IInv ==
  /\ TypeOK
  /\ RegistryAgrees /\ DefaultClientIsLive /\ OverrunNeedsFullTable
  /\ broken # "index" => NetInv /\ ScanInv /\ DefaultInv

-----------------------------------------------------------------------------
\* "ensure socket client is synced before sending message" (the comment on
\* the disabled lock, sock_utils.cpp:186): the proxy is alive when it is used.
ClientIsSynced == broken # "freed"
=============================================================================
