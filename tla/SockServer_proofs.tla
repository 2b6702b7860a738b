-------------------------- MODULE SockServer_proofs --------------------------
(***************************************************************************)
(* Proofs about SockServer's connection management, for any number of      *)
(* connections and any table lengths: the two tables agree, the default    *)
(* client is alive, no connection is closed early, and only a full table   *)
(* is overrun.                                                             *)
(***************************************************************************)
EXTENDS SockServer, FiniteSetTheorems, TLAPS

\* The values of a table with n elements are finitely many.
LEMMA TableRange ==
  ASSUME NEW n \in Nat, NEW S, NEW f \in [0 .. n - 1 -> S]
  PROVE  IsFiniteSet({f[i] : i \in 0 .. n - 1})
<1> DEFINE D == 0 .. n - 1
           R == {f[i] : i \in D}
<1>1. IsFiniteSet(D)
  BY FS_Interval
<1>2. f \in Surjection(D, R)
  BY DEF Surjection
<1> HIDE DEF D, R
<1>3. IsFiniteSet(R)
  BY <1>1, <1>2, FS_Surjection
<1> QED
  BY <1>3 DEF D, R

LEMMA TablesAreFinite ==
  ASSUME TypeOK
  PROVE  /\ IsFiniteSet(Registered) /\ Cardinality(Registered) \in Nat
         /\ IsFiniteSet(Accepted)
<1>1. IsFiniteSet({m_clients[i] : i \in Indices})
  <2>1. MAX_CLIENTS \in Nat /\ m_clients \in [0 .. MAX_CLIENTS - 1 -> Conns \cup {NULL}]
    BY ServerAssumption DEF TypeOK, Indices
  <2> QED
    BY <2>1, TableRange, Zenon DEF Indices
<1>2. IsFiniteSet({client_slots[i] : i \in Ids})
  <2>1. /\ SOCK_MAX_CLIENTS \in Nat
        /\ client_slots \in [0 .. SOCK_MAX_CLIENTS - 1 -> Conns \cup {NULL}]
    BY ServerAssumption DEF TypeOK, Ids
  <2> QED
    BY <2>1, TableRange, Zenon DEF Ids
<1> QED
  BY <1>1, <1>2, FS_RemoveElement, FS_CardinalityType DEF Registered, Accepted

\* m_clients holds MAX_CLIENTS different clients when all of it is in use.
LEMMA FullTable ==
  ASSUME TypeOK, \A i, j \in Indices : m_clients[i] = m_clients[j] => i = j
  PROVE  Cardinality({m_clients[i] : i \in Indices}) = MAX_CLIENTS
<1> DEFINE R == {m_clients[i] : i \in Indices}
<1>1. IsFiniteSet(Indices) /\ Cardinality(Indices) = MAX_CLIENTS
  BY ServerAssumption, FS_Interval DEF Indices
<1>2. m_clients \in Surjection(Indices, R)
  BY DEF TypeOK, Surjection
<1>3. m_clients \in Injection(Indices, R)
  BY DEF TypeOK, Injection, IsInjective
<1> HIDE DEF R
<1>4. Cardinality(R) = Cardinality(Indices)
  BY <1>1, <1>2, <1>3, FS_Surjection
<1> QED
  BY <1>1, <1>4 DEF R

LEMMA IndicesAreIds == Indices \subseteq Ids /\ Indices \subseteq Nat
BY ServerAssumption DEF Indices, Ids

\* The clients in the slots are the registered ones, up to the one being closed.
LEMMA AcceptedIsRegistered ==
  ASSUME TypeOK, RegistryAgrees, ScanInv, broken # "index"
  PROVE  /\ lis_pc # "closed" => Accepted = Registered
         /\ lis_pc = "closed" => Accepted = Registered \ {m_clients[scan]}
<1>1. CASE lis_pc # "closed"
  BY <1>1, IndicesAreIds DEF RegistryAgrees, Accepted, Registered
<1>2. CASE lis_pc = "closed"
  <2>1. scan \in Indices /\ m_clients[scan] # NULL
    BY <1>2 DEF ScanInv
  <2>2. \A i \in Indices : i # scan => m_clients[i] # m_clients[scan]
    BY <2>1 DEF RegistryAgrees
  <2> QED
    BY <1>2, <2>1, <2>2, IndicesAreIds DEF RegistryAgrees, Accepted, Registered
<1> QED
  BY <1>1, <1>2

LEMMA InitInv == Init => IInv
<1> SUFFICES ASSUME Init PROVE IInv
  OBVIOUS
<1> USE ServerAssumption, IndicesAreIds
<1>1. TypeOK
  BY DEF Init, TypeOK
<1>2. Registered = {} /\ Accepted = {}
  BY DEF Init, Registered, Accepted
<1>3. RegistryAgrees
  BY <1>2, FS_EmptySet DEF Init, RegistryAgrees
<1>4. DefaultClientIsLive /\ OverrunNeedsFullTable
  BY <1>2 DEF Init, DefaultClientIsLive, OverrunNeedsFullTable
<1>5. NetInv /\ ScanInv /\ DefaultInv
  BY <1>2 DEF Init, NetInv, ScanInv, DefaultInv
<1> QED
  BY <1>1, <1>3, <1>4, <1>5 DEF IInv

-----------------------------------------------------------------------------
\* Steps that leave the tables alone.

\* The clients' own steps and those of the HAL's thread.
LEMMA OutsideStep ==
  ASSUME IInv, broken = "no",
         (\E c \in Conns : connect(c) \/ send_message(c) \/ disconnect(c))
           \/ get_sock_client \/ send_data
  PROVE  IInv'
<1> USE ServerAssumption
<1>1. UNCHANGED <<client_slots, rfds, m_clients, m_pclient_, m_ncount, lis_pc, scan>>
  BY DEF connect, send_message, disconnect, get_sock_client, send_data, srvVars, lisVars
<1>2. /\ s_client' \in Conns \cup {NULL}
      /\ broken' \in {"no", "freed"}
  BY DEF IInv, TypeOK, connect, send_message, disconnect, get_sock_client, send_data, userVars
<1> DEFINE NetTyped ==
      /\ peer' \in [Conns -> {"none", "open", "shut", "closed"}]
      /\ unread' \in [Conns -> Nat]
      /\ backlog' \in Seq(Conns)
<1>3. NetTyped
  <2>1. ASSUME NEW c \in Conns, connect(c) PROVE NetTyped
    BY <2>1 DEF IInv, TypeOK, connect
  <2>2. ASSUME NEW c \in Conns, send_message(c) PROVE NetTyped
    BY <2>2 DEF IInv, TypeOK, send_message
  <2>3. ASSUME NEW c \in Conns, disconnect(c) PROVE NetTyped
    BY <2>3 DEF IInv, TypeOK, disconnect
  <2>4. CASE get_sock_client \/ send_data
    BY <2>4 DEF IInv, TypeOK, get_sock_client, send_data, netVars
  <2> QED
    BY <2>1, <2>2, <2>3, <2>4
<1>4. TypeOK'
  BY <1>1, <1>2, <1>3 DEF IInv, TypeOK
<1>5. Accepted' = Accepted /\ Registered' = Registered
  BY <1>1 DEF Accepted, Registered
<1>6. RegistryAgrees' /\ DefaultClientIsLive' /\ OverrunNeedsFullTable' /\ DefaultInv'
  BY <1>1, <1>2, <1>5
     DEF IInv, RegistryAgrees, DefaultClientIsLive, OverrunNeedsFullTable, DefaultInv
<1>7. NetInv' /\ ScanInv'
  <2>1. ASSUME NEW c \in Conns, connect(c) PROVE NetInv' /\ ScanInv'
    <3>1. /\ backlog' = Append(backlog, c) /\ peer[c] = "none"
          /\ peer' = [peer EXCEPT ![c] = "open"] /\ unread' = unread
      BY <2>1 DEF connect
    <3>2. /\ Len(backlog') = Len(backlog) + 1 /\ backlog'[Len(backlog) + 1] = c
          /\ \A i \in 1 .. Len(backlog) : backlog'[i] = backlog[i] /\ backlog[i] \in Conns
          /\ Len(backlog) \in Nat
      BY <3>1 DEF IInv, TypeOK
    <3>3. \A i \in 1 .. Len(backlog) : backlog[i] # c
      BY <3>1 DEF IInv, NetInv
    <3>4. \A i \in Indices : m_clients[i] # c
      BY <3>1 DEF IInv, NetInv
    <3>5. c \notin Registered
      BY <3>4 DEF Registered
    <3>6. NetInv'
      <4>1. \A i \in 1 .. Len(backlog') : i \in 1 .. Len(backlog) \/ i = Len(backlog) + 1
        BY <3>2
      <4>2. \A i, j \in 1 .. Len(backlog') : backlog'[i] = backlog'[j] => i = j
        BY <3>2, <3>3, <4>1 DEF IInv, NetInv
      <4>3. \A i \in 1 .. Len(backlog') :
              peer'[backlog'[i]] \in {"open", "shut"} /\ backlog'[i] \notin Registered'
        BY <1>5, <3>1, <3>2, <3>5, <4>1 DEF IInv, TypeOK, NetInv
      <4>4. \A i \in Indices : m_clients[i] # NULL => peer'[m_clients[i]] = peer[m_clients[i]]
        BY <3>1, <3>4 DEF IInv, TypeOK
      <4> QED
        BY <1>1, <4>2, <4>3, <4>4 DEF IInv, NetInv
    <3>7. ScanInv'
      BY <1>1, <3>1, <3>4 DEF IInv, TypeOK, ScanInv
    <3> QED
      BY <3>6, <3>7
  <2>2. ASSUME NEW c \in Conns, send_message(c) PROVE NetInv' /\ ScanInv'
    <3>1. /\ UNCHANGED <<peer, backlog>>
          /\ \A d \in Conns : unread[d] > 0 => unread'[d] > 0
      BY <2>2 DEF IInv, TypeOK, send_message
    <3> QED
      BY <1>1, <1>5, <3>1 DEF IInv, TypeOK, NetInv, ScanInv
  <2>3. ASSUME NEW c \in Conns, disconnect(c) PROVE NetInv' /\ ScanInv'
    <3>1. /\ UNCHANGED <<unread, backlog>>
          /\ \A d \in Conns : /\ peer[d] \in {"open", "shut"} => peer'[d] \in {"open", "shut"}
                              /\ peer[d] \in {"shut", "closed"} => peer'[d] = peer[d]
      BY <2>3 DEF IInv, TypeOK, disconnect
    <3>2. /\ \A i \in Indices : m_clients[i] # NULL => m_clients[i] \in Conns
          /\ \A i \in 1 .. Len(backlog) : backlog[i] \in Conns
      BY DEF IInv, TypeOK
    <3>3. NetInv'
      BY <1>1, <1>5, <3>1, <3>2 DEF IInv, NetInv
    <3>4. ScanInv'
      BY <1>1, <3>1, <3>2 DEF IInv, TypeOK, ScanInv
    <3> QED
      BY <3>3, <3>4
  <2>4. CASE get_sock_client \/ send_data
    <3>1. UNCHANGED <<peer, unread, backlog>>
      BY <2>4 DEF get_sock_client, send_data, netVars
    <3> QED
      BY <1>1, <1>5, <3>1 DEF IInv, NetInv, ScanInv
  <2> QED
    BY <2>1, <2>2, <2>3, <2>4
<1> QED
  BY <1>4, <1>6, <1>7 DEF IInv

\* The listener moves on: no connection is waiting, or the connected callback
\* returns.
LEMMA MoveOnStep ==
  ASSUME IInv, broken = "no", no_new_connection \/ connected_callback
  PROVE  IInv'
<1>1. /\ UNCHANGED <<client_slots, rfds, m_clients, m_pclient_, m_ncount, scan>>
      /\ UNCHANGED <<peer, unread, backlog, s_client, broken>>
      /\ lis_pc \in {"newconn", "callback"} /\ lis_pc' = "select"
  BY DEF no_new_connection, connected_callback, netVars, srvVars, userVars
<1>2. TypeOK'
  BY <1>1 DEF IInv, TypeOK
<1>3. Accepted' = Accepted /\ Registered' = Registered
  BY <1>1 DEF Accepted, Registered
<1>4. RegistryAgrees' /\ DefaultClientIsLive' /\ OverrunNeedsFullTable' /\ DefaultInv'
  BY <1>1, <1>3
     DEF IInv, RegistryAgrees, DefaultClientIsLive, OverrunNeedsFullTable, DefaultInv
<1>5. NetInv' /\ ScanInv'
  BY <1>1, <1>3 DEF IInv, NetInv, ScanInv
<1> QED
  BY <1>2, <1>4, <1>5 DEF IInv

\* select: the scan starts if a client is readable.
LEMMA SelectStep ==
  ASSUME IInv, broken = "no", sock_server_clients_readable
  PROVE  IInv'
<1> USE ServerAssumption
<1>1. /\ UNCHANGED <<client_slots, m_clients, m_pclient_, m_ncount>>
      /\ UNCHANGED <<peer, unread, backlog, s_client, broken>>
      /\ lis_pc = "select" /\ lis_pc' \in {"newconn", "scan"} /\ scan' = 0
      /\ rfds' = {c \in Accepted : unread[c] > 0 \/ peer[c] = "shut"}
  BY DEF sock_server_clients_readable, netVars, userVars
<1>2. Accepted \subseteq Conns
  BY DEF IInv, TypeOK, Accepted
<1>3. TypeOK'
  BY <1>1, <1>2 DEF IInv, TypeOK
<1>4. Accepted' = Accepted /\ Registered' = Registered
  BY <1>1 DEF Accepted, Registered
<1>5. RegistryAgrees' /\ DefaultClientIsLive' /\ OverrunNeedsFullTable' /\ DefaultInv'
  BY <1>1, <1>4
     DEF IInv, RegistryAgrees, DefaultClientIsLive, OverrunNeedsFullTable, DefaultInv
<1>6. NetInv' /\ ScanInv'
  BY <1>1, <1>4 DEF IInv, NetInv, ScanInv
<1> QED
  BY <1>3, <1>5, <1>6 DEF IInv

\* The callback for a client with a message is called.
LEMMA ReadableStep ==
  ASSUME IInv, broken = "no", scan_readable
  PROVE  IInv'
<1>1. /\ UNCHANGED <<client_slots, rfds, m_clients, m_pclient_, m_ncount, scan>>
      /\ UNCHANGED <<peer, unread, backlog, s_client, broken>>
      /\ lis_pc = "scan" /\ lis_pc' = "message" /\ scan \in Indices
      /\ m_clients[scan] # NULL /\ unread[m_clients[scan]] > 0
  BY DEF scan_readable, Scanning, sock_server_check_connect, netVars, srvVars, userVars
<1>2. TypeOK'
  BY <1>1 DEF IInv, TypeOK
<1>3. Accepted' = Accepted /\ Registered' = Registered
  BY <1>1 DEF Accepted, Registered
<1>4. RegistryAgrees' /\ DefaultClientIsLive' /\ OverrunNeedsFullTable' /\ DefaultInv'
  BY <1>1, <1>3
     DEF IInv, RegistryAgrees, DefaultClientIsLive, OverrunNeedsFullTable, DefaultInv
<1>5. NetInv' /\ ScanInv'
  BY <1>1, <1>3 DEF IInv, NetInv, ScanInv
<1> QED
  BY <1>2, <1>4, <1>5 DEF IInv

\* A client with nothing to read is passed over, or a message was received.
LEMMA ScanStep ==
  ASSUME IInv, broken = "no", scan_nothing \/ message_received
  PROVE  IInv'
<1> USE ServerAssumption
<1>1. /\ UNCHANGED <<client_slots, rfds, m_clients, m_pclient_, m_ncount>>
      /\ UNCHANGED <<peer, backlog, s_client, broken>>
      /\ lis_pc \in {"scan", "message"} /\ lis_pc' = "scan"
      /\ scan \in Indices /\ scan' = scan + 1
  BY DEF scan_nothing, message_received, Scanning, IInv, ScanInv, netVars, srvVars, userVars
<1>2. /\ unread' \in [Conns -> Nat]
      /\ \A i \in Indices :
           i > scan /\ m_clients[i] \in Conns => unread'[m_clients[i]] = unread[m_clients[i]]
  <2>1. CASE scan_nothing
    BY <2>1 DEF IInv, TypeOK, scan_nothing, netVars
  <2>2. CASE message_received
    <3>1. /\ m_clients[scan] \in Conns /\ unread[m_clients[scan]] > 0
          /\ unread' = [unread EXCEPT ![m_clients[scan]] = @ - 1]
      BY <1>1, <2>2 DEF IInv, TypeOK, ScanInv, message_received
    <3>2. \A i \in Indices : i > scan => m_clients[i] # m_clients[scan]
      BY <1>1, <3>1 DEF IInv, RegistryAgrees, Indices
    <3> QED
      BY <3>1, <3>2 DEF IInv, TypeOK
  <2> QED
    BY <2>1, <2>2
<1>3. TypeOK'
  <2>1. scan' \in 0 .. MAX_CLIENTS
    BY <1>1 DEF Indices
  <2> QED
    BY <1>1, <1>2, <2>1 DEF IInv, TypeOK
<1>4. Accepted' = Accepted /\ Registered' = Registered
  BY <1>1 DEF Accepted, Registered
<1>5. RegistryAgrees' /\ DefaultClientIsLive' /\ OverrunNeedsFullTable' /\ DefaultInv'
  BY <1>1, <1>4
     DEF IInv, RegistryAgrees, DefaultClientIsLive, OverrunNeedsFullTable, DefaultInv
<1>6. NetInv'
  BY <1>1, <1>4 DEF IInv, NetInv
<1>7. ScanInv'
  <2>1. \A i \in Indices : i >= scan' => i > scan /\ i >= scan
    BY <1>1 DEF Indices
  <2> QED
    BY <1>1, <1>2, <2>1 DEF IInv, TypeOK, ScanInv
<1> QED
  BY <1>3, <1>5, <1>6, <1>7 DEF IInv

-----------------------------------------------------------------------------
\* Steps that change the tables.

\* A connection leaves the backlog: the others stay, it is not among them, and
\* it is not registered.
LEMMA HeadLeaves ==
  ASSUME IInv, broken = "no", backlog # <<>>
  PROVE  /\ Head(backlog) \in Conns
         /\ Tail(backlog) \in Seq(Conns)
         /\ Head(backlog) \notin Registered
         /\ peer[Head(backlog)] \in {"open", "shut"}
         /\ \A i \in 1 .. Len(Tail(backlog)) :
              /\ i + 1 \in 1 .. Len(backlog) /\ Tail(backlog)[i] = backlog[i + 1]
              /\ Tail(backlog)[i] # Head(backlog)
              /\ Tail(backlog)[i] \in Conns
         /\ \A i, j \in 1 .. Len(Tail(backlog)) : Tail(backlog)[i] = Tail(backlog)[j] => i = j
<1>1. backlog \in Seq(Conns) /\ Len(backlog) \in Nat /\ Len(backlog) > 0
  BY DEF IInv, TypeOK
<1>2. Head(backlog) = backlog[1] /\ 1 \in 1 .. Len(backlog) /\ Tail(backlog) \in Seq(Conns)
  BY <1>1
<1>3. /\ Len(Tail(backlog)) = Len(backlog) - 1
      /\ \A i \in 1 .. Len(Tail(backlog)) :
           i + 1 \in 1 .. Len(backlog) /\ Tail(backlog)[i] = backlog[i + 1] /\ i + 1 # 1
  BY <1>1
<1>4. \A i, j \in 1 .. Len(backlog) : backlog[i] = backlog[j] => i = j
  BY DEF IInv, NetInv
<1>5. \A i \in 1 .. Len(backlog) : backlog[i] \in Conns
  BY <1>1
<1>6. Head(backlog) \notin Registered /\ peer[Head(backlog)] \in {"open", "shut"}
  BY <1>2 DEF IInv, NetInv
<1>7. \A i, j \in 1 .. Len(Tail(backlog)) : Tail(backlog)[i] = Tail(backlog)[j] => i = j
  <2> SUFFICES ASSUME NEW i \in 1 .. Len(Tail(backlog)), NEW j \in 1 .. Len(Tail(backlog)),
                      Tail(backlog)[i] = Tail(backlog)[j]
               PROVE  i = j
    OBVIOUS
  <2>1. i + 1 = j + 1
    BY <1>3, <1>4
  <2> QED
    BY <1>3, <2>1
<1> QED
  BY <1>2, <1>3, <1>4, <1>5, <1>6, <1>7

LEMMA RefuseStep ==
  ASSUME IInv, broken = "no", refuse_connection
  PROVE  IInv'
<1> DEFINE c == Head(backlog)
<1>1. /\ UNCHANGED <<client_slots, rfds, m_clients, m_pclient_, m_ncount, scan>>
      /\ UNCHANGED <<unread, s_client, broken>>
      /\ lis_pc = "newconn" /\ lis_pc' = "select" /\ backlog # <<>>
      /\ backlog' = Tail(backlog) /\ peer' = [peer EXCEPT ![c] = "closed"]
  BY DEF refuse_connection, srvVars, userVars
<1>2. c \in Conns /\ c \notin Registered /\ backlog' \in Seq(Conns)
  BY <1>1, HeadLeaves
<1>3. TypeOK'
  BY <1>1, <1>2 DEF IInv, TypeOK
<1>4. Accepted' = Accepted /\ Registered' = Registered
  BY <1>1 DEF Accepted, Registered
<1>5. RegistryAgrees' /\ DefaultClientIsLive' /\ OverrunNeedsFullTable' /\ DefaultInv'
  BY <1>1, <1>4
     DEF IInv, RegistryAgrees, DefaultClientIsLive, OverrunNeedsFullTable, DefaultInv
<1>6. NetInv'
  <2>1. \A i \in 1 .. Len(backlog') :
          peer'[backlog'[i]] \in {"open", "shut"} /\ backlog'[i] \notin Registered'
    BY <1>1, <1>2, <1>4, HeadLeaves DEF IInv, TypeOK, NetInv
  <2>2. \A i \in Indices : m_clients[i] # NULL => m_clients[i] # c /\ m_clients[i] \in Conns
    BY <1>2 DEF IInv, TypeOK, Registered
  <2>3. \A i \in Indices : m_clients[i] # NULL => peer'[m_clients[i]] \in {"open", "shut"}
    BY <1>1, <1>2, <2>2 DEF IInv, TypeOK, NetInv
  <2> QED
    BY <1>1, <2>1, <2>3, HeadLeaves DEF NetInv
<1>7. ScanInv'
  BY <1>1 DEF ScanInv
<1> QED
  BY <1>3, <1>5, <1>6, <1>7 DEF IInv

\* A connection is put in the first empty slot; if that is no index of
\* m_clients, all its elements are in use.
LEMMA AcceptStep ==
  ASSUME IInv, broken = "no", accept_connection
  PROVE  IInv'
<1> USE ServerAssumption, IndicesAreIds
<1> DEFINE c == Head(backlog)
<1>1. PICK id \in Ids :
        /\ id \in EmptySlots /\ \A j \in EmptySlots : id =< j
        /\ client_slots' = [client_slots EXCEPT ![id] = c]
        /\ m_pclient_' = IF m_pclient_ = NULL THEN c ELSE m_pclient_
        /\ IF id \in Indices
           THEN m_clients' = [m_clients EXCEPT ![id] = c] /\ broken' = broken
           ELSE broken' = "index" /\ m_clients' = m_clients
  BY DEF accept_connection, sock_server_create_client, sock_server_find_empty_slot,
         DefaultAfterAccept
<1>2. /\ UNCHANGED <<peer, unread, rfds, scan, s_client>>
      /\ lis_pc = "newconn" /\ lis_pc' = "callback" /\ backlog # <<>>
      /\ backlog' = Tail(backlog) /\ m_ncount' = m_ncount + 1
  BY DEF accept_connection
<1>3. c \in Conns /\ c # NULL /\ c \notin Registered /\ backlog' \in Seq(Conns)
  BY <1>2, HeadLeaves
<1>4. TypeOK'
  BY <1>1, <1>2, <1>3 DEF IInv, TypeOK
<1>5. Accepted = Registered
  BY <1>2, AcceptedIsRegistered DEF IInv
<1>6. client_slots[id] = NULL
  BY <1>1 DEF EmptySlots
<1>7. Accepted' = Accepted \cup {c}
  BY <1>1, <1>3, <1>6 DEF IInv, TypeOK, Accepted
<1>8. IsFiniteSet(Accepted) /\ Cardinality(Registered) \in Nat
  BY TablesAreFinite DEF IInv
<1>9. Cardinality(Accepted') = Cardinality(Registered) + 1
  BY <1>3, <1>5, <1>7, <1>8, FS_AddElement
<1>10. CASE id \in Indices
  <2>1. m_clients' = [m_clients EXCEPT ![id] = c] /\ broken' = "no" /\ m_clients[id] = NULL
    BY <1>1, <1>2, <1>6, <1>10 DEF IInv, RegistryAgrees
  <2>2. Registered' = Registered \cup {c}
    BY <1>3, <1>10, <2>1 DEF IInv, TypeOK, Registered
  <2>3. \A i \in Indices : i # id => m_clients[i] # c
    BY <1>3 DEF Registered
  <2>4. RegistryAgrees'
    <3>1. m_ncount' = Cardinality(Registered')
      BY <1>2, <1>5, <1>7, <1>9, <2>2 DEF IInv, RegistryAgrees
    <3>2. \A i \in Ids : IF i \in Indices THEN client_slots'[i] = m_clients'[i]
                         ELSE client_slots'[i] = NULL
      BY <1>1, <1>2, <1>10, <2>1 DEF IInv, TypeOK, RegistryAgrees
    <3>3. \A i, j \in Indices :
            m_clients'[i] = m_clients'[j] => i = j \/ m_clients'[i] = NULL
      BY <1>10, <2>1, <2>3 DEF IInv, TypeOK, RegistryAgrees
    <3> QED
      BY <1>2, <3>1, <3>2, <3>3 DEF RegistryAgrees
  <2>5. DefaultClientIsLive' /\ OverrunNeedsFullTable' /\ DefaultInv'
    BY <1>1, <1>2, <1>3, <1>7, <2>1
       DEF IInv, DefaultClientIsLive, OverrunNeedsFullTable, DefaultInv
  <2>6. NetInv'
    <3>1. \A i \in 1 .. Len(backlog') :
            peer'[backlog'[i]] \in {"open", "shut"} /\ backlog'[i] \notin Registered'
      BY <1>2, <2>2, HeadLeaves DEF IInv, NetInv
    <3>2. \A i \in Indices : m_clients'[i] # NULL => peer'[m_clients'[i]] \in {"open", "shut"}
      BY <1>2, <1>10, <2>1, HeadLeaves DEF IInv, TypeOK, NetInv
    <3> QED
      BY <1>2, <3>1, <3>2, HeadLeaves DEF NetInv
  <2>7. ScanInv'
    BY <1>2 DEF ScanInv
  <2> QED
    BY <1>4, <2>4, <2>5, <2>6, <2>7 DEF IInv
<1>11. CASE id \notin Indices
  <2>1. broken' = "index"
    BY <1>1, <1>11
  <2>2. \A i \in Indices : i \notin EmptySlots
    BY <1>1, <1>11 DEF EmptySlots, Indices, Ids
  <2>3. \A i \in Indices : m_clients[i] # NULL
    BY <1>2, <2>2 DEF IInv, RegistryAgrees, EmptySlots
  <2>4. \A i, j \in Indices : m_clients[i] = m_clients[j] => i = j
    BY <2>3 DEF IInv, RegistryAgrees
  <2>5. Cardinality({m_clients[i] : i \in Indices}) = MAX_CLIENTS
    BY <2>4, FullTable DEF IInv
  <2>6. Registered = {m_clients[i] : i \in Indices}
    BY <2>3 DEF Registered
  <2>7. Cardinality(Accepted') > MAX_CLIENTS
    BY <1>9, <2>5, <2>6
  <2> QED
    BY <1>4, <2>1, <2>7
       DEF IInv, RegistryAgrees, DefaultClientIsLive, OverrunNeedsFullTable
<1> QED
  BY <1>10, <1>11

\* sock_server_close_client: the slot is emptied.
LEMMA DisconnectStep ==
  ASSUME IInv, broken = "no", scan_disconnect
  PROVE  /\ IInv'
         /\ Accepted' = Accepted \ {m_clients[scan]}
         /\ peer[m_clients[scan]] = "shut" /\ unread[m_clients[scan]] = 0
<1> USE ServerAssumption, IndicesAreIds
<1> DEFINE c == m_clients[scan]
<1>1. /\ UNCHANGED <<rfds, m_clients, m_pclient_, m_ncount, scan>>
      /\ UNCHANGED <<unread, backlog, s_client, broken>>
      /\ lis_pc = "scan" /\ lis_pc' = "closed" /\ scan \in Indices
      /\ client_slots' = [client_slots EXCEPT ![scan] = NULL]
      /\ peer' = [peer EXCEPT ![c] = "closed"]
      /\ c # NULL
      /\ c \in rfds /\ ~(unread[c] > 0)
  BY DEF scan_disconnect, Scanning, sock_server_close_client, sock_server_check_connect,
         userVars
<1>2. /\ c \in Conns /\ c \in Registered /\ scan \in Ids
      /\ \A i \in Indices : i # scan => m_clients[i] # c
  BY <1>1 DEF IInv, TypeOK, Registered, RegistryAgrees
<1>3. peer[c] = "shut" /\ unread[c] = 0
  BY <1>1, <1>2 DEF IInv, TypeOK, ScanInv, Indices
<1>4. TypeOK'
  BY <1>1, <1>2 DEF IInv, TypeOK
<1>5. Registered' = Registered
  BY <1>1 DEF Registered
<1>6. RegistryAgrees'
  <2>1. \A i \in Ids : IF i \in Indices /\ i # scan THEN client_slots'[i] = m_clients[i]
                       ELSE client_slots'[i] = NULL
    BY <1>1, <1>2 DEF IInv, TypeOK, RegistryAgrees
  <2> QED
    BY <1>1, <1>5, <2>1 DEF IInv, RegistryAgrees
<1>7. ScanInv'
  <2>1. \A i \in Indices : m_clients[i] \in rfds /\ i # scan =>
          m_clients[i] \in Conns /\ peer'[m_clients[i]] = peer[m_clients[i]]
    BY <1>1, <1>2 DEF IInv, TypeOK
  <2> QED
    BY <1>1, <2>1 DEF IInv, ScanInv
<1>8. Accepted' = Accepted \ {c}
  <2>1. Accepted = Registered
    BY <1>1, AcceptedIsRegistered DEF IInv
  <2>2. Accepted' = Registered \ {c}
    BY <1>1, <1>2, <1>6 DEF RegistryAgrees, Accepted, Registered
  <2> QED
    BY <2>1, <2>2
<1>9. DefaultClientIsLive' /\ OverrunNeedsFullTable' /\ DefaultInv'
  BY <1>1, <1>8 DEF IInv, DefaultClientIsLive, OverrunNeedsFullTable, DefaultInv
<1>10. NetInv'
  <2>1. \A i \in 1 .. Len(backlog) : backlog[i] \in Conns /\ backlog[i] # c
    BY <1>2 DEF IInv, TypeOK, NetInv
  <2>2. \A i \in Indices : m_clients[i] # NULL =>
          peer'[m_clients[i]] \in IF i = scan THEN {"closed"} ELSE {"open", "shut"}
    BY <1>1, <1>2 DEF IInv, TypeOK, NetInv
  <2> QED
    BY <1>1, <1>2, <1>5, <2>1, <2>2 DEF IInv, TypeOK, NetInv
<1> QED
  BY <1>3, <1>4, <1>6, <1>7, <1>8, <1>9, <1>10 DEF IInv

\* The client is forgotten; if it was the last one, the scan ends.
LEMMA ForgetStep ==
  ASSUME IInv, broken = "no", forget_client
  PROVE  IInv'
<1> USE ServerAssumption, IndicesAreIds
<1> DEFINE c == m_clients[scan]
<1>1. /\ UNCHANGED <<client_slots, rfds>>
      /\ UNCHANGED <<peer, unread, backlog, s_client, broken>>
      /\ lis_pc = "closed" /\ scan' = scan + 1
      /\ lis_pc' = IF m_ncount = 1 THEN "newconn" ELSE "scan"
      /\ m_clients' = [m_clients EXCEPT ![scan] = NULL]
      /\ m_pclient_' = IF m_pclient_ = c THEN NULL ELSE m_pclient_
      /\ m_ncount' = m_ncount - 1
  BY DEF forget_client, DefaultAfterClose, netVars, userVars
<1>2. scan \in Indices /\ c # NULL /\ c \in Registered
  BY <1>1 DEF IInv, ScanInv, Registered
<1>3. \A i \in Indices : i # scan => m_clients[i] # c
  BY <1>2 DEF IInv, RegistryAgrees
<1>4. Registered' = Registered \ {c}
  BY <1>1, <1>2, <1>3 DEF IInv, TypeOK, Registered
<1>5. Accepted' = Accepted /\ Accepted = Registered \ {c}
  BY <1>1, AcceptedIsRegistered DEF IInv, Accepted
<1>6. /\ IsFiniteSet(Registered) /\ Cardinality(Registered) \in Nat
      /\ IsFiniteSet(Registered') /\ Cardinality(Registered') = Cardinality(Registered) - 1
      /\ Cardinality(Registered') \in Nat
  <2>1. IsFiniteSet(Registered) /\ Cardinality(Registered) \in Nat
    BY TablesAreFinite DEF IInv
  <2>2. IsFiniteSet(Registered') /\ Cardinality(Registered') = Cardinality(Registered) - 1
    BY <1>2, <1>4, <2>1, FS_RemoveElement
  <2> QED
    BY <2>1, <2>2, FS_CardinalityType
<1>7. m_ncount = Cardinality(Registered) /\ m_ncount' = Cardinality(Registered')
  BY <1>1, <1>6 DEF IInv, RegistryAgrees
<1>8. TypeOK'
  <2>1. scan' \in 0 .. MAX_CLIENTS
    BY <1>1, <1>2 DEF Indices
  <2> QED
    BY <1>1, <1>2, <1>6, <1>7, <2>1 DEF IInv, TypeOK
<1>9. RegistryAgrees'
  <2>1. \A i \in Ids : IF i \in Indices THEN client_slots'[i] = m_clients'[i]
                       ELSE client_slots'[i] = NULL
    BY <1>1, <1>2 DEF IInv, TypeOK, RegistryAgrees
  <2>2. \A i, j \in Indices :
          m_clients'[i] = m_clients'[j] => i = j \/ m_clients'[i] = NULL
    BY <1>1, <1>2 DEF IInv, TypeOK, RegistryAgrees
  <2> QED
    BY <1>1, <1>7, <2>1, <2>2 DEF RegistryAgrees
<1>10. m_pclient_' # NULL => m_pclient_' \in Accepted'
  BY <1>1, <1>5 DEF IInv, DefaultClientIsLive
<1>11. lis_pc' = "newconn" => Accepted' = {}
  <2>1. m_ncount = 1 => Cardinality(Registered') = 0
    BY <1>6, <1>7
  <2> QED
    BY <1>1, <1>4, <1>5, <1>6, <2>1, FS_EmptySet
<1>12. DefaultClientIsLive' /\ OverrunNeedsFullTable' /\ DefaultInv'
  BY <1>1, <1>10, <1>11 DEF DefaultClientIsLive, OverrunNeedsFullTable, DefaultInv
<1>13. NetInv'
  <2>1. \A i \in Indices : m_clients'[i] # NULL => i # scan /\ m_clients'[i] = m_clients[i]
    BY <1>1, <1>2 DEF IInv, TypeOK
  <2> QED
    BY <1>1, <1>4, <2>1 DEF IInv, NetInv
<1>14. ScanInv'
  <2>1. \A i \in Indices : i >= scan' => i >= scan /\ i # scan
    BY <1>1, <1>2 DEF Indices
  <2>2. \A i \in Indices : i # scan => m_clients'[i] = m_clients[i]
    BY <1>1 DEF IInv, TypeOK
  <2> QED
    BY <1>1, <2>1, <2>2 DEF IInv, ScanInv
<1> QED
  BY <1>8, <1>9, <1>12, <1>13, <1>14 DEF IInv

\* The scan ends with a default client, if there is a client.
LEMMA ChooseStep ==
  ASSUME IInv, broken = "no", choose_default
  PROVE  IInv'
<1> USE ServerAssumption, IndicesAreIds
<1>1. /\ UNCHANGED <<client_slots, rfds, m_clients, m_ncount, scan>>
      /\ UNCHANGED <<peer, unread, backlog, s_client, broken>>
      /\ lis_pc = "scan" /\ lis_pc' = "newconn"
      /\ m_pclient_' \in Conns \cup {NULL} /\ NewDefault(m_pclient_')
  BY DEF choose_default, netVars, userVars
<1>2. TypeOK'
  BY <1>1 DEF IInv, TypeOK
<1>3. Accepted' = Accepted /\ Registered' = Registered /\ Accepted = Registered
  BY <1>1, AcceptedIsRegistered DEF IInv, Accepted, Registered
<1>4. m_pclient_ # NULL => m_pclient_ \in Accepted
  BY <1>1 DEF IInv, DefaultClientIsLive
<1>5. /\ m_pclient_' # NULL => m_pclient_' \in Registered
      /\ m_pclient_' = NULL <=> Registered = {}
  <2>1. CASE m_pclient_ # NULL
    BY <1>1, <1>3, <1>4, <2>1 DEF NewDefault
  <2>2. CASE m_pclient_ = NULL /\ \A i \in Indices : m_clients[i] = NULL
    BY <1>1, <2>2 DEF NewDefault, Registered
  <2>3. CASE m_pclient_ = NULL /\ ~\A i \in Indices : m_clients[i] = NULL
    BY <1>1, <2>3 DEF NewDefault, Registered
  <2> QED
    BY <2>1, <2>2, <2>3
<1>6. RegistryAgrees' /\ OverrunNeedsFullTable' /\ NetInv' /\ ScanInv'
  BY <1>1, <1>3 DEF IInv, RegistryAgrees, OverrunNeedsFullTable, NetInv, ScanInv
<1>7. DefaultClientIsLive' /\ DefaultInv'
  BY <1>1, <1>3, <1>5 DEF DefaultClientIsLive, DefaultInv
<1> QED
  BY <1>2, <1>6, <1>7 DEF IInv

-----------------------------------------------------------------------------
\* The theorems.

LEMMA InvStep == ASSUME IInv, [Next]_vars PROVE IInv'
<1>1. CASE UNCHANGED vars
  <2>1. /\ UNCHANGED <<peer, unread, backlog, client_slots, rfds, m_clients, m_pclient_>>
        /\ UNCHANGED <<m_ncount, lis_pc, scan, s_client, broken>>
    BY <1>1 DEF vars, netVars, srvVars, lisVars, userVars
  <2>2. Accepted' = Accepted /\ Registered' = Registered
    BY <2>1 DEF Accepted, Registered
  <2>3. TypeOK'
    BY <2>1 DEF IInv, TypeOK
  <2>4. RegistryAgrees' /\ DefaultClientIsLive' /\ OverrunNeedsFullTable'
    BY <2>1, <2>2 DEF IInv, RegistryAgrees, DefaultClientIsLive, OverrunNeedsFullTable
  <2>5. broken # "index" => NetInv' /\ ScanInv' /\ DefaultInv'
    BY <2>1, <2>2 DEF IInv, NetInv, ScanInv, DefaultInv
  <2> QED
    BY <2>1, <2>3, <2>4, <2>5 DEF IInv
<1>2. CASE Next
  <2>1. broken = "no"
    BY <1>2 DEF Next
  <2> QED
    BY <1>2, <2>1, OutsideStep, MoveOnStep, SelectStep, ReadableStep, ScanStep, RefuseStep,
       AcceptStep, DisconnectStep, ForgetStep, ChooseStep DEF Next, Listener, ListenerStep
<1> QED
  BY <1>1, <1>2

\* The inductive invariant: the tables, the backlog, the progress of the scan
\* and the default client fit together.
THEOREM ServerInvariant == Spec => []IInv
BY InitInv, InvStep, PTL DEF Spec

\* The server's state has its types.
THEOREM ServerTypes == Spec => []TypeOK
<1>1. IInv => TypeOK
  BY DEF IInv
<1> QED
  BY <1>1, ServerInvariant, PTL

\* The slots, m_clients and m_ncount agree, for any table lengths.
THEOREM TablesAgree == Spec => []RegistryAgrees
<1>1. IInv => RegistryAgrees
  BY DEF IInv
<1> QED
  BY <1>1, ServerInvariant, PTL

\* The default client is alive, and there is one whenever there is a client.
THEOREM LiveDefault == Spec => []DefaultClientIsLive
<1>1. IInv => DefaultClientIsLive
  BY DEF IInv
<1> QED
  BY <1>1, ServerInvariant, PTL

\* Only the client after MAX_CLIENTS others overruns m_clients.
THEOREM OverrunExplained == Spec => []OverrunNeedsFullTable
<1>1. IInv => OverrunNeedsFullTable
  BY DEF IInv
<1> QED
  BY <1>1, ServerInvariant, PTL

\* A connection is closed only when its client has shut it and everything has
\* been received.
THEOREM NoEarlyClose == Spec => ClosedOnlyAtEOF
<1> DEFINE Early == \A c \in Accepted : c \notin Accepted' => peer[c] = "shut" /\ unread[c] = 0
<1>1. ASSUME IInv, [Next]_vars PROVE Early
  <2>1. CASE client_slots' = client_slots
    BY <2>1 DEF Accepted
  <2>2. CASE accept_connection /\ broken = "no"
    <3>1. PICK id \in Ids : /\ client_slots[id] = NULL
                           /\ client_slots' = [client_slots EXCEPT ![id] = Head(backlog)]
      BY <2>2 DEF accept_connection, sock_server_create_client, sock_server_find_empty_slot,
                  EmptySlots
    <3>2. \A i \in Ids : client_slots[i] # NULL => client_slots'[i] = client_slots[i]
      BY <1>1, <3>1 DEF IInv, TypeOK
    <3> QED
      BY <3>2 DEF Accepted
  <2>3. CASE scan_disconnect /\ broken = "no"
    BY <1>1, <2>3, DisconnectStep
  <2> QED
    BY <1>1, <2>1, <2>2, <2>3
       DEF Next, Listener, ListenerStep, connect, send_message, disconnect, no_new_connection,
           refuse_connection, connected_callback, sock_server_clients_readable,
           scan_nothing, scan_readable, message_received, forget_client, choose_default, get_sock_client,
           send_data, srvVars, vars
<1>2. IInv /\ [Next]_vars => [Early]_vars
  BY <1>1
<1> QED
  BY <1>2, ServerInvariant, PTL DEF Spec, ClosedOnlyAtEOF

\* The default client is replaced only when there is none or it was closed.
THEOREM StableDefault == Spec => DefaultIsStable
<1> DEFINE Stable == m_pclient_' # m_pclient_ => m_pclient_ = NULL \/ m_pclient_ \notin Accepted
<1>1. ASSUME IInv, [Next]_vars PROVE Stable
  <2>1. CASE m_pclient_' = m_pclient_
    BY <2>1
  <2>2. CASE accept_connection
    BY <2>2 DEF accept_connection, DefaultAfterAccept
  <2>3. CASE forget_client /\ broken = "no"
    BY <1>1, <2>3, AcceptedIsRegistered DEF IInv, forget_client, DefaultAfterClose
  <2>4. CASE choose_default
    BY <2>4 DEF choose_default, NewDefault
  <2> QED
    BY <1>1, <2>1, <2>2, <2>3, <2>4
       DEF Next, Listener, ListenerStep, connect, send_message, disconnect, no_new_connection,
           refuse_connection, connected_callback, sock_server_clients_readable,
           scan_nothing, scan_readable, message_received, scan_disconnect, get_sock_client, send_data,
           srvVars, vars
<1>2. IInv /\ [Next]_vars => [Stable]_vars
  BY <1>1
<1> QED
  BY <1>2, ServerInvariant, PTL DEF Spec, DefaultIsStable

-----------------------------------------------------------------------------
\* What a HAL thread holds when it sends.

\* A closed connection stays closed, and one that leaves its slot is closed.
LEMMA ClosedForGood ==
  ASSUME IInv, [Next]_vars
  PROVE  \A c \in Conns :
           /\ peer[c] = "closed" => peer'[c] = "closed"
           /\ c \in Accepted /\ c \notin Accepted' => peer'[c] = "closed"
<1>1. CASE UNCHANGED <<peer, client_slots>>
  BY <1>1 DEF Accepted
<1>2. ASSUME NEW c \in Conns, connect(c) \/ disconnect(c)
      PROVE  /\ UNCHANGED client_slots
             /\ \A d \in Conns : peer[d] = "closed" => peer'[d] = "closed"
  BY <1>2 DEF connect, disconnect, srvVars, IInv, TypeOK
<1>3. CASE refuse_connection
  BY <1>3 DEF refuse_connection, srvVars, IInv, TypeOK, Accepted
<1>4. CASE accept_connection
  <2>1. PICK id \in Ids : /\ client_slots[id] = NULL
                         /\ client_slots' = [client_slots EXCEPT ![id] = Head(backlog)]
                         /\ UNCHANGED peer
    BY <1>4 DEF accept_connection, sock_server_create_client, sock_server_find_empty_slot,
                EmptySlots
  <2>2. \A i \in Ids : client_slots[i] # NULL => client_slots'[i] = client_slots[i]
    BY <2>1 DEF IInv, TypeOK
  <2> QED
    BY <2>1, <2>2 DEF Accepted
<1>5. CASE scan_disconnect /\ broken = "no"
  <2>1. /\ scan \in Indices /\ lis_pc = "scan"
        /\ client_slots' = [client_slots EXCEPT ![scan] = NULL]
        /\ peer' = [peer EXCEPT ![m_clients[scan]] = "closed"]
        /\ m_clients[scan] # NULL
    BY <1>5 DEF scan_disconnect, Scanning, sock_server_close_client
  <2>2. client_slots[scan] = m_clients[scan] /\ m_clients[scan] \in Conns
    BY <1>5, <2>1, IndicesAreIds DEF IInv, TypeOK, RegistryAgrees
  <2>3. \A i \in Ids : i # scan => client_slots'[i] = client_slots[i]
    BY <2>1 DEF IInv, TypeOK
  <2> QED
    BY <2>1, <2>2, <2>3 DEF IInv, TypeOK, Accepted
<1> QED
  BY <1>1, <1>2, <1>3, <1>4, <1>5
     DEF Next, Listener, ListenerStep, send_message, no_new_connection, connected_callback,
         sock_server_clients_readable, scan_nothing, scan_readable, message_received, forget_client,
         choose_default, get_sock_client, send_data, netVars, srvVars, vars, Accepted

\* A HAL thread reaches a deleted proxy in send_data only if the listener has
\* closed that client since get_sock_client.
THEOREM SafeSenders == Spec => []SenderIsSafe
<1>1. Init => SenderIsSafe
  BY DEF Init, SenderIsSafe
<1>2. ASSUME IInv, SenderIsSafe, [Next]_vars PROVE SenderIsSafe'
  <2> SUFFICES ASSUME broken' # "index", s_client' # NULL
               PROVE  s_client' \in Accepted' \/ peer'[s_client'] = "closed"
    BY DEF SenderIsSafe
  <2>1. broken # "index"
    BY <1>2 DEF Next, vars, userVars
  <2>2. s_client' = s_client \/ s_client' = NULL \/ get_sock_client
    BY <1>2 DEF Next, Listener, ListenerStep, connect, send_message, disconnect, no_new_connection,
         refuse_connection, accept_connection, connected_callback,
         sock_server_clients_readable, scan_nothing, scan_readable, message_received, scan_disconnect,
         forget_client, choose_default, send_data, userVars, vars
  <2>3. CASE s_client' = s_client
    <3>1. s_client \in Conns
      BY <1>2, <2>3 DEF IInv, TypeOK
    <3> QED
      BY <1>2, <2>1, <2>3, <3>1, ClosedForGood DEF SenderIsSafe
  <2>4. CASE get_sock_client
    <3>1. /\ m_pclient_ # NULL /\ s_client' = m_pclient_
          /\ UNCHANGED <<peer, client_slots>>
      BY <2>4 DEF get_sock_client, netVars, srvVars
    <3>2. m_pclient_ \in Accepted \/ (lis_pc = "closed" /\ m_pclient_ = m_clients[scan])
      BY <1>2, <2>1, <3>1 DEF IInv, DefaultClientIsLive
    <3>3. lis_pc = "closed" => scan \in Indices /\ peer[m_clients[scan]] = "closed"
      BY <1>2, <2>1 DEF IInv, NetInv, ScanInv
    <3> QED
      BY <3>1, <3>2, <3>3 DEF Accepted
  <2> QED
    BY <2>2, <2>3, <2>4
<1> QED
  BY <1>1, <1>2, ServerInvariant, PTL DEF Spec

-----------------------------------------------------------------------------
\* The server implements ClientPresence.

\* A closed client leaves the default client to the others, if there are any.
LEMMA ForgetCloses ==
  ASSUME IInv, broken = "no", forget_client
  PROVE  Presence!Close
<1>1. /\ lis_pc = "closed" /\ lis_pc' \in {"newconn", "scan"}
      /\ m_pclient_' = IF m_pclient_ = m_clients[scan] THEN NULL ELSE m_pclient_
      /\ m_ncount' = m_ncount - 1
  BY DEF forget_client, DefaultAfterClose
<1>2. m_clients[scan] \in Registered
  BY <1>1 DEF IInv, ScanInv, Registered
<1>3. /\ IsFiniteSet(Registered) /\ Cardinality(Registered) \in Nat
      /\ m_ncount = Cardinality(Registered)
  BY TablesAreFinite DEF IInv, RegistryAgrees
<1>4. m_ncount > 0
  BY <1>2, <1>3, FS_EmptySet
<1>5. ASSUME m_pclient_' # NULL PROVE m_pclient_ # NULL /\ m_ncount > 1
  <2>1. m_pclient_ # NULL /\ m_pclient_ # m_clients[scan]
    BY <1>1, <1>5
  <2>2. m_pclient_ \in Registered \ {m_clients[scan]}
    BY <1>1, <2>1, AcceptedIsRegistered DEF IInv, DefaultClientIsLive
  <2>3. /\ IsFiniteSet(Registered \ {m_clients[scan]})
        /\ Cardinality(Registered \ {m_clients[scan]}) = Cardinality(Registered) - 1
    BY <1>2, <1>3, FS_RemoveElement
  <2>4. Cardinality(Registered \ {m_clients[scan]}) # 0
    BY <2>2, <2>3, FS_EmptySet
  <2> QED
    BY <1>3, <1>4, <2>1, <2>3, <2>4
<1> QED
  BY <1>1, <1>4, <1>5 DEF Presence!Close

\* The end of a scan chooses a default client, or leaves things as they are.
LEMMA ChooseChooses ==
  ASSUME IInv, broken = "no", choose_default
  PROVE  Presence!Choose \/ UNCHANGED Presence!vars
<1>1. /\ lis_pc = "scan" /\ lis_pc' = "newconn" /\ m_ncount' = m_ncount
      /\ NewDefault(m_pclient_')
  BY DEF choose_default
<1>2. CASE m_pclient_' = m_pclient_
  BY <1>1, <1>2 DEF Presence!vars
<1>3. CASE m_pclient_' # m_pclient_
  <2>1. PICK i \in Indices : m_clients[i] # NULL /\ m_pclient_' = m_clients[i]
    BY <1>1, <1>3 DEF NewDefault
  <2>2. m_pclient_ = NULL
    BY <1>1, <1>3 DEF NewDefault
  <2>3. Registered # {}
    BY <2>1 DEF Registered
  <2>4. m_ncount = Cardinality(Registered) /\ IsFiniteSet(Registered) /\ m_ncount \in Nat
    BY TablesAreFinite DEF IInv, RegistryAgrees
  <2>5. m_ncount > 0
    BY <2>3, <2>4, FS_EmptySet
  <2> QED
    BY <1>1, <2>1, <2>2, <2>5 DEF Presence!Choose
<1> QED
  BY <1>2, <1>3

\* A client is accepted only when there is a default client or no client.
LEMMA AcceptAccepts ==
  ASSUME IInv, broken = "no", accept_connection
  PROVE  Presence!Accept
<1> USE ServerAssumption
<1>1. /\ lis_pc = "newconn" /\ lis_pc' = "callback"
      /\ backlog # <<>> /\ m_ncount' = m_ncount + 1
      /\ m_pclient_' = IF m_pclient_ = NULL THEN Head(backlog) ELSE m_pclient_
  BY DEF accept_connection, DefaultAfterAccept
<1>2. Head(backlog) \in Conns
  BY <1>1 DEF IInv, TypeOK
<1>3. m_pclient_' # NULL
  BY <1>1, <1>2
<1>4. m_pclient_ # NULL \/ m_ncount = 0
  <2>1. Accepted = Registered
    BY <1>1, AcceptedIsRegistered DEF IInv
  <2>2. m_pclient_ = NULL => Registered = {}
    BY <1>1, <2>1 DEF IInv, DefaultInv
  <2> QED
    BY <2>2, FS_EmptySet DEF IInv, RegistryAgrees
<1> QED
  BY <1>1, <1>3, <1>4 DEF Presence!Accept

\* SockServer implements ClientPresence: for any connections and table lengths
\* the HAL sees its clients come and go as SensorDevice assumes it.
THEOREM ServerImplementsPresence == Spec => ImplementsPresence
<1>1. Init => Presence!Init
  BY DEF Init, Presence!Init
<1>2. IInv /\ [Next]_vars => [Presence!Next]_(Presence!vars)
  <2> SUFFICES ASSUME IInv, [Next]_vars
               PROVE  [Presence!Next]_(Presence!vars)
    OBVIOUS
  <2>1. CASE connected_callback
    BY <2>1 DEF connected_callback, srvVars, Presence!Next, Presence!Announce
  <2>2. CASE accept_connection /\ broken = "no"
    BY <2>2, AcceptAccepts DEF Presence!Next
  <2>3. CASE forget_client /\ broken = "no"
    BY <2>3, ForgetCloses DEF Presence!Next
  <2>4. CASE choose_default /\ broken = "no"
    BY <2>4, ChooseChooses DEF Presence!Next
  <2>5. CASE /\ UNCHANGED <<m_ncount, m_pclient_>>
             /\ lis_pc' = lis_pc \/ (lis_pc # "callback" /\ lis_pc' # "callback")
    BY <2>5 DEF Presence!vars
  <2>6. \/ connected_callback
        \/ broken = "no" /\ (accept_connection \/ forget_client \/ choose_default)
        \/ /\ UNCHANGED <<m_ncount, m_pclient_>>
           /\ lis_pc' = lis_pc \/ (lis_pc # "callback" /\ lis_pc' # "callback")
    BY DEF Next, Listener, ListenerStep, connect, send_message, disconnect, no_new_connection,
           refuse_connection, sock_server_clients_readable, scan_nothing, scan_readable, message_received,
           Scanning, scan_disconnect, get_sock_client, send_data, srvVars, lisVars, vars
  <2> QED
    BY <2>1, <2>2, <2>3, <2>4, <2>5, <2>6
<1> QED
  BY <1>1, <1>2, ServerInvariant, PTL DEF Spec, ImplementsPresence, Presence!Spec
=============================================================================
