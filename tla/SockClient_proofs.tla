-------------------------- MODULE SockClient_proofs --------------------------
(***************************************************************************)
(* Proofs about class SockClient: no descriptor or object leaks over any   *)
(* number of reconnections and restarts, callbacks come in order, and a    *)
(* send that no disconnection overlaps is safe.                            *)
(***************************************************************************)
EXTENDS SockClient, TLAPS

LEMMA InitInv == Init => IInv
<1> SUFFICES ASSUME Init PROVE IInv
  OBVIOUS
<1> USE ClientAssumption DEF Init
<1>1. TypeOK
  <2>1. server \in BOOLEAN /\ m_be_working \in BOOLEAN /\ overlap \in BOOLEAN
    BY Zenon
  <2>2. unread \in [Socks -> BOOLEAN]
    BY Zenon
  <2> QED
    BY <2>1, <2>2 DEF TypeOK
<1>2. NothingLeaks
  BY DEF NothingLeaks, Held
<1>3. ThreadInv /\ AnnouncedFirst /\ AnnounceInv /\ SendInv
  BY DEF ThreadInv, AnnouncedFirst, AnnounceInv, SendInv
<1>4. SendIsSafeWithoutDisconnect
  BY DEF SendIsSafeWithoutDisconnect
<1> QED
  BY <1>1, <1>2, <1>3, <1>4 DEF IInv

-----------------------------------------------------------------------------
\* The server's steps and the sending thread.

LEMMA ServerStep == ASSUME IInv, Server PROVE IInv'
<1> USE ClientAssumption
<1> DEFINE
      NetTyped ==
        /\ server' \in BOOLEAN
        /\ conn' \in [Socks -> {"free", "open", "up", "shut"}]
        /\ unread' \in [Socks -> BOOLEAN]
        /\ faults' \in Nat
        /\ \A k \in Socks : conn'[k] = "free" <=> conn[k] = "free"
<1>1. NetTyped
  <2>1. CASE server_start
    <3>1. server' \in BOOLEAN
      BY <2>1, Zenon DEF server_start
    <3> QED
      BY <2>1, <3>1 DEF IInv, TypeOK, server_start
  <2>2. CASE server_stop
    <3>1. server' \in BOOLEAN
      BY <2>2, Zenon DEF server_stop
    <3> QED
      BY <2>2, <3>1 DEF IInv, TypeOK, server_stop, fault
  <2>3. ASSUME NEW k \in Socks, server_disconnect(k) PROVE NetTyped
    BY <2>3 DEF IInv, TypeOK, server_disconnect, fault
  <2>4. ASSUME NEW k \in Socks, server_send(k) PROVE NetTyped
    <3>1. unread' \in [Socks -> BOOLEAN]
      BY <2>4, Zenon DEF IInv, TypeOK, server_send
    <3> QED
      BY <2>4, <3>1 DEF IInv, TypeOK, server_send
  <2> QED
    BY <2>1, <2>2, <2>3, <2>4 DEF Server
<1>2. /\ UNCHANGED <<m_client, m_be_working, objs, owner_pc, dead, overlap>>
      /\ UNCHANGED <<lis_pc, socketfd, announced>>
      /\ UNCHANGED <<s_pc, s_client, left_size, errno, parts>>
  BY DEF Server, lisVars, sendVars
<1>3. TypeOK'
  BY <1>1, <1>2 DEF IInv, TypeOK
<1>4. NothingLeaks'
  BY <1>1, <1>2 DEF IInv, NothingLeaks, Held
<1>5. ThreadInv' /\ AnnouncedFirst' /\ AnnounceInv' /\ SendInv'
  BY <1>2 DEF IInv, ThreadInv, AnnouncedFirst, AnnounceInv, SendInv
<1>6. SendIsSafeWithoutDisconnect'
  BY <1>2 DEF IInv, SendIsSafeWithoutDisconnect
<1> QED
  BY <1>3, <1>4, <1>5, <1>6 DEF IInv

LEMMA SenderStep == ASSUME IInv, dead = "no", Sender PROVE IInv'
<1> USE ClientAssumption
<1>1. /\ UNCHANGED <<server, conn, unread, faults>>
      /\ UNCHANGED <<m_client, m_be_working, objs, owner_pc>>
      /\ UNCHANGED <<lis_pc, socketfd, announced>>
  BY DEF Sender, netVars, lisVars
<1>2. /\ s_pc' \in {"idle", "loop", "call"}
      /\ s_client' \in Socks \cup {NULL}
      /\ left_size' \in 0 .. Len
      /\ errno' \in {"0", "EAGAIN", "EPIPE"}
      /\ parts' \in SUBSET Socks
      /\ dead' \in {"no", "exit", "freed"}
      /\ overlap' \in BOOLEAN
  <2>1. CASE send_some
    <3>1. PICK ret \in 1 .. left_size : left_size' = left_size - ret
      BY <2>1 DEF send_some, LeftAfter
    <3>2. left_size \in 0 .. Len /\ left_size' \in 0 .. Len
      BY <3>1 DEF IInv, TypeOK
    <3> QED
      BY <2>1, <3>2 DEF IInv, TypeOK, send_some
  <2>2. CASE send_data \/ read_client \/ use_deleted_client
    <3>1. overlap' \in BOOLEAN
      BY <2>2, Zenon DEF IInv, TypeOK, send_data, read_client, use_deleted_client
    <3> QED
      BY <2>2, <3>1 DEF IInv, TypeOK, send_data, read_client, use_deleted_client, sendVars
  <2>3. CASE send_none
    BY <2>3 DEF IInv, TypeOK, send_none
  <2> QED
    BY <2>1, <2>2, <2>3 DEF Sender
<1>3. TypeOK'
  BY <1>1, <1>2 DEF IInv, TypeOK
<1>4. NothingLeaks' /\ ThreadInv' /\ AnnouncedFirst' /\ AnnounceInv'
  BY <1>1 DEF IInv, NothingLeaks, Held, ThreadInv, AnnouncedFirst, AnnounceInv
\* m_client is alive as long as the listener has not closed it.
<1>5. m_client # NULL /\ lis_pc # "clear" => m_client \in objs
  BY DEF IInv, NothingLeaks, Held
<1>6. SendInv' /\ SendIsSafeWithoutDisconnect'
  <2>1. CASE send_data
    <3>1. dead' # "freed" \/ overlap'
      BY <2>1 DEF Sender, send_data
    <3> QED
      BY <1>1, <2>1, <3>1 DEF IInv, SendInv, SendIsSafeWithoutDisconnect, send_data
  <2>2. CASE read_client
    BY <1>1, <2>2 DEF IInv, TypeOK, SendInv, SendIsSafeWithoutDisconnect, read_client
  <2>3. CASE use_deleted_client
    BY <1>1, <1>5, <2>3 DEF IInv, TypeOK, SendInv, SendIsSafeWithoutDisconnect,
                            use_deleted_client, sendVars
  <2>4. CASE send_some
    BY <1>1, <1>2, <2>4 DEF IInv, SendInv, SendIsSafeWithoutDisconnect, send_some
  <2>5. CASE send_none
    BY <1>1, <1>2, <2>5 DEF IInv, SendInv, SendIsSafeWithoutDisconnect, send_none
  <2> QED
    BY <2>1, <2>2, <2>3, <2>4, <2>5 DEF Sender
<1> QED
  BY <1>3, <1>4, <1>6 DEF IInv

-----------------------------------------------------------------------------
\* The owner.

LEMMA OwnerStep == ASSUME IInv, Owner PROVE IInv'
<1> USE ClientAssumption
<1>1. /\ UNCHANGED <<server, unread, faults, dead, overlap>>
      /\ UNCHANGED <<s_pc, s_client, left_size, errno, parts>>
  BY DEF Owner, sendVars
<1>2. CASE start \/ stop \/ join \/ destroy
  <2>1. UNCHANGED <<conn, objs, m_client, socketfd, announced>>
    BY <1>2 DEF start, stop, join, destroy, lisVars
  <2>2. TypeOK'
    <3>1. m_be_working' \in BOOLEAN
      BY <1>2, Zenon DEF IInv, TypeOK, start, stop, join, destroy
    <3> QED
      BY <1>1, <1>2, <2>1, <3>1 DEF IInv, TypeOK, start, stop, join, destroy, lisVars
  <2>3. NothingLeaks' /\ ThreadInv'
    BY <1>2, <2>1
       DEF IInv, NothingLeaks, ThreadInv, Held, start, stop, join, destroy, lisVars
  <2>4. AnnouncedFirst' /\ AnnounceInv'
    BY <1>2, <2>1
       DEF IInv, AnnouncedFirst, AnnounceInv, start, stop, join, destroy, lisVars
  <2>5. SendInv' /\ SendIsSafeWithoutDisconnect'
    BY <1>1, <1>2, <2>1 DEF IInv, TypeOK, SendInv, SendIsSafeWithoutDisconnect,
                            start, stop, join, destroy, lisVars
  <2> QED
    BY <2>2, <2>3, <2>4, <2>5 DEF IInv
<1>3. CASE destroy_close
  <2>1. /\ lis_pc \in {"none", "quit"} /\ socketfd = NULL /\ s_pc = "idle"
        /\ m_client' = NULL /\ owner_pc' = "gone"
        /\ UNCHANGED <<m_be_working, lis_pc, socketfd>>
    BY <1>3 DEF IInv, ThreadInv, SendInv, destroy_close, destroy_may_close
  <2>2. /\ conn' \in [Socks -> {"free", "open", "up", "shut"}]
        /\ \A k \in Socks : conn'[k] = "free"
        /\ objs' = {}
        /\ announced' \in SUBSET Socks
    <3>1. CASE m_client = NULL
      BY <1>3, <2>1, <3>1
         DEF IInv, TypeOK, NothingLeaks, Held, destroy_close, sock_client_close
    <3>2. CASE m_client # NULL
      BY <1>3, <2>1, <3>2
         DEF IInv, TypeOK, NothingLeaks, Held, destroy_close, sock_client_close
    <3> QED
      BY <3>1, <3>2
  <2>3. TypeOK'
    BY <1>1, <2>1, <2>2 DEF IInv, TypeOK
  <2>4. NothingLeaks' /\ ThreadInv'
    BY <2>1, <2>2 DEF IInv, NothingLeaks, ThreadInv, Held
  <2>5. AnnouncedFirst' /\ AnnounceInv' /\ SendInv' /\ SendIsSafeWithoutDisconnect'
    BY <1>1, <2>1 DEF IInv, AnnouncedFirst, AnnounceInv, SendInv, SendIsSafeWithoutDisconnect
  <2> QED
    BY <2>3, <2>4, <2>5 DEF IInv
<1> QED
  BY <1>2, <1>3 DEF Owner

-----------------------------------------------------------------------------
\* The listener.

\* The steps that only move the listener.
Moves ==
  \/ connect_loop \/ connect_sleep \/ connect_check
  \/ listener_loop \/ check_normal \/ check_disconnect

LEMMA MoveStep ==
  ASSUME IInv, Listener, (Moves /\ UNCHANGED announced) \/ connected_callback
  PROVE  IInv'
<1> USE ClientAssumption
<1>1. /\ UNCHANGED <<server, conn, unread, faults, m_client, objs, socketfd, dead>>
      /\ UNCHANGED <<m_be_working, owner_pc, s_pc, s_client, left_size, errno, parts>>
      /\ lis_pc \notin {"none", "quit", "opened", "connect", "close", "clear"}
      /\ lis_pc' \in {"loop", "connect", "working?", "callback", "listen", "check",
                      "close", "quit"}
      /\ overlap' = overlap
      /\ announced' \in SUBSET Socks /\ announced \subseteq announced'
  BY DEF IInv, TypeOK, ThreadInv, Moves, connected_callback, connect_loop, connect_sleep,
         connect_check, listener_loop, check_normal, check_disconnect, GoTo, Listener,
         netVars, sendVars
<1>2. TypeOK'
  BY <1>1 DEF IInv, TypeOK
<1>3. NothingLeaks'
  BY <1>1 DEF IInv, TypeOK, NothingLeaks, ThreadInv, Held
<1>4. ThreadInv'
  BY <1>1 DEF IInv, ThreadInv, Moves, connected_callback, connect_loop, connect_sleep,
              connect_check, listener_loop, check_normal, check_disconnect, GoTo,
              sock_client_check_connect
<1>5. AnnouncedFirst' /\ AnnounceInv'
  BY <1>1 DEF IInv, ThreadInv, AnnouncedFirst, AnnounceInv, Moves, connected_callback,
              connect_loop, connect_sleep, connect_check, listener_loop, check_normal,
              check_disconnect, GoTo
<1>6. SendInv' /\ SendIsSafeWithoutDisconnect'
  BY <1>1 DEF IInv, SendInv, SendIsSafeWithoutDisconnect
<1> QED
  BY <1>2, <1>3, <1>4, <1>5, <1>6 DEF IInv

\* sock_client_init.
LEMMA ConnectStep ==
  ASSUME IInv, Listener,
         init_socket \/ init_setsockopt_fails \/ init_fails \/ init_connects
  PROVE  IInv'
<1> USE ClientAssumption
<1>1. /\ UNCHANGED <<server, announced, m_be_working, owner_pc>>
      /\ UNCHANGED <<s_pc, s_client, left_size, errno, parts>>
      /\ lis_pc \in {"connect", "opened"}
      /\ m_client = NULL
      /\ lis_pc' \in {"opened", "sleep", "working?"}
      /\ overlap' = overlap /\ overlap \in BOOLEAN
      /\ faults' \in Nat
      /\ dead' \in {"exit", dead}
      /\ owner_pc \notin {"new", "joined", "gone"}
  BY DEF IInv, TypeOK, ThreadInv, init_socket, init_setsockopt_fails, init_fails,
         init_connects, Listener, lisVars, sendVars, fault
<1>2. /\ conn' \in [Socks -> {"free", "open", "up", "shut"}]
      /\ unread' \in [Socks -> BOOLEAN]
      /\ m_client' \in Socks \cup {NULL}
      /\ socketfd' \in Socks \cup {NULL}
      /\ objs' \in SUBSET Socks
      /\ NothingLeaks'
      /\ ThreadInv'
  <2>1. CASE init_socket
    BY <1>1, <2>1 DEF IInv, TypeOK, NothingLeaks, Held, ThreadInv, init_socket
  <2>2. CASE init_setsockopt_fails
    BY <1>1, <2>2
       DEF IInv, TypeOK, NothingLeaks, Held, ThreadInv, init_setsockopt_fails, lisVars
  <2>3. CASE init_fails
    BY <1>1, <2>3
       DEF IInv, TypeOK, NothingLeaks, Held, ThreadInv, init_fails, close_socketfd
  <2>4. CASE init_connects
    BY <1>1, <2>4 DEF IInv, TypeOK, NothingLeaks, Held, ThreadInv, init_connects
  <2> QED
    BY <2>1, <2>2, <2>3, <2>4
<1>3. TypeOK'
  BY <1>1, <1>2 DEF IInv, TypeOK
<1>4. AnnouncedFirst' /\ AnnounceInv'
  BY <1>1 DEF AnnouncedFirst, AnnounceInv
<1>5. SendInv' /\ SendIsSafeWithoutDisconnect'
  BY <1>1 DEF IInv, SendInv, SendIsSafeWithoutDisconnect
<1> QED
  BY <1>2, <1>3, <1>4, <1>5 DEF IInv

\* check_new_message: a message, or the two halves of a disconnection.
LEMMA MessageStep ==
  ASSUME IInv, Listener, check_readable \/ close_disconnected \/ clear_client
  PROVE  IInv'
<1> USE ClientAssumption
<1>1. /\ UNCHANGED <<server, faults, m_be_working, owner_pc, dead, socketfd>>
      /\ UNCHANGED <<s_pc, s_client, left_size, errno, parts>>
      /\ lis_pc \in {"check", "close", "clear"}
      /\ m_client # NULL /\ m_client \in Socks /\ socketfd = NULL
      /\ owner_pc \notin {"new", "joined", "gone"}
      /\ overlap \in BOOLEAN
      /\ overlap' = (overlap \/ lis_pc = "close")
  BY DEF IInv, TypeOK, ThreadInv, check_readable, close_disconnected, clear_client,
         Listener, netVars, sendVars, sock_client_check_connect
<1>2. CASE check_readable
  <2>1. /\ UNCHANGED <<conn, m_client, objs, announced>>
        /\ unread' \in [Socks -> BOOLEAN]
        /\ lis_pc = "check" /\ lis_pc' = "listen"
    BY <1>2 DEF IInv, TypeOK, check_readable
  <2>2. TypeOK'
    BY <1>1, <2>1 DEF IInv, TypeOK
  <2>3. NothingLeaks' /\ ThreadInv' /\ AnnouncedFirst' /\ AnnounceInv'
    BY <1>1, <2>1 DEF IInv, NothingLeaks, Held, ThreadInv, AnnouncedFirst, AnnounceInv
  <2>4. SendInv' /\ SendIsSafeWithoutDisconnect'
    BY <1>1, <2>1 DEF IInv, SendInv, SendIsSafeWithoutDisconnect
  <2> QED
    BY <2>2, <2>3, <2>4 DEF IInv
<1>3. CASE close_disconnected
  <2>1. /\ conn' = [conn EXCEPT ![m_client] = "free"]
        /\ objs' = objs \ {m_client}
        /\ announced' = announced \ {m_client}
        /\ lis_pc = "close" /\ lis_pc' = "clear"
        /\ UNCHANGED <<unread, m_client>>
    BY <1>1, <1>3 DEF close_disconnected, sock_client_close
  <2>2. TypeOK'
    BY <1>1, <2>1 DEF IInv, TypeOK
  <2>3. NothingLeaks'
    BY <1>1, <2>1 DEF IInv, TypeOK, NothingLeaks, Held
  <2>4. ThreadInv' /\ AnnouncedFirst' /\ AnnounceInv'
    BY <1>1, <2>1 DEF IInv, ThreadInv, AnnouncedFirst, AnnounceInv
  <2>5. SendInv' /\ SendIsSafeWithoutDisconnect'
    BY <1>1, <2>1 DEF IInv, SendInv, SendIsSafeWithoutDisconnect
  <2> QED
    BY <2>2, <2>3, <2>4, <2>5 DEF IInv
<1>4. CASE clear_client
  <2>1. /\ UNCHANGED <<conn, unread, objs, announced>>
        /\ m_client' = NULL
        /\ lis_pc = "clear" /\ lis_pc' = "loop"
    BY <1>4 DEF clear_client, ClearedClient, netVars
  <2>2. TypeOK'
    BY <1>1, <2>1 DEF IInv, TypeOK
  <2>3. NothingLeaks' /\ ThreadInv' /\ AnnouncedFirst' /\ AnnounceInv'
    BY <1>1, <2>1 DEF IInv, TypeOK, NothingLeaks, Held, ThreadInv, AnnouncedFirst, AnnounceInv
  <2>4. SendInv' /\ SendIsSafeWithoutDisconnect'
    BY <1>1, <2>1 DEF IInv, SendInv, SendIsSafeWithoutDisconnect
  <2> QED
    BY <2>2, <2>3, <2>4 DEF IInv
<1> QED
  BY <1>2, <1>3, <1>4

-----------------------------------------------------------------------------
\* The theorems.

LEMMA InvStep == ASSUME IInv, [Next]_vars PROVE IInv'
<1>1. CASE Server
  BY <1>1, ServerStep
<1>2. CASE Listener
  BY <1>2, MoveStep, ConnectStep, MessageStep DEF Listener, Moves
<1>3. CASE Owner
  BY <1>3, OwnerStep
<1>4. CASE dead = "no" /\ Sender
  BY <1>4, SenderStep
<1>5. CASE UNCHANGED vars
  BY <1>5 DEF vars, netVars, lisVars, sendVars, IInv, TypeOK, NothingLeaks, Held, ThreadInv,
              AnnouncedFirst, AnnounceInv, SendIsSafeWithoutDisconnect, SendInv
<1> QED
  BY <1>1, <1>2, <1>3, <1>4, <1>5 DEF Next

\* The inductive invariant: who holds which socket at each point of the three
\* threads, and what the sending thread may rely on.
THEOREM ClientInvariant == Spec => []IInv
BY InitInv, InvStep, PTL DEF Spec

\* The client's state has its types.
THEOREM ClientTypes == Spec => []TypeOK
<1>1. IInv => TypeOK
  BY DEF IInv
<1> QED
  BY <1>1, ClientInvariant, PTL

\* No socket or sock_client_t leaks, whatever fails and however often.
THEOREM NoLeak == Spec => []NothingLeaks
<1>1. IInv => NothingLeaks
  BY DEF IInv
<1> QED
  BY <1>1, ClientInvariant, PTL

\* No callback comes before the connected callback of its connection.
THEOREM CallbacksInOrder == Spec => []AnnouncedFirst
<1>1. IInv => AnnouncedFirst
  BY DEF IInv
<1> QED
  BY <1>1, ClientInvariant, PTL

\* Only a disconnection during send_data can make it use a deleted client or
\* split a message.
THEOREM SendsAreSafe == Spec => []SendIsSafeWithoutDisconnect
<1>1. IInv => SendIsSafeWithoutDisconnect
  BY DEF IInv
<1> QED
  BY <1>1, ClientInvariant, PTL
=============================================================================
