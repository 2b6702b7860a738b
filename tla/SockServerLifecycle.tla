------------------------ MODULE SockServerLifecycle ------------------------
(***************************************************************************)
(* The life of the HAL's socket server: open_sensors constructs a          *)
(* SensorDevice, which constructs and starts a SockServer; sensor_close    *)
(* destroys them; and the process may die at any time and be started       *)
(* again, with what it left behind in the file system and in the TCP stack.*)
(*                                                                         *)
(* The listener is reduced to what concerns descriptors, objects and the   *)
(* end of the thread: it accepts, closes and receives, and may be inside   *)
(* recv_data for as long as a client leaves its message unfinished (see    *)
(* SockServer and EventFraming).  The clients are at most MAX_CLIENTS, the *)
(* elements of m_clients that the destructor deletes; a greater id is      *)
(* undefined behaviour when the client is accepted ("index" of SockServer).*)
(***************************************************************************)

CONSTANTS
  Conns,      \* client connections, by their descriptors
  NULL,
  SockTypes   \* values of the socket type property: "INET", "UNIX"

ASSUME LifecycleAssumption ==
  /\ NULL \notin Conns \cup {"live", "deleted"}
  /\ "listen" \notin Conns
  /\ SockTypes \subseteq {"INET", "UNIX"}

VARIABLES
  leftover,      \* addresses of an earlier server: the socket file, TIME_WAIT
  bind_failed,   \* history: has bind found the address in use?
  pc,            \* where the framework's thread is
  m_sock_type,
  fds,           \* open descriptors of the process
  m_server,      \* NULL, "live" or "deleted"
  m_be_working,
  client_slots,  \* descriptors in the slots
  m_clients,     \* connections with a live proxy
  lis_pc         \* where the listener thread is

envVars == <<leftover, bind_failed>>
lisVars == <<lis_pc, client_slots, m_clients>>
vars == <<envVars, pc, m_sock_type, fds, m_server, m_be_working, lisVars>>

Init ==
  /\ leftover = {}
  /\ bind_failed = FALSE
  /\ pc = "down"
  /\ m_sock_type \in SockTypes
  /\ fds = {}
  /\ m_server = NULL
  /\ m_be_working = FALSE
  /\ client_slots = {}
  /\ m_clients = {}
  /\ lis_pc = "none"

-----------------------------------------------------------------------------
\* The process dies: a crash, or _exit(-1) in sock_server_init.  The kernel
\* closes the descriptors; a bound address outlives them.
die ==
  /\ leftover' = IF m_server = "live" \/ pc = "listen" THEN leftover \cup {m_sock_type}
                 ELSE leftover
  /\ pc' = "down"
  /\ fds' = {}
  /\ m_server' = NULL
  /\ m_be_working' = FALSE
  /\ client_slots' = {}
  /\ m_clients' = {}
  /\ lis_pc' = "none"
  /\ UNCHANGED <<bind_failed, m_sock_type>>

crash == pc # "down" /\ die

boot ==
  /\ pc = "down"
  /\ pc' = "closed"
  /\ UNCHANGED <<envVars, m_sock_type, fds, m_server, m_be_working, lisVars>>

-----------------------------------------------------------------------------
\* open_sensors, SensorDevice::SensorDevice and SockServer::start.

\* The type of the socket is chosen and start calls sock_server_init.
open_sensors ==
  /\ pc = "closed"
  /\ pc' = "socket"
  /\ m_sock_type' \in SockTypes
  /\ m_be_working' = TRUE
  /\ UNCHANGED <<envVars, fds, m_server, lisVars>>

init_socket ==
  /\ pc = "socket"
  /\ fds' = fds \cup {"listen"}
  /\ pc' = "opts"
  /\ UNCHANGED <<envVars, m_sock_type, m_server, m_be_working, lisVars>>

\* (Seeded fault: nothing is done about an address in use.)
address_freed_never == leftover

\* A stale socket file is unlinked; SO_REUSEADDR makes bind ignore TIME_WAIT.
address_freed == leftover \ {m_sock_type}

\* setsockopt for INET; access and unlink for UNIX.
init_opts ==
  /\ pc = "opts"
  /\ leftover' = address_freed
  /\ pc' = "bind"
  /\ UNCHANGED <<bind_failed, m_sock_type, fds, m_server, m_be_working, lisVars>>

\* A failing setsockopt ends the process.
init_opts_exits == pc = "opts" /\ m_sock_type = "INET" /\ die

init_bind ==
  /\ pc = "bind"
  /\ m_sock_type \notin leftover
  /\ pc' = "listen"
  /\ UNCHANGED <<envVars, m_sock_type, fds, m_server, m_be_working, lisVars>>

\* close(socketfd), if socket() succeeded.
init_fails == fds \ {"listen"}

\* NULL is returned: socket, ioctl, unlink, bind or listen failed.  start
\* returns -1, which the constructor of SensorDevice ignores.
init_returns_null ==
  /\ pc \in {"socket", "opts", "bind", "listen"}
  /\ bind_failed' = (bind_failed \/ (pc = "bind" /\ m_sock_type \in leftover))
  /\ leftover' = IF pc = "listen" THEN leftover \cup {m_sock_type} ELSE leftover
  /\ fds' = init_fails
  /\ pc' = "open"
  /\ UNCHANGED <<m_sock_type, m_server, m_be_working, lisVars>>

\* listen, the sock_server_t and the listener thread.
start ==
  /\ pc = "listen"
  /\ m_server' = "live"
  /\ lis_pc' = "loop"
  /\ pc' = "open"
  /\ UNCHANGED <<envVars, m_sock_type, fds, m_be_working, client_slots, m_clients>>

-----------------------------------------------------------------------------
\* The listener thread.

\* (Seeded fault: the loop does not test m_be_working.)
listener_loop_endless ==
  /\ lis_pc = "loop"
  /\ lis_pc' = "work"
  /\ UNCHANGED <<fds, client_slots, m_clients>>

listener_loop ==
  /\ lis_pc = "loop"
  /\ lis_pc' = IF m_be_working THEN "work" ELSE "quit"
  /\ UNCHANGED <<fds, client_slots, m_clients>>

\* check_new_connection and sock_server_create_client.
accept_client(c) ==
  /\ lis_pc = "work"
  /\ c \notin fds
  /\ fds' = fds \cup {c}
  /\ client_slots' = client_slots \cup {c}
  /\ m_clients' = m_clients \cup {c}
  /\ lis_pc' = "loop"

\* check_new_message: a client has disconnected, sock_server_close_client.
close_client(c) ==
  /\ lis_pc = "work"
  /\ c \in m_clients
  /\ fds' = fds \ {c}
  /\ client_slots' = client_slots \ {c}
  /\ m_clients' = m_clients \ {c}
  /\ lis_pc' = "loop"

\* A client has sent something: the callback receives it.
receive ==
  /\ lis_pc = "work"
  /\ m_clients # {}
  /\ lis_pc' = "receiving"
  /\ UNCHANGED <<fds, client_slots, m_clients>>

\* The callback returns once the client has sent the rest.
received ==
  /\ lis_pc = "receiving"
  /\ lis_pc' = "loop"
  /\ UNCHANGED <<fds, client_slots, m_clients>>

no_event ==
  /\ lis_pc = "work"
  /\ lis_pc' = "loop"
  /\ UNCHANGED <<fds, client_slots, m_clients>>

Frame == UNCHANGED <<envVars, pc, m_sock_type, m_server, m_be_working>>

Listener ==
  /\ \/ listener_loop \/ no_event \/ receive
     \/ \E c \in Conns : accept_client(c) \/ close_client(c)
  /\ Frame

-----------------------------------------------------------------------------
\* sensor_close, ~SensorDevice and ~SockServer.

stop ==
  /\ pc = "open"
  /\ m_be_working' = FALSE
  /\ pc' = "join"
  /\ UNCHANGED <<envVars, m_sock_type, fds, m_server, lisVars>>

\* (Seeded fault: join does not wait.)
joined_at_once == TRUE

\* join: there is no thread, or it has ended.
joined == lis_pc \in {"none", "quit"}

\* (Seeded fault: the clients' descriptors stay open.)
server_fds_listen_only == {"listen"}

\* The descriptors that sock_server_close closes.
server_fds == {"listen"} \cup client_slots

\* sock_server_close: it unlinks server->path, the default path, which is not
\* the path it is bound to: the socket file stays.
sock_server_close ==
  /\ pc = "join"
  /\ joined
  /\ IF m_server = NULL THEN UNCHANGED <<leftover, fds, client_slots, m_server>>
     ELSE /\ fds' = fds \ server_fds
          /\ client_slots' = {}
          /\ leftover' = leftover \cup {m_sock_type}
          /\ m_server' = "deleted"
  /\ pc' = "delete"
  /\ UNCHANGED <<bind_failed, m_sock_type, m_be_working, m_clients, lis_pc>>

\* The rest of the destructors: m_server is cleared, the proxies are deleted.
delete_device ==
  /\ pc = "delete"
  /\ m_clients' = {}
  /\ m_server' = NULL
  /\ lis_pc' = "none"
  /\ pc' = "closed"
  /\ UNCHANGED <<envVars, m_sock_type, fds, m_be_working, client_slots>>

sensor_close == stop \/ sock_server_close \/ delete_device

Next ==
  \/ crash
  \/ boot
  \/ open_sensors
  \/ init_socket \/ init_opts \/ init_opts_exits \/ init_bind \/ init_returns_null
  \/ start
  \/ Listener
  \/ received /\ Frame
  \/ sensor_close

Spec == Init /\ [][Next]_vars

\* The listener and a close under way go on, but no client need ever send the
\* rest of its message.
FairSpec ==
  /\ Spec
  /\ WF_vars(Listener)
  /\ WF_vars(sock_server_close \/ delete_device)

-----------------------------------------------------------------------------
\* Properties.

\* Type invariant of the server's life.
TypeOK ==
  /\ leftover \in SUBSET SockTypes
  /\ bind_failed \in BOOLEAN
  /\ pc \in {"down", "closed", "socket", "opts", "bind", "listen", "open", "join", "delete"}
  /\ m_sock_type \in SockTypes
  /\ fds \in SUBSET (Conns \cup {"listen"})
  /\ m_server \in {NULL, "live", "deleted"}
  /\ m_be_working \in BOOLEAN
  /\ client_slots \in SUBSET Conns
  /\ m_clients \in SUBSET Conns
  /\ lis_pc \in {"none", "loop", "work", "receiving", "quit"}

\* Whatever fails on the way and however often the device is opened and
\* closed, every open descriptor belongs to somebody who will close it, every
\* proxy to an occupied slot, and a closed device leaves none of them.
NothingLeaks ==
  /\ fds = client_slots \cup (IF m_server = "live" \/ pc \in {"opts", "bind", "listen"}
                              THEN {"listen"} ELSE {})
  /\ pc # "delete" => m_clients = client_slots
  /\ pc = "closed" => fds = {} /\ m_clients = {} /\ lis_pc = "none"

\* A listener thread exists only with a server, and the server is not deleted
\* before the thread has ended.
ListenerHasServer == lis_pc \notin {"none", "quit"} => m_server = "live"

\* After a crash, an exit, a close that left its socket file, or a change of the
\* type, bind never finds its own address in use.
AddressIsReusable == ~bind_failed

\* sensor_close returns, unless a client keeps the listener in recv_data with an
\* unfinished message.
CloseReturns ==
  (pc = "join") ~> (pc \in {"closed", "down"} \/ lis_pc = "receiving")

-----------------------------------------------------------------------------
\* The inductive invariant behind these properties.

\* What exists at each point of the framework's thread.
LifeInv ==
  /\ m_server # "live" => lis_pc \in {"none", "quit"} /\ client_slots = {}
  /\ pc \notin {"open", "join"} => m_server # "live"
  /\ pc \notin {"open", "join", "delete"} =>
       m_server = NULL /\ lis_pc = "none" /\ m_clients = {}
  /\ pc = "bind" => m_sock_type \notin leftover

IInv == TypeOK /\ NothingLeaks /\ ListenerHasServer /\ AddressIsReusable /\ LifeInv
=============================================================================
