----------------------------- MODULE SockClient -----------------------------
(***************************************************************************)
(* Class SockClient and sock_client_init/close/check_connect below it: the *)
(* listener thread connects, reconnects whenever the server disconnects,   *)
(* and calls the registered callbacks; another thread sends with           *)
(* send_data, which passes m_client to every sock_client_send, unlocked;   *)
(* the owner starts, stops, joins and destroys the object.                 *)
(*                                                                         *)
(* A socket stands for its descriptor, for the connection made on it and   *)
(* for the sock_client_t that holds it; descriptors and addresses are used *)
(* again once they are free.  The transfer loops, with their modes and     *)
(* timeouts, are those of SockTransfer; here a call that has to wait may   *)
(* wait or give up.                                                        *)
(***************************************************************************)
EXTENDS Integers

CONSTANTS
  Socks,        \* descriptors that socket() returns
  NULL,
  m_conn_type,  \* the constructor's choice: "INET" or "UNIX"
  Len,          \* units of a message
  MaxFaults     \* bound: failing system calls and disconnections

ASSUME ClientAssumption ==
  /\ NULL \notin Socks
  /\ m_conn_type \in {"INET", "UNIX"}
  /\ Len \in Nat \ {0}
  /\ MaxFaults \in Nat

VARIABLES
  server,        \* is the server listening?
  conn,          \* socket -> "free", "open", "up" or "shut" by the server
  unread,        \* socket -> has a message for us
  faults,        \* faults so far
  m_client, m_be_working,
  objs,          \* the live sock_client_t
  lis_pc,        \* where the listener thread is
  socketfd,      \* local of sock_client_init
  owner_pc,      \* where the owner is
  s_pc,          \* where the sending thread is
  s_client,      \* argument of its sock_client_send
  left_size,     \* units it has still to send
  errno,         \* its errno
  dead           \* "no", "exit" by _exit(-1), or "freed": a deleted client was used

\* History, for the properties only.
VARIABLES
  announced,     \* sockets whose connected callback has been called
  parts,         \* sockets that got units of the message being sent
  overlap        \* has a disconnection overlapped this send_data?

netVars  == <<server, conn, unread, faults>>
lisVars  == <<lis_pc, socketfd, announced>>
sendVars == <<s_pc, s_client, left_size, errno, parts>>
vars == <<netVars, m_client, m_be_working, objs, lisVars, owner_pc, sendVars, dead, overlap>>

\* The two constructors.
Init ==
  /\ server \in BOOLEAN
  /\ conn = [k \in Socks |-> "free"]
  /\ unread = [k \in Socks |-> FALSE]
  /\ faults = 0
  /\ m_client = NULL
  /\ m_be_working = FALSE
  /\ objs = {}
  /\ lis_pc = "none"
  /\ socketfd = NULL
  /\ announced = {}
  /\ owner_pc = "new"
  /\ s_pc = "idle"
  /\ s_client = NULL
  /\ left_size = 0
  /\ errno = "0"
  /\ parts = {}
  /\ dead = "no"
  /\ overlap = FALSE

-----------------------------------------------------------------------------
\* The server: it starts, disconnects a client (or crashes) and sends.

fault == faults < MaxFaults /\ faults' = faults + 1

server_start ==
  /\ server' = TRUE
  /\ UNCHANGED <<conn, unread, faults>>

server_stop ==
  /\ server
  /\ fault
  /\ server' = FALSE
  /\ conn' = [k \in Socks |-> IF conn[k] = "up" THEN "shut" ELSE conn[k]]
  /\ UNCHANGED unread

server_disconnect(k) ==
  /\ conn[k] = "up"
  /\ fault
  /\ conn' = [conn EXCEPT ![k] = "shut"]
  /\ UNCHANGED <<server, unread>>

server_send(k) ==
  /\ conn[k] = "up"
  /\ unread' = [unread EXCEPT ![k] = TRUE]
  /\ UNCHANGED <<server, conn, faults>>

Server ==
  /\ server_start \/ server_stop \/ \E k \in Socks : server_disconnect(k) \/ server_send(k)
  /\ UNCHANGED <<m_client, m_be_working, objs, lisVars, owner_pc, sendVars, dead, overlap>>

-----------------------------------------------------------------------------
\* sock_client_init, in the listener thread.

\* socket() succeeds.
init_socket ==
  /\ lis_pc = "connect"
  /\ \E k \in Socks :
       /\ conn[k] = "free"
       /\ conn' = [conn EXCEPT ![k] = "open"]
       /\ unread' = [unread EXCEPT ![k] = FALSE]
       /\ socketfd' = k
  /\ lis_pc' = "opened"
  /\ UNCHANGED <<server, faults, m_client, objs, announced, dead>>

\* setsockopt fails on an INET socket: the whole process exits.
init_setsockopt_fails ==
  /\ lis_pc = "opened"
  /\ m_conn_type = "INET"
  /\ fault
  /\ dead' = "exit"
  /\ UNCHANGED <<server, conn, unread, m_client, objs, lisVars>>

\* (Seeded fault: the descriptor is not closed.)
close_socketfd_leaking == conn

\* close(socketfd)
close_socketfd == IF socketfd = NULL THEN conn ELSE [conn EXCEPT ![socketfd] = "free"]

\* Every other failure: socket(), a path that is too long, connect(), ioctl.
\* NULL is returned and connect_to_server sleeps m_timeout seconds.
init_fails ==
  /\ lis_pc \in {"connect", "opened"}
  /\ \/ lis_pc = "opened" /\ ~server /\ UNCHANGED faults
     \/ fault
  /\ conn' = close_socketfd
  /\ socketfd' = NULL
  /\ lis_pc' = "sleep"
  /\ UNCHANGED <<server, unread, m_client, objs, announced, dead>>

\* connect() and the rest succeed: m_client is set.
init_connects ==
  /\ lis_pc = "opened"
  /\ server
  /\ conn' = [conn EXCEPT ![socketfd] = "up"]
  /\ objs' = objs \cup {socketfd}
  /\ m_client' = socketfd
  /\ socketfd' = NULL
  /\ lis_pc' = "working?"
  /\ UNCHANGED <<server, unread, faults, announced, dead>>

-----------------------------------------------------------------------------
\* The rest of the listener thread.

GoTo(from, to) ==
  /\ lis_pc = from
  /\ lis_pc' = to
  /\ UNCHANGED <<netVars, m_client, objs, socketfd, dead>>

\* connect_to_server: the head of the loop, the sleep and the test of
\* m_be_working at the end of its body ...
connect_loop  == GoTo("loop", IF m_client = NULL THEN "connect" ELSE "callback")
connect_sleep == GoTo("sleep", "working?")

\* (Seeded faults: a client that is connected is not announced; the test is
\* missing.)
connect_check_early == GoTo("working?", IF m_client = NULL THEN "loop" ELSE "listen")
connect_check_never == GoTo("working?", "loop")

connect_check == GoTo("working?", IF m_be_working THEN "loop" ELSE "listen")

\* ... and the callback.
connected_callback ==
  /\ GoTo("callback", "listen")
  /\ announced' = announced \cup {m_client}

\* listener: while (m_be_working)
listener_loop == GoTo("listen", IF m_be_working THEN "check" ELSE "quit")

\* (Seeded fault: nread is not looked at.)
sock_client_check_connect_no_nread ==
  IF m_client = NULL \/ ~(unread[m_client] \/ conn[m_client] = "shut") THEN "normal"
  ELSE "readable"

\* sock_client_check_connect: select, then FIONREAD.
sock_client_check_connect ==
  IF m_client = NULL THEN "normal"
  ELSE IF unread[m_client] THEN "readable"
  ELSE IF conn[m_client] = "shut" THEN "disconnect"
  ELSE "normal"

\* check_new_message: nothing, or m_listener_callback is called, or
\* m_disconnected_callback is.
check_normal == sock_client_check_connect = "normal" /\ GoTo("check", "listen")

\* What is unread stays if no m_listener_callback is registered, or if the
\* application's callback receives less than what has arrived.
check_readable ==
  /\ lis_pc = "check"
  /\ sock_client_check_connect = "readable"
  /\ \E left \in BOOLEAN : unread' = [unread EXCEPT ![m_client] = left]
  /\ lis_pc' = "listen"
  /\ UNCHANGED <<server, conn, faults, m_client, objs, socketfd, announced, dead>>

check_disconnect == sock_client_check_connect = "disconnect" /\ GoTo("check", "close")

\* sock_client_close(m_client): close and delete.
sock_client_close ==
  IF m_client = NULL THEN UNCHANGED <<conn, objs, announced>>
  ELSE /\ conn' = [conn EXCEPT ![m_client] = "free"]
       /\ objs' = objs \ {m_client}
       /\ announced' = announced \ {m_client}

close_disconnected ==
  /\ lis_pc = "close"
  /\ sock_client_close
  /\ lis_pc' = "clear"
  /\ UNCHANGED <<server, unread, faults, m_client, socketfd, dead>>

\* (Seeded fault: m_client keeps its value.)
ClearedClient_kept == m_client

\* m_client = NULL
ClearedClient == NULL

clear_client ==
  /\ lis_pc = "clear"
  /\ m_client' = ClearedClient
  /\ lis_pc' = "loop"
  /\ UNCHANGED <<netVars, objs, socketfd, announced, dead>>

Listener ==
  /\ \/ init_socket \/ init_setsockopt_fails \/ init_fails \/ init_connects
     \/ connected_callback \/ check_readable \/ close_disconnected \/ clear_client
     \/ /\ \/ connect_loop \/ connect_sleep \/ connect_check
           \/ listener_loop \/ check_normal \/ check_disconnect
        /\ UNCHANGED announced
  /\ overlap' = (overlap \/ lis_pc = "close")
  /\ UNCHANGED <<m_be_working, owner_pc, sendVars>>

-----------------------------------------------------------------------------
\* The owner.  It starts a thread again only after it has joined the last one,
\* and destroys the object when nobody is sending.

start ==
  /\ owner_pc \in {"new", "joined"}
  /\ m_be_working' = TRUE
  /\ lis_pc' = "loop"
  /\ owner_pc' = "started"
  /\ UNCHANGED <<conn, objs, m_client, socketfd, announced>>

stop ==
  /\ owner_pc = "started"
  /\ m_be_working' = FALSE
  /\ owner_pc' = "stopped"
  /\ UNCHANGED <<conn, objs, m_client, lisVars>>

join ==
  /\ owner_pc = "stopped"
  /\ lis_pc = "quit"
  /\ owner_pc' = "joined"
  /\ UNCHANGED <<conn, objs, m_client, m_be_working, lisVars>>

\* ~SockClient: stop, ...
destroy ==
  /\ owner_pc \in {"new", "started", "stopped", "joined"}
  /\ s_pc = "idle"
  /\ m_be_working' = FALSE
  /\ owner_pc' = "destroying"
  /\ UNCHANGED <<conn, objs, m_client, lisVars>>

\* ... join if there is a thread, ...
destroy_may_close == lis_pc \in {"none", "quit"}

\* ... and close the client.
destroy_close ==
  /\ owner_pc = "destroying"
  /\ destroy_may_close
  /\ sock_client_close
  /\ m_client' = NULL
  /\ owner_pc' = "gone"
  /\ UNCHANGED <<m_be_working, lis_pc, socketfd>>

Owner ==
  /\ start \/ stop \/ join \/ destroy \/ destroy_close
  /\ UNCHANGED <<server, unread, faults, sendVars, dead, overlap>>

-----------------------------------------------------------------------------
\* The sending thread.

\* send_data: without a client it returns -1 at once.
send_data ==
  /\ s_pc = "idle"
  /\ owner_pc \notin {"destroying", "gone"}
  /\ m_client # NULL
  /\ s_pc' = "loop"
  /\ left_size' = Len
  /\ parts' = {}
  /\ overlap' = (lis_pc = "clear")
  /\ UNCHANGED <<s_client, errno, dead>>

\* sock_client_send(m_client, ...): the pointer is read ...
read_client ==
  /\ s_pc = "loop"
  /\ s_client' = m_client
  /\ s_pc' = "call"
  /\ UNCHANGED <<left_size, errno, parts, dead, overlap>>

\* ... tested and dereferenced.  Undefined behaviour ends the model.
use_deleted_client ==
  /\ s_pc = "call"
  /\ s_client \notin objs \cup {NULL}
  /\ dead' = "freed"
  /\ UNCHANGED <<sendVars, overlap>>

\* left_size -= ret
LeftAfter(ret) == left_size - ret

\* A part of what is left is sent (even after the server has disconnected, if
\* the kernel does not know yet).
send_some ==
  /\ s_pc = "call"
  /\ s_client \in objs
  /\ \E ret \in 1 .. left_size : left_size' = LeftAfter(ret)
  /\ parts' = parts \cup {s_client}
  /\ s_pc' = IF left_size' = 0 THEN "idle" ELSE "loop"
  /\ s_client' = NULL
  /\ UNCHANGED <<errno, dead, overlap>>

\* send would block, or fails, or there is no client: then errno is whatever
\* it was.  EAGAIN is retried, or the call gives up.
send_none ==
  /\ s_pc = "call"
  /\ s_client \in objs \cup {NULL}
  /\ errno' = IF s_client = NULL THEN errno
              ELSE IF conn[s_client] = "up" THEN "EAGAIN" ELSE "EPIPE"
  /\ s_pc' \in IF errno' = "EAGAIN" THEN {"loop", "idle"} ELSE {"idle"}
  /\ s_client' = NULL
  /\ UNCHANGED <<left_size, parts, dead, overlap>>

Sender ==
  /\ send_data \/ read_client \/ use_deleted_client \/ send_some \/ send_none
  /\ UNCHANGED <<netVars, m_client, m_be_working, objs, lisVars, owner_pc>>

Next == dead = "no" /\ (Server \/ Listener \/ Owner \/ Sender)

Spec == Init /\ [][Next]_vars

\* The listener runs (the callbacks it calls return), and a join or destructor that may return does.
FairSpec ==
  /\ Spec
  /\ WF_vars(dead = "no" /\ Listener)
  /\ WF_vars(dead = "no" /\ (join \/ destroy_close) /\ Owner)

-----------------------------------------------------------------------------
\* Properties.

\* Type invariant of the client's state.
TypeOK ==
  /\ server \in BOOLEAN
  /\ conn \in [Socks -> {"free", "open", "up", "shut"}]
  /\ unread \in [Socks -> BOOLEAN]
  /\ faults \in Nat
  /\ m_client \in Socks \cup {NULL}
  /\ m_be_working \in BOOLEAN
  /\ objs \in SUBSET Socks
  /\ lis_pc \in {"none", "loop", "connect", "opened", "sleep", "working?", "callback",
                 "listen", "check", "close", "clear", "quit"}
  /\ socketfd \in Socks \cup {NULL}
  /\ owner_pc \in {"new", "started", "stopped", "joined", "destroying", "gone"}
  /\ s_pc \in {"idle", "loop", "call"}
  /\ s_client \in Socks \cup {NULL}
  /\ left_size \in 0 .. Len
  /\ errno \in {"0", "EAGAIN", "EPIPE"}
  /\ parts \in SUBSET Socks
  /\ dead \in {"no", "exit", "freed"}
  /\ announced \in SUBSET Socks
  /\ overlap \in BOOLEAN

\* The socket that the listener is about to use, if any.
Held == {socketfd} \cup (IF lis_pc = "clear" THEN {} ELSE {m_client})

\* Over any number of failed attempts, reconnections, stops and restarts, the
\* descriptors and objects that exist are those that sock_client_init or
\* m_client holds: none leaks, none is closed twice or used when closed; a
\* destroyed SockClient leaves nothing behind.
NothingLeaks ==
  /\ \A k \in Socks : conn[k] # "free" <=> k \in Held
  /\ objs = Held \ {socketfd, NULL}
  /\ socketfd # NULL => m_client = NULL
  /\ owner_pc = "gone" => \A k \in Socks : conn[k] = "free"

\* The listener and disconnected callbacks are only called for a connection
\* whose connected callback has been called, also after a stop while it was
\* being made and a restart.
AnnouncedFirst ==
  lis_pc \in {"check", "close"} /\ m_client # NULL => m_client \in announced

\* A message goes over one connection, and no deleted client is used, unless
\* the listener closes a connection during the call ("TODO: fix bug, m_client
\* is not NULL", sock_utils.cpp:606).
SendIsSafeWithoutDisconnect ==
  ~overlap => dead # "freed" /\ \A j, k \in parts : j = k

\* If the application's callbacks receive what arrives (no connection has
\* unread bytes for ever: FIONREAD would take them for a message each time and
\* hide the end of the connection), a client that keeps working while the
\* server keeps listening ends up with a connection that is up: refusals and
\* failures are retried, and a disconnection is noticed also when data came
\* before it.
Reconnects ==
  /\ \A k \in Socks : []<>~unread[k]
  /\ <>[](server /\ m_be_working /\ dead = "no")
  => <>[](m_client # NULL /\ conn[m_client] = "up")

\* stop makes the listener quit, so that join and the destructor return,
\* whatever is left unread.  (The application's callbacks return: each is a
\* part of a step of the listener.)
StopReturns ==
  /\ (owner_pc = "stopped") ~> (owner_pc # "stopped" \/ dead # "no")
  /\ (owner_pc = "destroying") ~> (owner_pc = "gone" \/ dead # "no")

-----------------------------------------------------------------------------
\* The inductive invariant behind the safety properties.

\* What the listener and the owner hold at each point.
ThreadInv ==
  /\ socketfd # NULL <=> lis_pc = "opened"
  /\ lis_pc \in {"none", "connect", "opened", "sleep"} => m_client = NULL
  /\ lis_pc \in {"callback", "close", "clear"} => m_client # NULL
  /\ owner_pc = "new" => lis_pc = "none"
  /\ owner_pc = "joined" => lis_pc = "quit"
  /\ owner_pc = "gone" => lis_pc \in {"none", "quit"} /\ m_client = NULL

\* A connection that is not announced is left to a listener that is to quit.
AnnounceInv ==
  lis_pc = "listen" /\ m_client # NULL /\ m_be_working => m_client \in announced

\* Until the listener closes a connection, m_client does not change under the
\* sending thread.
SendInv ==
  /\ owner_pc \in {"destroying", "gone"} => s_pc = "idle"
  /\ s_pc # "idle" /\ ~overlap =>
       /\ m_client # NULL
       /\ lis_pc # "clear"
       /\ parts \subseteq {m_client}
       /\ s_pc = "call" => s_client = m_client

IInv ==
  /\ TypeOK
  /\ NothingLeaks
  /\ ThreadInv
  /\ AnnouncedFirst /\ AnnounceInv
  /\ SendIsSafeWithoutDisconnect /\ SendInv
=============================================================================
