--------------------- MODULE SockServerLifecycle_proofs ---------------------
(***************************************************************************)
(* Proofs about the life of the socket server: through failing starts,     *)
(* crashes and restarts no descriptor leaks, no listener outlives its      *)
(* server, and no start finds its own address in use.                      *)
(***************************************************************************)
EXTENDS SockServerLifecycle, TLAPS

LEMMA InitInv == Init => IInv
BY LifecycleAssumption
   DEF Init, IInv, TypeOK, NothingLeaks, ListenerHasServer, AddressIsReusable, LifeInv

\* Types are kept by every step.
LEMMA TypeStep == ASSUME TypeOK, [Next]_vars PROVE TypeOK'
<1> USE LifecycleAssumption DEF TypeOK
<1>1. CASE crash \/ init_opts_exits
  BY <1>1 DEF crash, init_opts_exits, die
<1>2. CASE boot \/ open_sensors \/ init_socket \/ init_bind \/ start
  BY <1>2 DEF boot, open_sensors, init_socket, init_bind, start, envVars, lisVars
<1>3. CASE init_opts \/ init_returns_null
  BY <1>3 DEF init_opts, init_returns_null, address_freed, init_fails, lisVars
<1>4. CASE Listener
  BY <1>4 DEF Listener, Frame, envVars, listener_loop, no_event, receive, accept_client,
              close_client
<1>5. CASE received /\ Frame
  BY <1>5 DEF received, Frame, envVars
<1>6. CASE sensor_close
  BY <1>6 DEF sensor_close, stop, sock_server_close, delete_device, server_fds, envVars,
              lisVars
<1>7. CASE UNCHANGED vars
  BY <1>7 DEF vars, envVars, lisVars
<1> QED
  BY <1>1, <1>2, <1>3, <1>4, <1>5, <1>6, <1>7 DEF Next

\* The rest of the invariant.
LEMMA InvStep == ASSUME IInv, [Next]_vars PROVE IInv'
<1>0. TypeOK'
  BY TypeStep DEF IInv
<1> USE LifecycleAssumption, <1>0
    DEF IInv, TypeOK, NothingLeaks, ListenerHasServer, AddressIsReusable, LifeInv
<1>1. CASE crash \/ init_opts_exits
  BY <1>1 DEF crash, init_opts_exits, die
<1>2. CASE boot \/ open_sensors
  BY <1>2 DEF boot, open_sensors, envVars, lisVars
<1>3. CASE init_socket \/ init_bind
  BY <1>3 DEF init_socket, init_bind, envVars, lisVars
<1>4. CASE start
  BY <1>4 DEF start, envVars, lisVars
<1>5. CASE init_opts
  BY <1>5 DEF init_opts, address_freed, lisVars
<1>6. CASE init_returns_null
  BY <1>6 DEF init_returns_null, init_fails, lisVars
<1>7. CASE Listener
  <2>1. CASE listener_loop /\ Frame
    BY <2>1 DEF listener_loop, Frame, envVars
  <2>2. CASE (no_event \/ receive) /\ Frame
    BY <2>2 DEF no_event, receive, Frame, envVars
  <2>3. ASSUME NEW c \in Conns, accept_client(c), Frame PROVE IInv'
    BY <2>3 DEF accept_client, Frame, envVars
  <2>4. ASSUME NEW c \in Conns, close_client(c), Frame PROVE IInv'
    BY <2>4 DEF close_client, Frame, envVars
  <2> QED
    BY <1>7, <2>1, <2>2, <2>3, <2>4 DEF Listener
<1>8. CASE received /\ Frame
  BY <1>8 DEF received, Frame, envVars
<1>9. CASE stop
  BY <1>9 DEF stop, envVars, lisVars
<1>10. CASE sock_server_close
  BY <1>10 DEF sock_server_close, joined, server_fds
<1>11. CASE delete_device
  BY <1>11 DEF delete_device, envVars
<1>12. CASE UNCHANGED vars
  BY <1>12 DEF vars, envVars, lisVars
<1> QED
  BY <1>1, <1>2, <1>3, <1>4, <1>5, <1>6, <1>7, <1>8, <1>9, <1>10, <1>11, <1>12
     DEF Next, sensor_close

\* The inductive invariant: what exists at each point of open_sensors,
\* sensor_close and the listener.
THEOREM LifecycleInvariant == Spec => []IInv
BY InitInv, InvStep, PTL DEF Spec

\* The state of the server's life has its types.
THEOREM LifecycleTypes == Spec => []TypeOK
<1>1. IInv => TypeOK
  BY DEF IInv
<1> QED
  BY <1>1, LifecycleInvariant, PTL

\* No failing start, close, crash or restart leaks a descriptor or a proxy.
THEOREM NoLeak == Spec => []NothingLeaks
<1>1. IInv => NothingLeaks
  BY DEF IInv
<1> QED
  BY <1>1, LifecycleInvariant, PTL

\* The server is not deleted under its listener, and a start that failed has
\* none.
THEOREM NoOrphanListener == Spec => []ListenerHasServer
<1>1. IInv => ListenerHasServer
  BY DEF IInv
<1> QED
  BY <1>1, LifecycleInvariant, PTL

\* No start finds the address of an earlier server in use.
THEOREM RestartBinds == Spec => []AddressIsReusable
<1>1. IInv => AddressIsReusable
  BY DEF IInv
<1> QED
  BY <1>1, LifecycleInvariant, PTL
=============================================================================
