--------------------------- MODULE ClientPresence ---------------------------
(***************************************************************************)
(* What class SockServer promises the sensor HAL about its clients: an     *)
(* abstract specification that SockServer implements, and that is all      *)
(* SensorDevice takes from it.                                             *)
(*                                                                         *)
(* Clients come and go one at a time.  A new one is announced before       *)
(* anything else happens to the clients, and there is then a client to     *)
(* send to.  The HAL is without a default client only if it has no client  *)
(* at all, or until the listener has chosen one of those that are left; no *)
(* client is accepted before that.                                         *)
(***************************************************************************)
EXTENDS Naturals

VARIABLES
  clients,      \* number of clients
  has_default,  \* is there a default client?
  announcing    \* a client has been accepted and not been announced

vars == <<clients, has_default, announcing>>

Init ==
  /\ clients = 0
  /\ has_default = FALSE
  /\ announcing = FALSE

\* A client is accepted; the first one is the default client.
Accept ==
  /\ ~announcing
  /\ has_default \/ clients = 0
  /\ clients' = clients + 1
  /\ has_default' = TRUE
  /\ announcing' = TRUE

\* The HAL has been told of the new client.
Announce ==
  /\ announcing
  /\ announcing' = FALSE
  /\ UNCHANGED <<clients, has_default>>

\* A client is closed, the default client or another one.
Close ==
  /\ ~announcing
  /\ clients > 0
  /\ clients' = clients - 1
  /\ has_default' \in BOOLEAN
  /\ has_default' => has_default /\ clients > 1
  /\ UNCHANGED announcing

\* One of the clients left becomes the default client.
Choose ==
  /\ ~announcing
  /\ clients > 0
  /\ ~has_default
  /\ has_default' = TRUE
  /\ UNCHANGED <<clients, announcing>>

Next == Accept \/ Announce \/ Close \/ Choose

Spec == Init /\ [][Next]_vars
=============================================================================
