----------------------------- MODULE EventStream -----------------------------
(***************************************************************************)
(* What the sensor HAL promises its framework: an abstract specification   *)
(* of the event path that SensorDevice implements.                         *)
(*                                                                         *)
(* Messages of the clients are numbered as they arrive.  An accepted       *)
(* message is in flight until poll() reports it; poll() reports the oldest *)
(* one in flight, each at most once.  One can only be lost to a newer      *)
(* message when Capacity messages are in flight, or to a flush.  Every     *)
(* flush call is owed one flush-complete event; debts of a sensor are only *)
(* written off all together, by Forget.                                    *)
(***************************************************************************)
EXTENDS Integers, FiniteSets

CONSTANTS
  Capacity,  \* messages that can be in flight before one may be dropped
  Sensors    \* the handles

VARIABLES
  newest,    \* number of the message that arrived last
  inflight,  \* accepted messages that have not been reported
  last,      \* the message reported last, 0 if none
  owed       \* handle -> flush-complete events to report

vars == <<newest, inflight, last, owed>>

Init ==
  /\ newest = 0
  /\ inflight = {}
  /\ last = 0
  /\ owed = [h \in Sensors |-> 0]

\* The next message is accepted ...
Accept ==
  /\ newest' = newest + 1
  /\ inflight' = inflight \cup {newest'}
  /\ UNCHANGED <<last, owed>>

\* ... at the cost of an older one ...
AcceptDropping(old) ==
  /\ Cardinality(inflight) >= Capacity
  /\ newest' = newest + 1
  /\ inflight' = (inflight \ {old}) \cup {newest'}
  /\ UNCHANGED <<last, owed>>

\* ... or refused.
Refuse ==
  /\ newest' = newest + 1
  /\ UNCHANGED <<inflight, last, owed>>

Report(id) ==
  /\ \A other \in inflight : id =< other
  /\ inflight' = inflight \ {id}
  /\ last' = id
  /\ UNCHANGED <<newest, owed>>

\* A flush call; it may overwrite an event that has not been reported.
Flush(h) ==
  /\ owed' = [owed EXCEPT ![h] = @ + 1]
  /\ \/ UNCHANGED inflight
     \/ \E id \in inflight : inflight' = inflight \ {id}
  /\ UNCHANGED <<newest, last>>

Complete(h) ==
  /\ owed[h] > 0
  /\ owed' = [owed EXCEPT ![h] = @ - 1]
  /\ UNCHANGED <<newest, inflight, last>>

\* The sensor's debts are overwritten by its next event.
Forget(h) ==
  /\ owed' = [owed EXCEPT ![h] = 0]
  /\ UNCHANGED <<newest, inflight, last>>

Next ==
  \/ Accept
  \/ Refuse
  \/ \E id \in inflight : AcceptDropping(id) \/ Report(id)
  \/ \E h \in Sensors : Flush(h) \/ Complete(h) \/ Forget(h)

Spec == Init /\ [][Next]_vars
=============================================================================
