----------------------------- MODULE MCEventTime -----------------------------
(* A small instance of EventTime for TLC.                                  *)
EXTENDS EventTime

\* One client's clock is behind the HAL's, the other's ahead of it.
TwoSkews == [c \in Clients |-> IF c = "behind" THEN -2 ELSE 3]
=============================================================================
