--------------------------- MODULE MCEventFraming ---------------------------
(* Small instances of EventFraming for TLC.                                *)
EXTENDS EventFraming

\* Two messages the HAL expects and one of a type that it does not support.
MCMsgs ==
  { [type |-> "ACCELEROMETER", data_num |-> 3],
    [type |-> "LIGHT",         data_num |-> 1],
    [type |-> "PRESSURE",      data_num |-> 1] }

MCMaxMsgs == <<2, 1>>
=============================================================================
