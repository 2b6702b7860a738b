--------------------------- MODULE MCSensorConfig ---------------------------
(* A small instance of SensorConfig for TLC.                               *)
EXTENDS SensorConfig

\* With 10 ns per ms and integers of three bits: the longest period that fits,
\* the shortest that does not, and a negative one.
MCPeriods == {39, 40, -15}
=============================================================================
