--------------------------- MODULE MCSensorDevice ---------------------------
(* Small instances of SensorDevice for TLC.                                *)
EXTENDS SensorDevice

\* The two magnetic field sensors (which share code) and an unsupported one.
MagneticTypes == {"MAGNETIC_FIELD", "MAGNETIC_FIELD_UNCALIBRATED", "PRESSURE"}

=============================================================================
