---------------------------- MODULE SensorTypes ----------------------------
(***************************************************************************)
(* The sensor tables of sensors_vhal.h and sensors_vhal.cpp: handles,      *)
(* sensor types and the conversions between them.  A sensor type is named  *)
(* by the suffix of its SENSOR_TYPE_ macro; the name of any type that no   *)
(* switch statement of the code mentions (e.g. "PRESSURE") stands for an   *)
(* unsupported type.                                                       *)
(***************************************************************************)
EXTENDS Integers

MAX_NUM_SENSORS == 9

\* ID_BASE .. ID_BASE + 8: the handles, which are also the indices of the
\* arrays m_sensors, m_flush_count and m_sensor_config_status and the bits
\* of m_pending_sensors.
Handles == 0 .. MAX_NUM_SENSORS - 1

ID_MAGNETIC_FIELD == 2
ID_MAGNETIC_FIELD_UNCALIBRATED == 5

\* The switch of get_handle_from_type, as a function on the supported types.
get_handle_from_type ==
  [ ACCELEROMETER               |-> 0,
    MAGNETIC_FIELD              |-> ID_MAGNETIC_FIELD,
    GYROSCOPE                   |-> 1,
    ACCELEROMETER_UNCALIBRATED  |-> 3,
    GYROSCOPE_UNCALIBRATED      |-> 4,
    MAGNETIC_FIELD_UNCALIBRATED |-> ID_MAGNETIC_FIELD_UNCALIBRATED,
    LIGHT                       |-> 6,
    AMBIENT_TEMPERATURE         |-> 8,
    PROXIMITY                   |-> 7 ]

SupportedTypes == DOMAIN get_handle_from_type

\* (Seeded fault: the last two sensors in the order of the sensor list.)
get_type_from_hanle_by_list ==
  [h \in Handles |->
     << "ACCELEROMETER", "GYROSCOPE", "MAGNETIC_FIELD",
        "ACCELEROMETER_UNCALIBRATED", "GYROSCOPE_UNCALIBRATED",
        "MAGNETIC_FIELD_UNCALIBRATED", "LIGHT", "AMBIENT_TEMPERATURE",
        "PROXIMITY" >>[h + 1]]

\* The switch of get_type_from_hanle.
get_type_from_hanle ==
  [h \in Handles |->
     << "ACCELEROMETER", "GYROSCOPE", "MAGNETIC_FIELD",
        "ACCELEROMETER_UNCALIBRATED", "GYROSCOPE_UNCALIBRATED",
        "MAGNETIC_FIELD_UNCALIBRATED", "LIGHT", "PROXIMITY",
        "AMBIENT_TEMPERATURE" >>[h + 1]]

\* The number of floats of a payload; 0 for a type the HAL does not support.
get_payload_len(sensor_type) ==
  IF sensor_type \in {"ACCELEROMETER", "GYROSCOPE", "MAGNETIC_FIELD"} THEN 3
  ELSE IF sensor_type \in {"ACCELEROMETER_UNCALIBRATED", "GYROSCOPE_UNCALIBRATED",
                           "MAGNETIC_FIELD_UNCALIBRATED"} THEN 6
  ELSE IF sensor_type \in {"LIGHT", "PROXIMITY", "AMBIENT_TEMPERATURE"} THEN 1
  ELSE 0

\* An entry of the sensor list; its delays, which bind only the framework, and
\* what it says of the sensor's values are left out.
sensor_t(handle, type) == [handle |-> handle, type |-> type]

\* The list that get_sensors_list gives to the framework.
sSensorListInit ==
  { sensor_t(0, "ACCELEROMETER"),
    sensor_t(1, "GYROSCOPE"),
    sensor_t(ID_MAGNETIC_FIELD, "MAGNETIC_FIELD"),
    sensor_t(3, "ACCELEROMETER_UNCALIBRATED"),
    sensor_t(4, "GYROSCOPE_UNCALIBRATED"),
    sensor_t(ID_MAGNETIC_FIELD_UNCALIBRATED, "MAGNETIC_FIELD_UNCALIBRATED"),
    sensor_t(6, "LIGHT"),
    sensor_t(8, "AMBIENT_TEMPERATURE"),
    sensor_t(7, "PROXIMITY") }
============================================================================
