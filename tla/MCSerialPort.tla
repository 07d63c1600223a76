---------------------------- MODULE MCSerialPort ----------------------------
(***************************************************************************)
(* The instance of SerialPort for TLC: two commands, as in config.ini.     *)
(***************************************************************************)
EXTENDS SerialPort

CONSTANTS set, em   \* the two commands
TwoCommands == <<set, em>>
=============================================================================
