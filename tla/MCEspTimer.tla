------------------------------ MODULE MCEspTimer -------------------------------
(* Instances of EspTimer for TLC. *)
EXTENDS EspTimer
CONSTANTS t1, t2
AllApis == {"start_once", "start_periodic", "stop", "delete"}
================================================================================
