-------------------------------- MODULE MCUsbRx --------------------------------
(* Instances of UsbRx for TLC. *)
EXTENDS UsbRx

AllFaults == {"submit", "status", "drop", "memory", "suspend"}
==============================================================================
