------------------------------ MODULE MCUsbPort -----------------------------
(***************************************************************************)
(* The port for TLC: five codes for the limit, of which two mean more than *)
(* the lowest current, sources of every strength from the lowest current   *)
(* on, and one setting of the limit by userspace.                          *)
(***************************************************************************)
EXTENDS UsbPort, TLC
=============================================================================
