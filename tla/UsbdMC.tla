------------------------------- MODULE UsbdMC -------------------------------
(* Small instances of Usbd for TLC: the two modes that share the driver's  *)
(* mass storage, with and without a mode of its own.                       *)
EXTENDS Usbd
MCSharing == {"msc", "charge_only"}
=============================================================================
