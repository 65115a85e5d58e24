------------------------------ MODULE MCUsbTx ------------------------------
(* The instance of UsbTx for TLC; the values are in the configuration. *)
EXTENDS UsbTx
=============================================================================
