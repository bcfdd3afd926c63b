------------------------------ MODULE MCUsbHost ------------------------------
(* UsbHost for TLC. *)
EXTENDS UsbHost

TwoDevices == {"keyboard", "mouse"}
SlowKeyboard == {"keyboard"}
ClassOf == [d \in Devices |-> d]
=============================================================================
