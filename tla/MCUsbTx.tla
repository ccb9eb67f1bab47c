-------------------------------- MODULE MCUsbTx --------------------------------
(***************************************************************************)
(* Small instances of the transmit side: four buffers or more, so that the *)
(* low water mark is not zero, and two kinds of frames.                    *)
(***************************************************************************)
EXTENDS UsbTx
===============================================================================
