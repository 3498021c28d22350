------------------------------ MODULE MCSerial ------------------------------
(***************************************************************************)
(* Rates and bytes for Serial: two bytes, up to three sent and three      *)
(* received, so that a second serial_out meets a holding register still   *)
(* full and serial_in meets an empty and a full FIFO.                     *)
(***************************************************************************)
EXTENDS Serial, TLC

(* Rates whose divisor fits in the low byte (115200, 38400: 1 and 3), and *)
(* 9600 (12); 300 needs a high byte (384 = 0x180).                          *)
MCBauds == {115200, 38400, 9600}
MCBaudsLow == {300}
=============================================================================
