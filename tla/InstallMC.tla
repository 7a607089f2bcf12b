------------------------------ MODULE InstallMC -----------------------------
(***************************************************************************)
(* Install with a /dev of two ttys and another device, an exit string of   *)
(* four characters that begins as some of the outputs do.                  *)
(***************************************************************************)
EXTENDS Install

MCNames == <<"null", "ttyACM0", "ttyUSB0">>
MCExitString == <<"D", "O", "!", "LF">>
MCOutputs == {<<"D", "O", "CR">>, <<"D">>}

=============================================================================
