-------------------------------- MODULE MCI2c --------------------------------
EXTENDS I2cTransport

(* A short command with room for a chained response; a chained command with *)
(* room for less than a full fragment.                                       *)
MCSizes == {<<1, 2>>, <<2, 0>>}
=============================================================================
