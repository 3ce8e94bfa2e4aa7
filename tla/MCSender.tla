-------------------------------- MODULE MCSender --------------------------------
(* Instance of Sender for TLC.                                              *)
EXTENDS Sender
=============================================================================
