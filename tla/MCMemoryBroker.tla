----------------------------- MODULE MCMemoryBroker -----------------------------
(* Instance of MemoryBroker for TLC.                                        *)
EXTENDS MemoryBroker
=============================================================================
