------------------------- MODULE MCRealtimeChannel -------------------------
(* RealtimeChannel for TLC: its constants are given in the configuration. *)
EXTENDS RealtimeChannel
=============================================================================
