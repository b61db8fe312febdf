-------------------------- MODULE MCHeartbeatClient --------------------------
(***************************************************************************)
(* HeartbeatClient for TLC.  Connections are not interchangeable: First is *)
(* the one of the start and CHOOSE takes the unused ones in order, so that *)
(* no symmetry is declared.                                                *)
(***************************************************************************)
EXTENDS HeartbeatClient
=============================================================================
