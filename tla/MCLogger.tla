------------------------------ MODULE MCLogger ------------------------------
(* The log of the client, which has one thread, and of a server with two. *)
EXTENDS Logger

CONSTANTS main, w

ClientAndServer == {{main}, {main, w}}
=============================================================================
