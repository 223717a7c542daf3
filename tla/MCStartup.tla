----------------------------- MODULE MCStartup -----------------------------
(* The server of MCCrushServer, from its start. *)
EXTENDS Startup, MCCrushServer

EveryListener == <<"pg", "mysql", "redis">>
=============================================================================
