----------------------------- MODULE MCStartup -----------------------------
(* Startup for TLC: MCStartup.cfg and MCStartupFirst.cfg. *)
EXTENDS Startup
=============================================================================
