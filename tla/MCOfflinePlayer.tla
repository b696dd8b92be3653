--------------------------- MODULE MCOfflinePlayer ---------------------------
(* OfflinePlayer for TLC. *)
EXTENDS OfflinePlayer
=============================================================================
