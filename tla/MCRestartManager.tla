-------------------------- MODULE MCRestartManager --------------------------
(* Small instances of RestartManager for TLC. *)
EXTENDS RestartManager

CONSTANTS peer, cert, override
=============================================================================
