----------------------------- MODULE MCDotnetAdapter -----------------------------
(* Small instances of DotnetAdapter for TLC. *)
EXTENDS DotnetAdapter

CONSTANTS x1, x2, d1
==================================================================================
