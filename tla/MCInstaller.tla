----------------------------- MODULE MCInstaller -----------------------------
(* TLC's instance of Installer: two runtimes that may replace each other. *)
EXTENDS Installer

CONSTANTS R, S
=============================================================================
