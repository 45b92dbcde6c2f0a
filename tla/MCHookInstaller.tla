-------------------------- MODULE MCHookInstaller --------------------------
(* An instance of HookInstaller for TLC. *)
EXTENDS HookInstaller
=============================================================================
