----------------------------- MODULE Bootstraps -----------------------------
(* What the administrator hands out and the launcher is given.             *)
EXTENDS Naturals

CONSTANTS
  Token,       \* enrollment tokens
  Device       \* device ids

(* A bootstrap payload: the enrollment token and the device id. *)
Bootstrap == Token \X Device

=============================================================================
