----------------------------- MODULE MCKeyboard -----------------------------
(***************************************************************************)
(* An instance of Keyboard for TLC, without the way of the interrupts.     *)
(***************************************************************************)
EXTENDS Keyboard
=============================================================================
