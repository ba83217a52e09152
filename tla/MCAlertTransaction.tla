------------------------- MODULE MCAlertTransaction -------------------------
(* TLC instance of AlertTransaction: constants are given values in the cfgs. *)
EXTENDS AlertTransaction
=============================================================================
