---------------------------- MODULE MCRegulator ----------------------------
(***************************************************************************)
(* Instances of Regulator for TLC.                                         *)
(***************************************************************************)
EXTENDS Regulator

CONSTANTS j1, j2, h1, h2
=============================================================================
