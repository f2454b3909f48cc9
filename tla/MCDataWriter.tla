---------------------------- MODULE MCDataWriter ----------------------------
(***************************************************************************)
(* DataWriter for TLC.                                                     *)
(***************************************************************************)
EXTENDS DataWriter

CONSTANTS p1, p2
=============================================================================
