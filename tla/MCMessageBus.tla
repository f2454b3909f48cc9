---------------------------- MODULE MCMessageBus ----------------------------
(* A small instance of the bus.                                             *)
EXTENDS MessageBus
=============================================================================
