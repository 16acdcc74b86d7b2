----------------------------- MODULE MCConnector -----------------------------
(* Instances of Connector for TLC. *)
EXTENDS Connector

CONSTANTS c1, c2, c3
=============================================================================
