--------------------------- MODULE MCConnections ---------------------------
(* Small instances of Connections for TLC: PortLimit stands for 2^16. *)
EXTENDS Connections, TLC

NoPorts == {}
OnePort == {13}
OneTalker == {0}
NoSlaves == {}
OneSlave == {0}
=============================================================================
