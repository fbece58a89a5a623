------------------------------- MODULE Ports -------------------------------
(***************************************************************************)
(* Which TCP port belongs to which rank: the slave computes its two ports  *)
(* (slave.cpp, start_processes), the master the rank and the kind of a     *)
(* port it accepted a connection on (window.hpp, get_rank, src_is_gdb).    *)
(***************************************************************************)
EXTENDS Integers

CONSTANTS
  NumProcs,    \* m_num_processes of the master
  SlaveSize,   \* m_size of the slaves
  BasePort,    \* the base port, the same for both
  PortLimit    \* 2^16: one more than the largest port

ASSUME PortsAssumption ==
  /\ NumProcs \in Nat \ {0} /\ SlaveSize \in Nat /\ PortLimit \in Nat \ {0}
  /\ BasePort \in 0 .. PortLimit - 1      \* StartupDialog::read_values

Ranks == 0 .. NumProcs - 1
Kinds == {"gdb", "trgt"}
Offsets == 0 .. 2 * NumProcs - 1          \* the loop of start_servers

\* Mutant: the size is left out.
SlavePortNoSize(r, kind) == BasePort + r + (IF kind = "trgt" THEN 1 ELSE 0)

\* The port socat is told to connect to; ports beyond the limit do not exist.
SlavePort(r, kind) == BasePort + r + (IF kind = "trgt" THEN SlaveSize ELSE 0)

\* tcp::endpoint and port_type hold the port in 16 bits.
MasterPort(offset) == (BasePort + offset) % PortLimit

src_is_gdb(port) == port < BasePort + NumProcs

get_rank(port) == IF src_is_gdb(port) THEN port - BasePort
                                      ELSE port - BasePort - NumProcs

KindOf(port) == IF src_is_gdb(port) THEN "gdb" ELSE "trgt"

\* No port of the master wraps around.
PortsFit == BasePort + 2 * NumProcs <= PortLimit
=============================================================================
