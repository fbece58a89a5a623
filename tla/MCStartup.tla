----------------------------- MODULE MCStartup -----------------------------
(* A small instance of Startup for TLC: IntMax stands for 2^31 - 1. *)
EXTENDS Startup, FiniteSetsExt

Indented(n) == [form |-> "indented", num |-> n]
Followed(n) == [form |-> "followed", num |-> n]
NotANumber == [form |-> "word", num |-> 0]

Counts == {NoNumber, Plain(0), Plain(2)}
Paths == {<< >>, <<Blank>>, <<Blank, Word("path")>>}
Arguments2 == {<< >>, <<Blank, Word("arg")>>, <<Word("a"), Blank, Blank, Word("b")>>}

\* Of every length up to one more than a group, with few, all and mixed bits set.
Passwords == {<< >>, <<255>>, <<1, 255>>, <<97, 66, 200>>, <<255, 1, 128, 255>>}

EnteredValues ==
  [launcher            |-> {"mpirun", "srun", "custom"},
   launcher_args       |-> Arguments2,
   number_of_processes |-> Counts \cup {Indented(2), Followed(2), NotANumber,
                                        Plain(-1), Plain(IntMax), Plain(IntMax + 1)},
   processes_per_node  |-> Counts,
   num_nodes           |-> Counts,
   ip_address          |-> Paths,
   base_port           |-> {NoNumber, Plain(-1), Plain(0), Plain(65535), Plain(65536)},
   slave_path          |-> Paths,
   target_path         |-> Paths,
   target_args         |-> Arguments2,
   ssh                 |-> BOOLEAN,
   ssh_address         |-> {<<Word("host")>>},
   ssh_user            |-> {<<Word("user")>>},
   ssh_password        |-> Passwords]

\* One file that is complete, and one with a launcher, a flag and a password that
\* export_config never writes.
Complete ==
  [ExportOf(ReadValues(Cleared)) EXCEPT
     !.number_of_processes = Plain(2), !.base_port = Plain(4),
     !.ip_address = <<Word("ip")>>, !.slave_path = <<Word("slave")>>,
     !.target_path = <<Word("target")>>]

Odd == [Complete EXCEPT !.launcher = "other", !.ssh = "yes", !.ssh_password = <<1, 2, 3>>]

TwoFiles == {Complete, Odd}
=============================================================================
