------------------------------ MODULE Startup ------------------------------
(***************************************************************************)
(* From the start of the master to its main window (startup.cpp, and       *)
(* master.cpp's main): the startup dialog with its widgets and members,    *)
(* the configuration files it writes and reads, the order in which servers *)
(* and slaves are started, the launch command, and the SSH calls.          *)
(***************************************************************************)
EXTENDS Base64, FiniteSets

CONSTANTS
  Values,       \* the texts the user may enter, by widget
  HandWritten,  \* configuration files written by hand
  IntMax,       \* the largest int: stoi throws beyond
  MaxActs       \* bound: what the user does in the dialog before the last response

VARIABLES
  pc,         \* where main is
  acts,       \* number of things the user has done
  widgets,    \* what the dialog shows
  members,    \* the m_ members of StartupDialog
  is_valid,   \* m_is_valid
  file,       \* the file last written by export_config
  exported,   \* the members when it was written
  listening,  \* the acceptors: "none", "some", "all"
  ret,        \* the local variable of start_slaves
  launched,   \* "no", "local", "ssh"
  argv,       \* the arguments of the launched command
  session,    \* ssh_session
  channel     \* ssh_channel

vars == <<pc, acts, widgets, members, is_valid, file, exported, listening, ret,
          launched, argv, session, channel>>

dialogVars == <<acts, widgets, members, is_valid, file, exported>>

None == [none |-> TRUE]

-----------------------------------------------------------------------------
(* Texts.  A text is a sequence of words and blanks; that of a number is a record. *)

Word(w) == <<w>>
Number(n) == <<"number", n>>
Blank == Word(" ")
NoWord == << >>     \* an argument without a letter

NoNumber == [form |-> "empty", num |-> 0]
Plain(n) == [form |-> "plain", num |-> n]     \* what to_string writes

\* std::stoi with the test of pos: leading blanks are skipped, the rest must be digits,
\* and the number an int.
IsNumber(text, low, high) ==
  text.form \in {"plain", "indented"} /\ low <= text.num /\ text.num <= high

ReadNumber(text, low, high) == IF IsNumber(text, low, high) THEN text.num ELSE -1

Launchers == {"mpirun", "srun", "custom"}
Texts == Seq(Seq(STRING) \ {NoWord})
NumberTexts == [form : {"empty", "word", "plain", "indented", "followed"}, num : Int]

\* What the widgets can show, and what a file can hold.
Dialogs ==
  [launcher : Launchers, launcher_args : Texts, number_of_processes : NumberTexts,
   processes_per_node : NumberTexts, num_nodes : NumberTexts, ip_address : Texts,
   base_port : NumberTexts, slave_path : Texts, target_path : Texts,
   target_args : Texts, ssh : BOOLEAN, ssh_address : Texts, ssh_user : Texts,
   ssh_password : Seq(Bytes)]

Files ==
  [launcher : STRING, launcher_args : Texts, number_of_processes : NumberTexts,
   processes_per_node : NumberTexts, num_nodes : NumberTexts, ip_address : Texts,
   base_port : NumberTexts, slave_path : Texts, target_path : Texts,
   target_args : Texts, ssh : STRING, ssh_address : Texts, ssh_user : Texts,
   ssh_password : Seq(Symbols)]

ASSUME StartupAssumption ==
  /\ IntMax \in Nat /\ IntMax >= 65535 /\ MaxActs \in Nat
  /\ HandWritten \subseteq Files
  /\ Values.launcher \subseteq Launchers /\ Values.launcher_args \subseteq Texts
  /\ Values.number_of_processes \subseteq NumberTexts
  /\ Values.processes_per_node \subseteq NumberTexts
  /\ Values.num_nodes \subseteq NumberTexts /\ Values.ip_address \subseteq Texts
  /\ Values.base_port \subseteq NumberTexts /\ Values.slave_path \subseteq Texts
  /\ Values.target_path \subseteq Texts /\ Values.target_args \subseteq Texts
  /\ Values.ssh \subseteq BOOLEAN /\ Values.ssh_address \subseteq Texts
  /\ Values.ssh_user \subseteq Texts /\ Values.ssh_password \subseteq Seq(Bytes)

-----------------------------------------------------------------------------
(* StartupDialog *)

\* Mutant: the port is any number.
ReadAnyPort(text) == ReadNumber(text, 0, IntMax)

MaxPort == 65535

ReadPort(text) == ReadNumber(text, 0, MaxPort)

\* read_values: what the members are after it; the other members are copied.
ReadValues(w) ==
  [w EXCEPT !.number_of_processes = ReadNumber(@, 1, IntMax),
            !.processes_per_node  = ReadNumber(@, 1, IntMax),
            !.num_nodes           = ReadNumber(@, 1, IntMax),
            !.base_port           = ReadPort(@)]

\* What read_values returns when it is not for an export.
Valid(m) ==
  /\ m.number_of_processes # -1 /\ m.base_port # -1
  /\ m.launcher # "custom" =>
       m.ip_address # << >> /\ m.slave_path # << >> /\ m.target_path # << >>

Written(n, low) == IF n >= low THEN Plain(n) ELSE NoNumber

\* on_save_dialog_response.  Encode gives the empty text for the empty text.  A file has a
\* line per key: no text holds a line end.
ExportOf(m) ==
  [m EXCEPT !.number_of_processes = Written(@, 1),
            !.processes_per_node  = Written(@, 1),
            !.num_nodes           = Written(@, 1),
            !.base_port           = Written(@, 0),
            !.ssh                 = IF @ THEN "true" ELSE "false",
            !.ssh_password        = Encode(@)]

\* read_config: clear_dialog, then set_value for every line that has a value.  A key that
\* is missing from the file is here one with an empty value.
ImportOf(f) ==
  [f EXCEPT !.launcher     = IF @ \in {"srun", "custom"} THEN @ ELSE "mpirun",
            !.ssh          = @ = "true",
            !.ssh_password = IF @ = << >> THEN << >> ELSE Decode(@)]

\* clear_dialog
Cleared ==
  [launcher |-> "mpirun", launcher_args |-> << >>, number_of_processes |-> NoNumber,
   processes_per_node |-> NoNumber, num_nodes |-> NoNumber, ip_address |-> << >>,
   base_port |-> NoNumber, slave_path |-> << >>, target_path |-> << >>,
   target_args |-> << >>, ssh |-> FALSE, ssh_address |-> << >>, ssh_user |-> << >>,
   ssh_password |-> << >>]

Fields == DOMAIN Cleared

Init ==
  /\ pc = "dialog" /\ acts = 0
  /\ widgets = [Cleared EXCEPT !.base_port = Plain(32768)]
  /\ members = [ReadValues(Cleared) EXCEPT !.launcher = "none"]
  /\ is_valid = FALSE
  /\ file = None /\ exported = None
  /\ listening = "none" /\ ret = TRUE /\ launched = "no" /\ argv = << >>
  /\ session = "none" /\ channel = "none"

UserActs ==
  /\ pc = "dialog" /\ acts < MaxActs
  /\ acts' = acts + 1
  /\ UNCHANGED <<pc, is_valid, listening, ret, launched, argv, session, channel>>

Edit ==
  /\ UserActs
  /\ \E field \in Fields : \E value \in Values[field] :
       widgets' = [widgets EXCEPT ![field] = value]
  /\ UNCHANGED <<members, file, exported>>

ClearAll ==
  /\ UserActs
  /\ widgets' = Cleared
  /\ UNCHANGED <<members, file, exported>>

\* A file is selected: the one written before, or one that was written by hand.
ReadConfig ==
  /\ UserActs
  /\ \E f \in HandWritten \cup ({file} \ {None}) : widgets' = ImportOf(f)
  /\ UNCHANGED <<members, file, exported>>

\* The members are read whether the values are valid or not; the save dialog may be
\* cancelled.
ExportConfig ==
  /\ UserActs
  /\ members' = ReadValues(widgets)
  /\ \/ file' = ExportOf(members') /\ exported' = members'
     \/ UNCHANGED <<file, exported>>
  /\ UNCHANGED widgets

\* Mutant: the response alone counts.
AcceptsOk(valid) == TRUE

\* The condition of run_startup_dialog for RESPONSE_OK.
Accepts(valid) == valid

\* on_dialog_response, then run_startup_dialog: it shows the dialog again, or returns.
PressOk ==
  /\ pc = "dialog"
  /\ members' = ReadValues(widgets)
  /\ is_valid' = Valid(members')
  /\ pc' = IF Accepts(is_valid') THEN "servers" ELSE "dialog"
  /\ UNCHANGED <<acts, widgets, file, exported, listening, ret, launched, argv,
                 session, channel>>

\* RESPONSE_DELETE_EVENT
CloseDialog ==
  /\ pc = "dialog"
  /\ pc' = "returned"
  /\ UNCHANGED <<dialogVars, listening, ret, launched, argv, session, channel>>

-----------------------------------------------------------------------------
(* The launch command: get_cmd *)

\* An option with its number, where it is given; whether "=" or a blank is between
\* them is left out.
Given(option, n) == IF n > 0 THEN <<Blank, Word(option), Blank, Number(n)>> ELSE << >>

Launcher(m) ==
  IF m.launcher = "mpirun"
  THEN <<Word("mpirun"), Blank, Word("-np"), Blank, Number(m.number_of_processes)>>
  ELSE <<Word("srun"), Blank, Word("--ntasks"), Blank, Number(m.number_of_processes)>>
       \o Given("--nodes", m.num_nodes) \o Given("--ntasks-per-node", m.processes_per_node)

\* The elements of seq at the places in S, in their order.
Picked(seq, S) ==
  LET Rank(p) == Cardinality({q \in S : q <= p}) IN
  [k \in 1 .. Cardinality(S) |-> seq[CHOOSE p \in S : Rank(p) = k]]

\* Mutant: only the blanks at both ends are removed.
SqueezedEnds(cmd) ==
  Picked(cmd, {i \in 1 .. Len(cmd) : cmd[i] # Blank \/ i \in 2 .. Len(cmd) - 1})

\* The three replacements: no blank at either end, and one where there were several.
Squeezed(cmd) ==
  Picked(cmd, {i \in 1 .. Len(cmd) :
                 \/ cmd[i] # Blank
                 \/ /\ i > 1 /\ cmd[i - 1] # Blank
                    /\ \E j \in i + 1 .. Len(cmd) : cmd[j] # Blank})

get_cmd(m) ==
  IF m.launcher = "custom" THEN m.launcher_args
  ELSE Squeezed(Launcher(m) \o <<Blank>> \o m.launcher_args \o <<Blank>> \o m.slave_path
                \o <<Blank, Word("-i"), Blank>> \o m.ip_address
                \o <<Blank, Word("-p"), Blank, Number(m.base_port), Blank>>
                \o m.target_path \o <<Blank>> \o m.target_args)

\* start_slaves_local: getline up to each blank.  The text between two blanks, and that
\* before a leading one, is an empty argument.
Arguments(cmd) ==
  LET args == Picked(cmd, {i \in 1 .. Len(cmd) :
                             cmd[i] # Blank \/ i = 1 \/ cmd[i - 1] = Blank})
  IN [k \in DOMAIN args |-> IF args[k] = Blank THEN NoWord ELSE args[k]]

master_starts_slaves(m) ==
  ~(m.launcher = "custom" /\ \A i \in 1 .. Len(m.launcher_args) : m.launcher_args[i] = Blank)

-----------------------------------------------------------------------------
(* main, once the dialog has returned true *)

\* A port that is taken ends the master (Connections has the loop).
StartServers ==
  /\ pc = "servers"
  /\ \/ listening' = "all" /\ pc' = "slaves"
     \/ listening' = "some" /\ pc' = "returned"
  /\ UNCHANGED <<dialogVars, ret, launched, argv, session, channel>>

\* start_slaves up to the fork, or up to ssh_new, which may return NULL.
StartSlaves ==
  /\ pc = "slaves"
  /\ IF ~master_starts_slaves(members)
     THEN pc' = "end_slaves" /\ UNCHANGED <<ret, launched, argv, session>>
     ELSE \/ /\ ~members.ssh
             /\ launched' = "local" /\ argv' = Arguments(get_cmd(members))
             /\ pc' = "end_slaves" /\ UNCHANGED <<ret, session>>
          \/ /\ members.ssh
             /\ session' = "allocated" /\ pc' = "ssh_connect"
             /\ UNCHANGED <<ret, launched, argv>>
          \/ /\ ret' = FALSE /\ pc' = "end_slaves"
             /\ UNCHANGED <<launched, argv, session>>
  /\ UNCHANGED <<dialogVars, listening, channel>>

\* One call of libssh that succeeds ...
SshCall(from, to) == pc = from /\ pc' = to /\ UNCHANGED <<ret, launched, argv>>

\* ... or fails, and what is left to be released.
SshFails(from, to) == pc = from /\ pc' = to /\ ret' = FALSE /\ UNCHANGED <<launched, argv>>

\* A session that could not connect is not freed.
SshConnect ==
  /\ \/ SshCall("ssh_connect", "ssh_known") /\ session' = "connected"
     \/ SshFails("ssh_connect", "end_slaves") /\ UNCHANGED session
  /\ UNCHANGED <<dialogVars, listening, channel>>

\* ssh_session_is_known_server, ssh_userauth_password
SshChecks ==
  /\ \/ SshCall("ssh_known", "ssh_auth")
     \/ SshCall("ssh_auth", "channel_new")
     \/ \E from \in {"ssh_known", "ssh_auth"} : SshFails(from, "ssh_release")
  /\ UNCHANGED <<dialogVars, listening, session, channel>>

\* Mutant: freed only when all went well.
FreedIfRun(state) == IF launched' = "ssh" THEN "freed" ELSE state

\* ssh_channel_close where it was opened, ssh_channel_free
Freed(state) == "freed"

\* run_cmd: ssh_channel_new, ssh_channel_open_session, ssh_channel_request_exec
RunCmd ==
  /\ \/ SshCall("channel_new", "channel_open") /\ channel' = "allocated"
     \/ SshFails("channel_new", "ssh_release") /\ UNCHANGED channel
     \/ SshCall("channel_open", "channel_exec") /\ channel' = "open"
     \/ SshFails("channel_open", "ssh_release") /\ channel' = Freed(channel)
     \/ SshFails("channel_exec", "ssh_release") /\ channel' = Freed(channel)
     \/ /\ pc = "channel_exec" /\ pc' = "ssh_release"
        /\ launched' = "ssh" /\ argv' = Arguments(get_cmd(members))
        /\ UNCHANGED ret
        /\ channel' = Freed(channel)
  /\ UNCHANGED <<dialogVars, listening, session>>

\* ssh_disconnect, ssh_free
SshRelease ==
  /\ pc = "ssh_release"
  /\ session' = "freed" /\ pc' = "end_slaves"
  /\ UNCHANGED <<dialogVars, listening, ret, launched, argv, channel>>

\* The dialog is deleted; start_GUI runs until the application ends (Connections).
EndSlaves ==
  /\ pc = "end_slaves"
  /\ pc' = IF ret THEN "gui" ELSE "returned"
  /\ UNCHANGED <<dialogVars, listening, ret, launched, argv, session, channel>>

StartGui ==
  /\ pc = "gui"
  /\ pc' = "returned"
  /\ UNCHANGED <<dialogVars, listening, ret, launched, argv, session, channel>>

Next ==
  \/ Edit \/ ClearAll \/ ReadConfig \/ ExportConfig \/ PressOk \/ CloseDialog
  \/ StartServers \/ StartSlaves \/ SshConnect \/ SshChecks \/ RunCmd \/ SshRelease
  \/ EndSlaves \/ StartGui

Spec == Init /\ [][Next]_vars

-----------------------------------------------------------------------------
\* Every variable keeps to its type; a number that was read is in its range.
TypeOK ==
  /\ pc \in {"dialog", "servers", "slaves", "ssh_connect", "ssh_known", "ssh_auth",
             "channel_new", "channel_open", "channel_exec", "ssh_release",
             "end_slaves", "gui", "returned"}
  /\ acts \in 0 .. MaxActs
  /\ widgets \in Dialogs /\ DOMAIN members = Fields
  /\ members.number_of_processes \in {-1} \cup 1 .. IntMax
  /\ members.base_port \in -1 .. MaxPort
  /\ is_valid \in BOOLEAN /\ ret \in BOOLEAN
  /\ listening \in {"none", "some", "all"} /\ launched \in {"no", "local", "ssh"}
  /\ session \in {"none", "allocated", "connected", "freed"}
  /\ channel \in {"none", "allocated", "open", "freed"}

\* A configuration comes back from its file as it was read from the dialog, whichever
\* values were invalid, absent or at their bounds, and whatever the password holds
\* (export_config, read_config).
RoundTrip ==
  file # None => ReadValues(ImportOf(file)) = exported

\* The master starts with what the dialog shows, and only if that is valid - though
\* exporting writes the same members and may have left them as they were some edits ago
\* (on_dialog_response, export_config, run_startup_dialog).
StartsAsShown ==
  pc \notin {"dialog", "returned"} =>
    members = ReadValues(widgets) /\ Valid(members)

Follows(option, argument) ==
  \E i \in 1 .. Len(argv) - 1 : argv[i] = Word(option) /\ argv[i + 1] = argument

\* Word i of a text is its first.
IsFirstWord(text, i) == text[i] # Blank /\ \A j \in 1 .. i - 1 : text[j] = Blank

\* Slaves that the master starts find it: every port is listened on by then, their
\* options name its base port and its address, and no argument is empty, which the
\* slave's option parser would take for the target (start_servers, get_cmd,
\* start_slaves_local).  A custom command is the user's, a blank address is not noticed.
SlavesFindMaster ==
  launched # "no" =>
    /\ listening = "all"
    /\ members.launcher # "custom" =>
         /\ Follows("-p", Number(members.base_port))
         /\ \A i \in 1 .. Len(members.ip_address) :
              IsFirstWord(members.ip_address, i) => Follows("-i", members.ip_address[i])
         /\ \A i \in 1 .. Len(argv) : argv[i] # NoWord

\* Whichever SSH call fails, the channel is freed before the session, and both are when
\* start_slaves returns; only a session that could not connect is left (start_slaves_ssh,
\* run_cmd).
SshReleased ==
  /\ session = "freed" => channel \in {"none", "freed"}
  /\ pc \in {"end_slaves", "gui", "returned"} =>
       /\ channel \in {"none", "freed"}
       /\ session \in {"none", "freed"} \/ (session = "allocated" /\ ~ret)
=============================================================================
