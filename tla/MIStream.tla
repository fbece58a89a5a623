------------------------------ MODULE MIStream ------------------------------
(***************************************************************************)
(* The output of one GDB on its way into the master's variables: GDB       *)
(* prints batches of records, each ended by a prompt; the connection is a  *)
(* stream, of which Master::read_data takes what there is, cut anywhere;   *)
(* UIWindow::handle_data_gdb splits a chunk into lines, libmigdb parses    *)
(* and collects them, and at a prompt the collected records are looked at. *)
(* GDB and the stream are external; the parser is a parameter (MIParser),  *)
(* of which ParserAssumption says what it makes of GDB's lines.            *)
(***************************************************************************)
EXTENDS MIRecords, Integers

CONSTANTS
  MaxBatches,         \* bound: batches GDB prints
  MaxCuts,            \* bound: reads that end inside a line
  MaxQueue,           \* bound: chunks read and not handled
  MaxNumber,          \* bound: the breakpoint numbers GDB gives out
  NumberText,         \* how GDB writes a number
  Behinds,            \* what memory may hold behind a chunk
  PrintRecord(_),     \* how GDB prints a record
  ParseRecord(_, _)   \* mi_parse_gdb_output for a line, and what lies behind it

-----------------------------------------------------------------------------
(* External: what GDB prints *)

\* Breakpoint 1 is the one the slave sets on main.
Numbers == 2 .. MaxNumber

Res(var, text) == [var |-> var, value |-> [text |-> text]]
Tuple(var, results) == [var |-> var, value |-> [tuple |-> results]]

RunBatch == <<Output("^", "running", << >>), Output("*", "running", << >>)>>
DoneBatch(n) ==
  <<Output("^", "done", <<Tuple("bkpt", <<Res("number", <<NumberText[n]>>)>>)>>)>>
ErrorBatch == <<Output("^", "error", <<Res("msg", <<"'", "l", "'", ",">>)>>)>>
Arguments == <<[tuple |-> <<Res("name", <<"argc">>)>>]>>
StopBatch ==
  <<Output("~", "stream", <<[text |-> <<"\\", "newline">>]>>),
    Output("*", "stopped",
           <<Res("reason", <<"end-stepping-range">>),
             Tuple("frame", <<[var |-> "args", value |-> [list |-> Arguments]],
                              Res("fullname", <<"/f">>)>>)>>)>>
ExitBatch ==
  <<Output("=", "thread-exited", << >>),
    Output("*", "stopped", <<Res("reason", <<"exited-normally">>)>>)>>

Batches == {RunBatch, ErrorBatch, StopBatch, ExitBatch} \cup {DoneBatch(n) : n \in Numbers}
Outputs == UNION {{batch[i] : i \in DOMAIN batch} : batch \in Batches}

Prompt == <<"(gd", "b)", "blank">>
NewLine == <<"cr", "lf">>

Symbols == {NewLine[i] : i \in DOMAIN NewLine} \cup {Prompt[i] : i \in DOMAIN Prompt}
             \cup UNION {{PrintRecord(o)[i] : i \in DOMAIN PrintRecord(o)} : o \in Outputs}

\* A record is printed without line ends, and does not begin like a prompt.
PrinterAssumption ==
  /\ MaxBatches \in Nat /\ MaxCuts \in Nat /\ MaxQueue \in Nat /\ MaxNumber \in Nat
  /\ DOMAIN NumberText = Numbers
  /\ \A m, n \in Numbers : NumberText[m] = NumberText[n] => m = n
  /\ \A o \in Outputs : LET line == PrintRecord(o) IN
       /\ line \in Seq(Symbols) /\ line # << >>
       /\ \A i \in 1 .. Len(line) : line[i] \notin {"cr", "lf", "(gd"}
ASSUME PrinterAssumption

\* What the parser makes of a record and of any part of it (MILines), whatever memory
\* holds behind it: it returns the record, or fails if libmigdb does not know it; of a
\* part, a record that was begun as this one, and that only of the beginning.  Of a prompt
\* and of nothing it makes nothing.
ParserAssumption ==
  \A behind \in Behinds :
    /\ \A o \in Outputs : LET line == PrintRecord(o) IN
         /\ ParseRecord(line, behind).ok <=> Known(o)
         /\ Known(o) => ParseRecord(line, behind).value = o
         /\ \A i, j \in 1 .. Len(line) : LET r == ParseRecord(SubSeq(line, i, j), behind) IN
              i <= j /\ r.ok => i = 1 /\ Known(r.value) /\ IsBegunAs(r.value, o)
    /\ \A i, j \in 1 .. Len(Prompt) : i <= j => ~ParseRecord(SubSeq(Prompt, i, j), behind).ok
    /\ ~ParseRecord(<< >>, behind).ok
ASSUME ParserAssumption

VARIABLES
  gdb,           \* what the target does: "running", "stopped", "exited"
  cmd,           \* the command GDB has not read: "none", "resume", "insert"
  given,         \* the last breakpoint number GDB gave out, 0: none
  written,       \* history: the batches GDB has begun to print
  printed,       \* the lines of the last one that are printed
  stream,        \* the symbols printed, of which the handled ones are history
  lines,         \* history: where in the stream each line begins, and what it is
  read,          \* how much of the stream read_data has read
  cuts,          \* how many reads have ended inside a line
  prompt_cut,    \* one of them inside a prompt
  queue,         \* where the chunks end that were read and not yet handled
  handled,       \* how much of the stream handle_data_gdb has seen
  po,            \* h->po: the outputs collected since the last prompt
  retired,       \* history: the collected outputs of every prompt
  target_state,  \* m_target_state[rank]
  current_file,  \* m_current_file[rank]
  awaited,       \* m_breakpoints[rank] is not null
  hasty,         \* history: an insertion was sent before the last one was settled
  number         \* the number set_number was last called with, 0: none

gdbVars == <<gdb, cmd, given, written>>
wireVars == <<printed, stream, lines>>
readVars == <<read, cuts, prompt_cut>>
masterVars == <<queue, handled, po, retired, target_state, current_file, awaited, hasty,
                number>>
vars == <<gdbVars, wireVars, readVars, masterVars>>

-----------------------------------------------------------------------------
(* External: GDB and the connection *)

\* A batch is its records and the prompt.
LinesOf(batch) == Len(batch) + 1
TextOf(batch, place) == IF place <= Len(batch) THEN PrintRecord(batch[place]) ELSE Prompt

AllPrinted == written # << >> => printed = LinesOf(written[Len(written)])

Say(batch) ==
  /\ AllPrinted /\ Len(written) < MaxBatches
  /\ written' = Append(written, batch)
  /\ printed' = 0

\* GDB reads a command when its target does not run.
GdbReplies ==
  /\ cmd # "none" /\ gdb # "running"
  /\ cmd' = "none"
  /\ \/ cmd = "resume" /\ gdb' = "running" /\ Say(RunBatch) /\ UNCHANGED given
     \/ /\ cmd = "insert" /\ UNCHANGED gdb
        /\ \/ /\ given' = IF given = 0 THEN 2 ELSE given + 1
              /\ given' \in Numbers
              /\ Say(DoneBatch(given'))
           \/ Say(ErrorBatch) /\ UNCHANGED given
  /\ UNCHANGED <<stream, lines, readVars, masterVars>>

GdbStops ==
  /\ gdb = "running"
  /\ \/ gdb' = "stopped" /\ Say(StopBatch)
     \/ gdb' = "exited" /\ Say(ExitBatch)
  /\ UNCHANGED <<cmd, given, stream, lines, readVars, masterVars>>

\* The next line of the batch goes to the stream.
GdbPrints ==
  /\ ~AllPrinted
  /\ printed' = printed + 1
  /\ stream' = stream \o TextOf(written[Len(written)], printed') \o NewLine
  /\ lines' = Append(lines, [batch |-> Len(written), place |-> printed', from |-> Len(stream)])
  /\ UNCHANGED <<gdbVars, readVars, masterVars>>

-----------------------------------------------------------------------------
(* Master::read_data *)

\* A read up to n ends between two symbols of one line.
CutsLine(n) == n < Len(stream) /\ stream[n] \notin {"cr", "lf"} /\ stream[n + 1] # "cr"

\* socat and TCP keep the order of the bytes and nothing else.
Read ==
  /\ Len(queue) < MaxQueue
  /\ \E n \in read + 1 .. Len(stream) :
       /\ read' = n
       /\ cuts' = IF CutsLine(n) THEN cuts + 1 ELSE cuts
       /\ cuts' <= MaxCuts
       /\ prompt_cut' = (prompt_cut \/ (CutsLine(n) /\ stream[n] = "(gd"))
       /\ queue' = Append(queue, n)
  /\ UNCHANGED <<gdbVars, wireVars, handled, po, retired, target_state, current_file,
                 awaited, hasty, number>>

-----------------------------------------------------------------------------
(* UIWindow::handle_data_gdb *)

\* strtok: from p on separators are passed over ...
TokenStart(p, end) ==
  CHOOSE s \in p .. end : /\ s < end => stream[s + 1] # "lf"
                          /\ \A q \in p .. s - 1 : stream[q + 1] = "lf"

\* ... and the token goes up to the next separator or the end of the chunk.
TokenEnd(s, end) ==
  CHOOSE e \in s .. end : /\ e < end => stream[e + 1] = "lf"
                          /\ \A q \in s .. e - 1 : stream[q + 1] # "lf"

\* Mutant: the carriage return of the terminal is not removed.
KeepCr(token) == token

StripCr(token) ==
  IF token[Len(token)] = "cr" THEN SubSeq(token, 1, Len(token) - 1) ELSE token

\* mi_get_response compares the first five characters.
IsPrompt(line) == Len(line) >= 2 /\ line[1] = "(gd" /\ line[2] = "b)"

Least(S) == CHOOSE i \in S : \A j \in S : i <= j
Greatest(S) == CHOOSE i \in S : \A j \in S : i >= j

\* The results named var; those of them that are texts, and those that are not.
Named(results, var) ==
  {i \in DOMAIN results : "var" \in DOMAIN results[i] /\ results[i].var = var}
Consts(results, var) == {i \in Named(results, var) : "text" \in DOMAIN results[i].value}
Tuples(results, var) == {i \in Named(results, var) : "tuple" \in DOMAIN results[i].value}
Lists(results, var) == {i \in Named(results, var) : "list" \in DOMAIN results[i].value}

\* mi_get_stopped, mi_parse_frame, mi_get_bkpt: of several texts the last one stays.
LastText(results, var) == results[Greatest(Consts(results, var))].value.text

Exited(stop) ==
  /\ Consts(stop.results, "reason") # {}
  /\ LastText(stop.results, "reason")
       \in {<<"exited-signalled">>, <<"exited">>, <<"exited-normally">>}

\* The frame may be a tuple or a list.
Frames(stop) == Tuples(stop.results, "frame") \cup Lists(stop.results, "frame")
FrameOf(stop) ==
  LET frame == stop.results[Greatest(Frames(stop))].value IN
  IF "tuple" \in DOMAIN frame THEN frame.tuple ELSE frame.list

HasFile(stop) == Frames(stop) # {} /\ Consts(FrameOf(stop), "fullname") # {}

\* The file GDB has named, or another one: a name that was cut, or memory's.
FileNamed(stop) ==
  IF LastText(FrameOf(stop), "fullname") = <<"/f">> THEN "/f" ELSE "elsewhere"

\* parse_target_state goes through all outputs, so the last change stays.
ChangesState(o) == o.class \in {"running", "stopped"}
Changes(outputs) == {i \in DOMAIN outputs : ChangesState(outputs[i])}
IsRunning(o) == o.class = "running"
LastChange(outputs, state) ==
  IF Changes(outputs) = {} THEN state
  ELSE IF IsRunning(outputs[Greatest(Changes(outputs))]) THEN "RUNNING" ELSE "STOPPED"

\* parse_stop_record looks at the first stop.
IsStop(o) == o.type = "*" /\ o.class = "stopped"
Stops(outputs) == {i \in DOMAIN outputs : IsStop(outputs[i])}
FirstStop(outputs) == outputs[Least(Stops(outputs))]

\* Mutant: a stop with an exit reason is a stop like others.
NeverExited(outputs) == FALSE

FirstStopExited(outputs) == Stops(outputs) # {} /\ Exited(FirstStop(outputs))

FileAfter(outputs, file) ==
  IF Stops(outputs) # {} /\ HasFile(FirstStop(outputs)) THEN FileNamed(FirstStop(outputs))
  ELSE IF FirstStopExited(outputs) \/ (\E i \in DOMAIN outputs : IsRunning(outputs[i]))
  THEN "none" ELSE file

\* atoi: the digits a text begins with; without any, 0.
NumbersOf(text) == {n \in Numbers : text # << >> /\ text[1] = NumberText[n]}
NumberOf(text) == IF NumbersOf(text) = {} THEN 0 ELSE CHOOSE n \in NumbersOf(text) : TRUE

\* mi_res_bkpt: the first result of that name in the first result record, if it is a
\* tuple; its number, 0 without any.
BkptOf(reply) == reply.results[Least(Named(reply.results, "bkpt"))].value
NamesBkpt(reply) ==
  /\ reply.class = "done"
  /\ Named(reply.results, "bkpt") # {} /\ "tuple" \in DOMAIN BkptOf(reply)
NumberIn(reply) ==
  LET results == BkptOf(reply).tuple IN
  IF Consts(results, "number") = {} THEN 0 ELSE NumberOf(LastText(results, "number"))

Replies(outputs) == {i \in DOMAIN outputs : outputs[i].type = "^"}
FirstReply(outputs) == outputs[Least(Replies(outputs))]
HasBkpt(outputs) == Replies(outputs) # {} /\ NamesBkpt(FirstReply(outputs))
BkptNumber(outputs) == NumberIn(FirstReply(outputs))

\* What the handler works on.  An output is kept with the place its line begins at.
Taken(o, from) == [output |-> o, from |-> from]
OutputsOf(taken) == [i \in DOMAIN taken |-> taken[i].output]

view == [at |-> handled, po |-> po, retired |-> retired, state |-> target_state,
         file |-> current_file, awaited |-> awaited, number |-> number]

\* Mutant: mi_retire_response does not empty the list.
RetireKeeps(v) ==
  LET outputs == OutputsOf(v.po) IN
  [v EXCEPT
     !.retired = Append(v.retired, v.po),
     !.state = IF FirstStopExited(outputs) THEN "EXITED" ELSE LastChange(outputs, v.state),
     !.file = FileAfter(outputs, v.file)]

\* mi_retire_response, parse_target_state, parse_stop_record, parse_breakpoint.
Retire(v) ==
  LET outputs == OutputsOf(v.po)
      taken == v.awaited /\ HasBkpt(outputs) IN
  [v EXCEPT
     !.po = << >>,
     !.retired = Append(v.retired, v.po),
     !.state = IF FirstStopExited(outputs) THEN "EXITED" ELSE LastChange(outputs, v.state),
     !.file = FileAfter(outputs, v.file),
     !.awaited = v.awaited /\ ~taken,
     !.number = IF taken THEN BkptNumber(outputs) ELSE v.number]

\* What mi_get_response does with what was parsed; "^exit" is a response as well.
Collect(v, r, from) ==
  IF ~r.ok THEN v
  ELSE LET added == [v EXCEPT !.po = Append(v.po, Taken(r.value, from))] IN
       IF r.value.type = "^" /\ r.value.class = "exit" THEN Retire(added) ELSE added

HandleLine(v, line, from, behind) ==
  IF IsPrompt(line) THEN Retire(v) ELSE Collect(v, ParseRecord(line, behind), from)

\* One round of the loop, in a chunk with this end; behind is what memory holds behind it.
Round(v, end, behind) ==
  LET start == TokenStart(v.at, end)
      stop == TokenEnd(start, end) IN
  IF start = end THEN [v EXCEPT !.at = end]
  ELSE [HandleLine(v, StripCr(SubSeq(stream, start + 1, stop)), start, behind)
          EXCEPT !.at = IF stop < end THEN stop + 1 ELSE end]

\* After the whole chunk; a round takes one symbol at least.
AllRounds(end, behind) ==
  LET after[n \in 0 .. end - handled] ==
        IF n = 0 THEN view
        ELSE LET v == after[n - 1] IN IF v.at = end THEN v ELSE Round(v, end, behind)
  IN after[end - handled]

Becomes(after) ==
  /\ handled' = after.at
  /\ po' = after.po
  /\ retired' = after.retired
  /\ target_state' = after.state
  /\ current_file' = after.file
  /\ awaited' = after.awaited
  /\ number' = after.number

\* Mutant: the idle source is connected for good, not once.
HandleAgain ==
  /\ queue # << >>
  /\ \E behind \in Behinds : Becomes(AllRounds(Head(queue), behind))
  /\ UNCHANGED <<gdbVars, wireVars, readVars, queue, hasty>>

HandleDataGdb ==
  /\ queue # << >>
  /\ \E behind \in Behinds : Becomes(AllRounds(Head(queue), behind))
  /\ queue' = Tail(queue)
  /\ UNCHANGED <<gdbVars, wireVars, readVars, hasty>>

-----------------------------------------------------------------------------
InFlight == ~AllPrinted \/ handled < Len(stream)

(* The user: send_data_to_active for a running command, create_breakpoint *)

Resume ==
  /\ cmd = "none" /\ target_state # "RUNNING"
  /\ cmd' = "resume"
  /\ UNCHANGED <<gdb, given, written, wireVars, readVars, masterVars>>

Insert ==
  /\ cmd = "none" /\ target_state = "STOPPED"
  /\ cmd' = "insert"
  /\ awaited' = TRUE
  /\ hasty' = (hasty \/ InFlight)
  /\ UNCHANGED <<gdb, given, written, wireVars, readVars, queue, handled, po, retired,
                 target_state, current_file, number>>

Init ==
  /\ gdb = "running" /\ cmd = "none" /\ given = 0
  /\ written = << >> /\ printed = 0 /\ stream = << >> /\ lines = << >>
  /\ read = 0 /\ cuts = 0 /\ prompt_cut = FALSE
  /\ queue = << >> /\ handled = 0 /\ po = << >> /\ retired = << >>
  /\ target_state = "UNKNOWN" /\ current_file = "none"
  /\ awaited = FALSE /\ hasty = FALSE /\ number = 0

Next == GdbReplies \/ GdbStops \/ GdbPrints \/ Read \/ HandleDataGdb \/ Resume \/ Insert

Spec == Init /\ [][Next]_vars

-----------------------------------------------------------------------------
\* Every variable keeps to its type; chunks are handled once, in the order of the
\* stream; what is collected was parsed.
TypeOK ==
  /\ gdb \in {"running", "stopped", "exited"}
  /\ cmd \in {"none", "resume", "insert"}
  /\ given \in {0} \cup Numbers /\ number \in {0} \cup Numbers
  /\ written \in Seq(Batches) /\ Len(written) <= MaxBatches
  /\ printed \in 0 .. 3 /\ stream \in Seq(Symbols)
  /\ cuts \in 0 .. MaxCuts /\ prompt_cut \in BOOLEAN
  /\ read \in 0 .. Len(stream) /\ handled \in 0 .. read
  /\ Len(queue) <= MaxQueue
  /\ \A i \in 1 .. Len(queue) :
       handled < queue[i] /\ queue[i] <= read /\ \A j \in 1 .. i - 1 : queue[j] < queue[i]
  /\ \A i \in 1 .. Len(po) : Known(po[i].output)
  /\ target_state \in {"UNKNOWN", "STOPPED", "RUNNING", "EXITED"}
  /\ current_file \in {"none", "/f", "elsewhere"}
  /\ awaited \in BOOLEAN /\ hasty \in BOOLEAN

\* The records of a batch that libmigdb knows, of the first n.
Meant(batch) ==
  LET known[n \in 0 .. Len(batch)] ==
        IF n = 0 THEN << >>
        ELSE IF Known(batch[n]) THEN Append(known[n - 1], batch[n]) ELSE known[n - 1]
  IN known[Len(batch)]

\* As long as no read has ended inside a line, wherever else reads end, every batch
\* is retired as GDB printed it, in order, none merged and none left out, and the
\* parser returns what GDB meant, escapes and nesting included (handle_data_gdb,
\* mi_get_response, mi_parse_gdb_output).
BatchesAsPrinted ==
  cuts = 0 =>
    /\ Len(retired) <= Len(written)
    /\ \A b \in 1 .. Len(retired) : OutputsOf(retired[b]) = Meant(written[b])
    /\ ~InFlight => Len(retired) = Len(written)

Shown(state) == CASE state = "running" -> "RUNNING"
                  [] state = "stopped" -> "STOPPED"
                  [] state = "exited"  -> "EXITED"

\* When all is handled, and no line was cut, the master knows the state of the target,
\* the file it is in and, unless a second one was asked for too early, the number of the
\* last breakpoint; before the first stop it knows nothing (parse_target_state,
\* parse_stop_record, parse_breakpoint).
CaughtUp ==
  cuts = 0 /\ ~InFlight /\ written # << >> =>
    /\ target_state = Shown(gdb)
    /\ current_file = IF gdb = "stopped" THEN "/f" ELSE "none"
    /\ ~hasty => number = given

\* What was taken is begun as a record that GDB printed where it was taken.
IsPrinted(t) ==
  \E k \in 1 .. Len(lines) :
    LET batch == written[lines[k].batch]
        place == lines[k].place
    IN lines[k].from = t.from /\ place <= Len(batch) /\ IsBegunAs(t.output, batch[place])

\* Wherever reads end, halves of lines included, and whatever memory holds behind a chunk,
\* the master takes up only records that GDB has begun to print there, none twice, none in
\* the wrong order, and their results up to the cut as printed: it may fill in a result
\* that was cut, and add results behind it, but never make up a record, nor change one
\* that was not cut (handle_data_gdb, parse.c).
HeardInOrder ==
  LET heard == Append(retired, po) IN
  \A b \in 1 .. Len(heard) : \A i \in 1 .. Len(heard[b]) :
    /\ IsPrinted(heard[b][i])
    /\ \A c \in 1 .. b : \A j \in 1 .. Len(heard[c]) :
         c < b \/ j < i => heard[c][j].from < heard[b][i].from

StateOf(o) == IF IsRunning(o) THEN "RUNNING"
              ELSE IF Exited(o) THEN "EXITED" ELSE "STOPPED"

\* Unless a prompt was cut, a batch holds one change of the state at most, so that the
\* first stop, at which parse_stop_record looks, is the one parse_target_state has
\* shown; and the state shown is that of the last change the master has looked at,
\* however many lines were lost before.
ShownIsLastHeard ==
  ~prompt_cut =>
    /\ \A b \in 1 .. Len(retired) + 1 :
         LET batch == Append(retired, po)[b] IN
         \A i, j \in Changes(OutputsOf(batch)) : i = j
    /\ \A b \in 1 .. Len(retired) : \A i \in Changes(OutputsOf(retired[b])) :
         (\A c \in b + 1 .. Len(retired) : Changes(OutputsOf(retired[c])) = {})
           => target_state = StateOf(retired[b][i].output)
=============================================================================
