# ParallelGDB in TLA+

Models, model-checking runs and machine-checked proofs for ParallelGDB, a
graphical debugger for parallel programs: one *master* with a GTK window, and
one *slave* per rank that runs GDB on one process of the debugged program and
pipes GDB's and the program's input and output through two TCP connections.

## 1. The system

### Components

| Component | State it keeps | Operations | Module |
|---|---|---|---|
| `UIWindow` (states, breakpoints), `Breakpoint`, `src/src/master/window.cpp`, `breakpoint.cpp` | `m_target_state`, `m_sent_stop`, `m_breakpoints` (one slot per rank for the object whose number is awaited), `m_bkptno_2_bkpt`; per breakpoint and rank a state and a number | handle a batch of GDB, stop all, send a command, create / edit / delete a line mark, message boxes | `Breakpoints` |
| GDB and the target of each rank (external) | its breakpoints, the next number, what the target does, unread commands and output | read a command, stop, exit, take a SIGINT, end with the slave | `GdbSession` |
| `Master` threads, `src/src/master/master.cpp`, and the socket pointers of `UIWindow` | one thread per port, `m_conns_gdb`, `m_conns_trgt`, the queue of idle sources | start servers, accept, read, hand over data, send, wait for the slaves, quit, SIGINT | `Ports`, `Connections` |
| `Slave`, `src/src/slave/slave.cpp` | the PIDs of two socats and GDB, the step of its sequential program | configure, fork, poll for the PTY links, monitor, kill | `Slave` |
| Source view and overview of `UIWindow` | notebook pages, grid rows, maps between paths, pages and rows, positions, colors | set / clear a position, open a file, choose a missing one, close unused tabs, deferred scroll, follow | `SourceTabs` |
| `BreakpointDialog`, `FollowDialog` | none of their own that lasts | return a choice | their results are chosen freely in `Breakpoints`, `SourceTabs` |
| GDB/MI stream: `Master::read_data`, `UIWindow::handle_data_gdb`, `libmigdb` (`parse.c`, `connect.c`) | the outputs collected since the last prompt | read what there is, split into lines, parse, retire at a prompt | `MIRecords`, `MIParser`, `MILines`, `MIStream` |
| `StartupDialog`, `src/src/master/startup.cpp`, `src/include/base64.hpp` | widgets, members, `m_is_valid` | edit, clear, import, export, respond, launch command | `Base64`, `Startup` |
| launching the slaves, `master.cpp` (`main`, fork, SSH) | an SSH session and a channel | servers, then a fork or a chain of library calls | `Startup` |
| a session: one slave and the master | both, and the TCP connections between them | all of both | `Session` |
| `UIDrawingArea`, asio, resources, docs, example | | | not modelled |

### How they interact

* socat of a slave connects to a port of the master; the port number says
  which rank and which kind of connection it is (`Ports`).
* A reader thread turns bytes into an idle source; the GUI thread handles idle
  sources one after the other. This queue is the only channel from the
  threads to the GUI, apart from the socket pointers, which both sides read
  and write without a lock.
* The GUI writes to the sockets: GDB/MI commands to GDB's, `^C` to the target's.
* A slave watches its three children and ends them all when one ends; the end of
  its socats is what the master sees of it, and the end of the master is what
  ends the socats.
* The dialog's members become the launch command, which carries the base port
  and the address that the slaves need to find the master.

### What is hard here

* The states shown lag behind GDB, and every decision (may I set a breakpoint,
  must I stop this rank) is made on them.
* A breakpoint's number arrives later than the command that asked for it, in a
  slot that another command may overwrite.
* A message box runs a nested main loop in the middle of an edit.
* Socket objects live on the stacks of detached threads.
* The 16-bit port range may wrap; slave and master compute ports apart.
* A child of the slave may end at any of its steps, its status may be taken by
  either of two loops, and files in `/tmp` may be older than the session.
* Indices of pages and rows shift while several tabs are closed.
* A read may end in the middle of a line or of a prompt; the parser steps over
  the end of a string that was cut behind a backslash, and goes on in what the
  heap holds there, which may be MI text of an older chunk.
* A read may bring several batches, which one handler takes one after the other:
  some of what it does it does once per batch, some once per chunk.
* Exporting writes the members the master will start with.
* Each of seven SSH calls may fail, with different things left to be freed.

`PROJECT.json` lists each such hazard with its line and the properties aimed at it.

## 2. The modules

Every module is translated from the code; a comment above an action names the
function. Variables keep the names of the members they stand for, without the `m_`.

* **`GdbSession`** the far end of the connections, seen through what the master
  relies on: commands are read in order, and only while the target does not run;
  records come out in order, breakpoint numbers count up, a line may be rejected (`BadLines`), a slave may end (`Mortal`).
* **`Breakpoints`** extends it with the master. One handler is one step, except
  where it opens a message box: `UpdateMark` and `DeleteMark` then stop halfway
  with `dialog` set, batches of GDB are handled meanwhile, and `CloseDialog` is
  the rest of the handler. Reading a freed object (`StopAllRequests`) may give
  anything. `PatientUser` restricts the user to editing marks when no command
  and no batch is in flight.
* **`TargetView`** is the abstract promise about the state shown: the display
  goes through the target's very sequence of states, in order, and catches up
  as long as the connection lives. **`BreakpointsRefineView`** maps
  `Breakpoints` to it.
* **`Ports`**, **`Connections`**: the threads step by step. `send_data` and
  `on_delete` are split where the code loads the shared pointer, so that a
  thread may come in between; `fault` records what would be undefined or thrown.
* **`Slave`**: one system call per step; a forked child may end at once.
  `waitpid` of a child already reaped is -1, which the code also counts as
  an exit. Names in `/tmp` may be those of an earlier session, whose link may
  lead to an existing PTY or to nothing.
* **`SourceTabs`**: the grid is a sequence of rows (separators included), so
  that the arithmetic on row and page indices is that of the code; `Closed` is the
  loop that closes unused tabs, a recursive function of the number of pages looked at.
  The queue holds batches, of which the `first` of a chunk is marked: the batches of a
  chunk are handled one step each, and nothing else in between (`InChunk`), as they are one handler.
  `^running` empties the position only; the labels of a process that runs go at the end of the
  chunk (`LabelsOfRunning`, `check_overview`), so that a stop behind it in the same
  chunk at a place without source leaves the old label; `HandleExited` clears them itself.
* **`Session`** extends `Slave` with an instance of `Connections` for one process.
  In `Connections` a socat of a mortal slave may end whenever it likes; here it is
  a child of the slave: it connects when the master accepts, is refused when
  nobody accepts, and ends by a signal or with its connection. The socats'
  state on the master's side is computed from the slave (`EndOf`), so that
  `ConnectionsImplemented`, the specification of `Connections` with its fairness
  as a property, says that what `Connections` assumes of the slaves is true of `Slave`.
* **`MIRecords`** says what a parsed record is, which ones libmigdb knows, and what a
  record cut off another one is. **`MIParser`** is libmigdb's recursive descent over a line,
  a sequence of punctuation and words. It steps as the C code steps, past the end included:
  behind the `'\0'` of the line it goes on in `behind`, a sequence of any symbols, quotes, brackets
  and commas among them. `IsBegunAs` says what a cut line may then be taken for: a record of
  the same kind, with the results before the cut as printed, then the one that was cut, a text
  shortened or a tuple with anything in it, and then anything.
  **`MILines`** puts it to every record of a small grammar, every part of its line,
  and memory of every kind behind it (`ParserChecked`); it has no state, TLC evaluates it as an assumption.
* **`MIStream`** puts a parser to work: GDB prints batches (external) line by line, a read
  takes any part of what there is, and `HandleDataGdb` is the handler of a chunk, from
  `strtok` to the three functions that look at the retired outputs. A chunk is a stretch
  of the stream (`queue` has where they end), and one round of the loop (`Round`) takes the
  next token. What memory holds behind a chunk is any of `Behinds`, and results that come from
  there are looked at like others: the functions that look at a record (`Exited`, `HasFile`,
  `NumberIn`) take the first or the last of several results, as the code does. The parser is a
  parameter, `ParseRecord`, of which `ParserAssumption` says what the
  rest relies on; **`MCMIStream`** gives it the parser of `MIParser`, so that TLC checks that
  the assumption holds of it, and the properties with it.
* **`Base64`** gives the loops of the encoder and decoder by what they leave at
  each index. **`Startup`** has one action per thing the user can do in the dialog,
  then `main` step by step. `ReadValues`, `ExportOf` and `ImportOf` are the
  conversions between widgets, members and file; a number field is what
  `std::stoi` sees of it (absent, a word, a number, after blanks, before other
  text). `get_cmd` and `Arguments` work on sequences of words and blanks.
* **`MCBreakpoints`, `MCConnections`, `MCMIStream`, `MCSourceTabs`, `MCStartup`** give the
  constants values.
* **`BreakpointsProofs`** and **`BreakpointsMarkProofs`** (the second extends the first),
  **`ConnectionsProofs`**, **`SlaveProofs`**, **`SessionProofs`**, **`SourceTabsProofs`**,
  **`MIStreamProofs`** and **`StartupProofs`** hold the theorems and their lemmas.

Definitions commented "Mutant" are plausible bugs: a variant of the definition
below them under which the property they belong to fails.

## 3. What the runs show

| Run | Instance | What is checked |
|---|---|---|
| `BreakpointsOne` | 1 rank, 2 breakpoints, one rejected line, mortal slave, hasty user, 2 commands and 2 batches under way | the state shown is late but never wrong (`ViewAccurate`); numbers and map agree (`NumbersAgree`); marks and states agree between message boxes (`MarkShowsCreated`) |
| `BreakpointsPatient` | 2 ranks, 2 breakpoints, patient user, 1 command and 1 batch per rank under way | `LatchArmed`, `FreedMeansDeleted`, `StateMatchesGdb`, `NumberIsOwn`, `NoDanglingPointer`, `StopAllReachesShownIdle` |
| `BreakpointsLive` | 2 ranks, 1 breakpoint, mortal slave | `m_sent_stop` clears (`LatchClears`); `TargetView` is implemented (`ViewImplemented`), its liveness included |
| `Connections` | 2 ranks, a port range up to the limit, a port that may be taken, a mortal slave, 2 chunks on one connection | `PointerValid`, `InOrder`, `OwnSocket`, `QuitShutsAll`, `StartupCompletes` |
| `Session` | 1 process; forks may fail, children end, links be old, the port be taken, the master quit, be cancelled, interrupted or terminated | `NoOrphan`, `WaitsForItsOwn`, `GdbIsServed`, `DeadSocatFails`; `OneEndsAllEnd`, `MasterEndsSlave`, `SlaveEndForgotten`; the refinement `ConnectionsImplemented` |
| `Tabs` | 2 ranks, 3 files, one unreadable, 3 places to stop at, 1 color, chunks of 1 or 2 batches | `MapsAgree`, `UsedIsOpen`, `LabelsTrue`, `ColorsAgree` |
| `MIStream` | 3 batches, two reads that end inside a line, 3 kinds of memory behind a chunk | `BatchesAsPrinted`, `CaughtUp`, `HeardInOrder`, `ShownIsLastHeard`; the assumptions `ParserAssumption` and `ParserChecked` of the parser |
| `Startup` | 3 acts of the user, values of every kind, two hand-written files | `RoundTrip`, `StartsAsShown`, `SlavesFindMaster`, `SshReleased` |

Four runs end in a counterexample, against a sentence of the code's comments:

* `FreedMeansDeleted` (hasty user): a mark deleted before GDB's answer to its
  insertion was handled sends `-break-delete -1`; the object is freed, GDB's
  breakpoint stays.
* `SendUsesLiveSocket`: a reader thread destroys the socket between the test of
  the pointer and `asio::write`.
* `GdbStartsConnected`: links of an earlier session satisfy `wait_for_socat`
  before socat has connected.
* `ScrollFindsView`: a `^running` handled between a stop and the scrolling
  deferred for it clears the file, and `m_path_2_view.at("")` throws.

Further disagreements met on the way, kept as prose and visible in the models:

* With a hasty user a second insertion overwrites the slot, so the first
  reply's number goes to the second object (`NumberIsOwn`), and a hit or reply
  may follow a pointer to a freed object (`NoDanglingPointer`).
* `^error` to an insertion leaves the state CREATED (`StateMatchesGdb` with
  `BadLines` not empty).
* `stop_all` skips a rank whose `^running` is not handled yet, and every rank
  in ERROR_DELETING while the message box is open.
* A failed `asio::write` throws where `false` is promised, and `on_delete`
  loads the pointer once more after testing it (`fault` "thrown", "null").
* `color_overview` tests the number of lines met so far: after a line in
  excess, later ranks stay uncolored even in a colored line.
* The record of a line that a read cuts is lost, since nothing is kept between
  two chunks: `BatchesAsPrinted` and `CaughtUp` are stated for streams without
  such a cut. A prompt that is cut merges two batches, after which
  `parse_stop_record` and `parse_target_state` may look at different stops
  (`ShownIsLastHeard` excepts that).
* A line that is cut behind a backslash inside a text is read on in the memory behind
  the chunk. If that is zero, the line is dropped or taken for a shorter record of its kind
  (`CutIsShorter`). Else the rest of an older line may close the frame, or add an exit reason,
  a breakpoint number or a file that GDB has not printed, and the master believes it. What
  does hold for any cut and any memory is `HeardInOrder`: no record is made up, lost ones
  apart they come in order and once, and their results before the cut are as printed.
* A rank that runs and stops again within one read, where no source is known, keeps the
  label of its old place; `LabelsTrue` allows it, and that in one row only.
* A session whose `ssh_connect` failed is not freed (`SshReleased` allows it).
* A blank IP address passes `read_values` and is squeezed away by `get_cmd`, so
  that `-i` takes `-p` for its value (`SlavesFindMaster` excepts it); a custom
  command with a leading blank has an empty first argument.
* `start_slaves_local` allocates one element less than it writes to `argv`, and
  `~Master` deletes an uninitialised `m_window` when the dialog is closed; both
  are plain from the code and outside the models.

### Bounds, and why they are enough

`MaxNumber` bounds GDB's breakpoint numbers, of which 1 is that on `main`. With
one rank an object is freed when its only rank gives it up, so two objects use
two numbers and 3 is no restriction in `BreakpointsOne`; with two ranks a rank
can be taken out of an edit and put back, and 3 allows that once. `MaxCmds`,
`MaxRecords`, `MaxSigints` what is under way per rank, `MaxChunks` the reads per
connection, `MaxIdle` the queue when GDB adds to it (scrolls go beyond it). One
command and one batch under way already separate every guard on the state shown
from the state of GDB; two let a command overtake a reply. Two ranks are enough
for a hit on one to concern another, and two lines are one in excess of one
color. Three files let two tabs close at
once with one kept before, between or behind them; targets stop at three places
(`Places`) in two of them, the third is opened by the user. Two batches in a chunk
(`MaxChunk`) bring a `^running` with the stop before or after it. `FollowChoices` are all ranks
and none: whom the window follows concerns the scrolling alone. In `BreakpointsPatient` GDB rejects no line
(`BadLines = {}`), and `BreakpointsOne` has one rank; for several ranks
`MarkShowsCreated` is the theorem `MarksTrue`. `PortLimit` 16 stands for 2^16;
with base port 12 the four ports of two ranks end at the limit. A range that wraps
leaves a socat without a port, so that the startup cannot complete; that what
does connect is filed right even then is the theorem `SocketSafety`. The chunks of one connection are handled apart from those of the others, so
that one talking connection (`Talkers`) shows their order. One process is enough in
`Session`, as slaves meet only in the master, which `Connections` has with two.

In `MIStream` three batches let a command be answered between two reports of the
target; every way to cut the stream at line ends, and every one with a cut
inside a line or two, is covered. The three kinds of memory
(`MCBehinds`) are zero, one that gives a stop an exit reason, and one that gives a number and
another file; the theorems are about any. What the parser does with other texts and
other memory `ParserChecked` shows: its records hold every mix of quotes, backslashes and
commas up to two symbols, which is what decides where a string ends, and tuples and lists
of two, nested once. Behind the line lies every sequence of up to two symbols (`MaxStale`) of brackets,
quotes, commas, backslashes, ends and words, or up to two closing brackets and then a
whole stale result, tuple, text or list (`Leftovers`). A text in which a record begins is not in the grammar: the
rest of such a line, cut off its beginning, is a record to the parser and would be taken up.

In `Startup` three acts let the user export, change something and import again
before starting. The values hold both sides of every bound: ports 0, 65535 and
beyond, counts 0, 1 below and at the largest int (70000 here), empty and blank texts,
passwords of every length modulo three with all bits set, mixed or none. A hand-written
file holds one value per key and only symbols of the encoding in the password.

Ranks and breakpoints are symmetric, and
`BreakpointsPatient`, which checks no liveness, uses that. Deadlock
is checked except where the program or the bounded input comes to an end:
`Connections`, `Session`, `Slave`, `MIStream`, `Startup`, and `Tabs`, where the
exception of a scroll that finds no view ends the program.

### Fairness, and what justifies it

* `Breakpoints`: weak fairness of `HandleBatch` (the Glib main loop runs every
  idle source) and of `GdbInterrupt` (the kernel delivers a SIGINT to a running
  target). The user, GDB's commands and the target have none.
* `Connections`: the scheduler runs the main thread and every reader; socats
  connect; a socat ends after its partner or its connection. The last two are
  assumptions about another program, and `Session` discharges them
  (`ConnectionsImplemented`) from the fairness below.
* `Session`: the scheduler runs the slave, the main thread and every reader; the kernel
  delivers signals; a socat gets an answer from the network, be it a
  connection, a refusal or the end of a connection. Neither the user nor
  GDB need do anything.
* `MIStream` and `Startup` state no liveness.

## 4. What is proved

With TLAPS, for any ranks, breakpoints, files, texts, port ranges and bounds, from the
named assumptions on the constants. Each invariant below is inductive: it holds
initially, every action keeps it (one step of the proof per action), and it implies
the property. Where a theorem has a further hypothesis, it is named here.

**`BreakpointsProofs`**

* `TypeCorrect`, `ViewAccuracy`, `LatchSafety`: `TypeOK` is inductive alone, and
  `TypeOK /\ ViewAccurate` with it. The latch is inductive only together with both: that
  a rank shown as running with no stop on its way does run is `ViewAccurate`, and it is
  why the `^C` that `stop_all` sends will be taken or overtaken by a stop.
* `ViewStepwise`: the initial states and every step of `Breakpoints` are those of
  `TargetView` under the mapping of `BreakpointsRefineView`. The queue of batches maps to
  the queue of *changes* of the target by a recursive function; the lemmas about it
  (`Changes...`) say what a batch put behind or taken from the front does to it.
  This is the safety part of `ViewImplemented`; that the view catches up stays with TLC.

**`BreakpointsMarkProofs`**

* `MarksTrue` (`MarkShowsCreated`), for any user: `MarksInv` adds to the property what is
  true while a message box is open: the object the box is about may be unsettled, and
  no other. `UpdateStatesSettable` shows that the rest of a handler leaves no error state.
* `NumbersAgreement` (`NumbersAgree`), for any user: the agreement is inductive only with
  `Fresh`, which says that the numbers on their way grow and are newer than all mapped so
  far; else a late number could replace a newer one.
* `NothingSurvives`, `PointersLive`, `DeletesItsOwn`, `StopAllReaches`, for a patient user
  (hypothesis `PatientUser`), and `StatesTrue`, for one and lines that GDB
  accepts (`BadLines = {}` besides). The counterexample of the run `FreedMeansDeleted`
  shows why the first hypothesis is needed, a rejected line why the second is. All follow from
  `PatientInv`, nine facts about each rank: an edit is the oldest command of a
  stopped GDB, with nothing on its way back (`EditFirst`); a new number is the oldest batch (`BkptFirst`); what GDB
  has the master holds, is about to learn or has asked to delete (`TableKnown`); GDB has
  one breakpoint per object (`OneEntry`), under no other object's number (`OwnNumber`);
  an insertion and its answer are awaited by the object in the slot (`InsertAwaited`,
  `AnnounceAwaited`); a hit on its way is of an object held by then (`HitsHeld`);
  what is held GDB has or will have (`HeldIsSet`).

**`ConnectionsProofs`**

* `TypeCorrect`, `PointersToReaders` (`PointerValid`): `ThreadInv` relates the port of
  every thread to the socat connected to it, whether or not the range wraps,
  and the pointers to the threads still reading. `SocketSafety` (`OwnSocket`) follows from
  the same invariant if slaves and master were given the same number of processes
  (`SlaveSize = NumProcs`); else rank and kind differ on the two sides.
* `DataInOrder` (`InOrder`): with `handled[o] <= received[o]` the chunks of a connection
  in the queue are the numbers between the two, in order.
* `QuitShutsConnections` (`QuitShutsAll`): `QuitInv` says that once the master runs the
  range of ports is known not to wrap, as the pointer of the last rank's target can be
  set only then (`LastPointer`); that a socket still read is then the one at its place (`Filed`);
  and that the loop has shut those it has passed (`ShutSoFar`).

**`SlaveProofs`, `SessionProofs`**

* `SlaveCleansUp`: `TypeOK`, `NoOrphan`, `WaitsForItsOwn`; the invariant says what has
  been started and what has been signalled at each step. `StartsConnected`:
  `GdbStartsLinked` and `DeadSocatFails`; its invariant says what a found link tells
  about the connection.
* `SlaveServesSession`: a step of `Session` is one of `Slave` or leaves it alone
  (`SessionSlave`), so what is proved of the slave holds in the session.
* `SessionImplements`: a session does what `Connections` allows, step by step. `ShownInv`
  is the mapping's invariant: the state of the socats on the master's side is that
  of the children (`Shown`), and only a child that was started has connected. This is the
  safety part of `ConnectionsImplemented`.
* `GdbServed` (`GdbIsServed`), from `ShownInv` and what a connection leaves behind:
  a thread takes one peer and keeps it (`Peers`, `ConnectedPeers`).
* `SessionPointers` and `SessionQuits`: the pointers are valid and of the right process
  and kind (`PointerValid`, `OwnSocket`), and quitting shuts every connection (`QuitShutsAll`)
  in a session too. They are the theorems of `ConnectionsProofs`, instantiated (`P`) and
  carried over by `SessionImplements`; `SessionConnections` shows that the specification
  instantiated is the one the session implements. `SessionAssumption` gives the range of ports.

**`SourceTabsProofs`**

* `MapsTrue`, `UsedStaysOpen`, `LabelsShow`, `ColorsShow` (`MapsAgree`, `UsedIsOpen`,
  `LabelsTrue`, `ColorsAgree`), from one invariant, `TabsInv`. It says how pages and rows
  correspond (`Laid`: the row of page `i` is row `2 * i`, between separators), that the maps
  fit, that every position is in an open file, that a rank shown is shown at its last line, in
  the row of its file unless it is nowhere, and that a rank which is not stopped is shown only
  inside the handler of a chunk of its own. That a new row never shows a rank twice needs that a rank shown
  in a row has that row's file or none.
  The case that needs work is closing several tabs in one sweep: an induction over
  the pages shows that after each round the maps fit the pages that are left, and
  those not reached yet are where they were.

**`MIStreamProofs`**

The assumptions are `PrinterAssumption` (a printed record has no line end in it and does not
begin like a prompt) and `ParserAssumption` (whatever memory of `Behinds` lies behind: of a
whole line the parser makes the record, if it knows it; of a part, a record begun as this one,
`IsBegunAs`, and that only of the beginning). TLC
evaluates both with the parser of libmigdb. Everything else is for any number of batches,
any cut of the stream, any queue and any set of memories.

* `TypeCorrect` (`TypeOK`): `StreamInv` says that the stream is the printed lines one behind
  the other, in the order of batches and places (`Laid`, `Ordered`), and `QueueInv` that the
  queue lies between what is handled and what is read. From `Laid` follows what one round of
  the loop can meet (`RoundCases`): nothing but separators, or one line or a part of one, which
  reaches the line's end unless the chunk ends there. What each round keeps the handler
  keeps (`HandlerKeeps`, by induction over the rounds).
* `HearsInOrder` (`HeardInOrder`): `HeardInv` adds that all that was heard begins
  before the place reached, so that what comes next is behind it.
* `LastHeardShown` (`ShownIsLastHeard`): a batch holds one change of the state, so two changes
  in one collection would have a prompt between them (`PromptBetween`), which was looked at whole
  if none was cut (`PromptInv`, `SinceInv`). So the stop `parse_stop_record` looks at is
  the change `parse_target_state` shows (`ShownInv`).
* `BatchesRetired` (`BatchesAsPrinted`): while no line is cut no chunk cuts one (`WholeInv`), and
  the lines looked at are the first `n`, for some `n`; the outputs held are what those lines
  of the batch mean, and the batches retired are those before (`CollectedInv`).
* `CatchesUp` (`CaughtUp`), with the same invariants and `GdbInv`, `KnowsInv`, `CmdInv`: the last
  batch written that tells what the target does agrees with what it does; the master shows what
  the last of the retired ones told; the number given last is known, or its answer
  is not yet retired and is awaited. An insertion that is not hasty is sent when all was
  handled, and nothing happens until GDB answers it: without `CmdInv` an earlier answer
  could take the place.

**`StartupProofs`**

* `DecodeEncode`: decoding what was encoded gives the bytes back, for any bytes and any
  length. The argument goes by groups: the four symbols at group `g` hold the bits of
  three bytes, missing ones being 0 (`SymbolBits`), and the padding tells how many are
  missing (`Lengths`).
* `ConfigRoundTrip`, `StartsWithShownValues`, `SshIsReleased`, from the assumption that the
  user's values and the hand-written files are of the types of widgets and files.
  The round trip of one configuration (`FileRoundTrip`) rests on `NumberRoundTrip`
  and on `DecodeEncode`; that the file was written from a dialog and the widgets
  show one (`Kept`) is inductive because importing gives a dialog again, from whatever
  file (`ImportType`, `DecodeType`). The SSH theorem's invariant says what is allocated at
  each call (`SshStages`).
* `TypeCorrect`, `LaunchedSlavesFindMaster` (`SlavesFindMaster`): `Launch` says that the
  members are what `read_values` makes, that the servers listen once the program is past
  them, and that a launched command is `Arguments(get_cmd(members))`. The rest is about
  operators: the blanks that are squeezed away are picked out by the rank of their index
  (`RankGrows`, `PlacesInOrder`, `PickedIs`), so that two neighbours of the command
  with only blanks between them are neighbours in `argv`, and no argument is empty.

**Only model-checked**

* Liveness, out of the prover's reach: `LatchClears`, `StartupCompletes`, `OneEndsAllEnd`,
  `MasterEndsSlave`, `SlaveEndForgotten`, and the fairness of the two refinements
  `ViewImplemented` and `ConnectionsImplemented`.
* The parser itself: that it meets `ParserAssumption`, and `ParserChecked`. It is written with recursive operators, as libmigdb's functions call
  each other, and the prover takes no module that has them.

## 5. What is not modelled

* asio, GTK, libssh and GDB beyond what the code relies on; asio is vendored and
  makes up most of the lines under `src/include`, of which the master uses blocking
  accept, read and write.
* The parts of `libmigdb` the master never calls: variable objects, disassembly,
  registers, threads, the starting of targets. The strings old GDBs put in front of
  a variable name.
* Text, layout, sensitivity of widgets and drawing; the dots of `update_markers`.
* A batch in `Breakpoints` carries one record, as GDB's reports of a change
  usually do; `MIStream` has the batches as GDB prints them.
* What is undefined in C++ beyond the point where it happens: the destructor of
  `Master` against threads still running, a write behind `argv`.
* PIDs that the kernel gives to another process.
* Configuration files with other characters than those of the encoding in the
  password, or with a key twice (the last one counts). Texts with a line end, which would not
  survive a file with a line per key.
* Commands typed in the entry other than "continue": the user may set and delete GDB's
  breakpoints by hand behind the master's back.
* In `on_delete`, a socket that is destroyed between the second load of the pointer and the
  call, and `shutdown` throwing for a connection that is gone.
* In `MIStream`, the `bkptno` of a stop; a list whose items have no name standing for a frame, which memory
  could give and whose names the code would compare as null pointers.

## 6. Plan

Done: `Breakpoints` first, as the heart of the master; `Connections`, `Slave`,
`SourceTabs`; then the stream from GDB (`MIStream`), the way to the main window
(`Startup`), and the composition of slave and master (`Session`), with which
the assumptions of `Connections` are discharged; last the parser apart from the stream
(`MILines`), with which the stream could be proved about. Proved: the invariants of all
modules but the parser's, the round trip of configurations, and the safety parts of the
two refinements. What could follow:

1. `MIParser` with recursive functions over positions instead of operators, to derive
   `ParserAssumption` from it; that needs an induction over the text, see section 4.
2. The hazards in `PROJECT.json` that no property covers, each noted there with the reason.
