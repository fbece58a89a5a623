----------------------------- MODULE SourceTabs -----------------------------
(***************************************************************************)
(* The source view and the overview of UIWindow (window.cpp): the notebook *)
(* with one page per source file, the grid with one row per file and one   *)
(* column per rank, the maps that relate paths, pages and rows, and the    *)
(* position of every process.  It is all the GUI thread's; chunks of GDB's *)
(* output and deferred scrolling wait in the queue of Glib idle sources.   *)
(* A chunk holds one batch or more and is one handler: its batches are     *)
(* handled one after the other and nothing else in between.                *)
(***************************************************************************)
EXTENDS Integers, FiniteSets, SequencesExt

CONSTANTS
  NumProcs,     \* m_num_processes
  Files,        \* full paths of source files
  NoFile,       \* the empty path
  Missing,      \* the files that cannot be read under their path
  Lines,        \* line numbers
  Places,       \* where a target may stop: files with lines
  FollowChoices, \* what the user may choose in FollowDialog, as sets of ranks
  NumColors,    \* UIDrawingArea::NUM_COLORS
  MaxIdle,      \* bound: what waits in idle when GDB adds a chunk
  MaxChunk      \* bound: batches in a chunk

Ranks == 0 .. NumProcs - 1

ASSUME TabsAssumption ==
  /\ NumProcs \in Nat \ {0} /\ NumColors \in Nat \ {0} /\ MaxIdle \in Nat /\ MaxChunk \in Nat
  /\ NoFile \notin Files /\ Missing \subseteq Files /\ Lines \subseteq Nat \ {0}
  /\ Places \subseteq Files \X Lines
  /\ \A S \in FollowChoices : Cardinality(S) <= 1 \/ S = Ranks

Blank == 0
NoColor == -1

VARIABLES
  gdb,           \* the ranks whose targets run
  idle,          \* the idle sources, oldest first; first: a batch begins its chunk
  target_state,  \* m_target_state
  current_file,  \* m_current_file
  current_line,  \* m_current_line
  follow,        \* m_follow_rank: the set of ranks that are followed
  pages,         \* the pages of the notebook, by path
  rows,          \* the rows of the grid from m_first_row_idx on
  last_row,      \* m_last_row_idx, counted from m_first_row_idx
  path_2_pagenum, pagenum_2_path, path_2_row,
  views,         \* the paths in m_opened_files and m_path_2_view
  unloaded,      \* the open files that show "Could not load file"
  marks,         \* the files that hold a line mark, so a breakpoint
  crashed        \* do_scroll has thrown

positions == <<current_file, current_line>>
maps == <<path_2_pagenum, pagenum_2_path, path_2_row, views>>
vars == <<gdb, idle, target_state, current_file, current_line, follow, pages, rows, last_row,
          path_2_pagenum, pagenum_2_path, path_2_row, views, unloaded, marks, crashed>>

Separator == [path |-> NoFile, text |-> [r \in Ranks |-> Blank],
              color |-> [r \in Ranks |-> NoColor]]

Init ==
  /\ gdb = Ranks
  /\ idle = << >>
  /\ target_state = [r \in Ranks |-> "unknown"]
  /\ current_file = [r \in Ranks |-> NoFile]
  /\ current_line = [r \in Ranks |-> 0]
  /\ follow = Ranks
  /\ pages = << >> /\ rows = << >> /\ last_row = 0
  /\ path_2_pagenum = << >> /\ pagenum_2_path = << >> /\ path_2_row = << >>
  /\ views = {} /\ unloaded = {} /\ marks = {}
  /\ crashed = FALSE

-----------------------------------------------------------------------------
(* The overview: color_overview, update_overview, append_overview_row *)

\* The row a map gives to a path is row i of the grid.
IsRowOf(map, p, i) == p \in DOMAIN map /\ map[p] + 1 = i

\* The lines of file p met by color_overview up to rank r; file, line are the
\* positions of the processes.
LinesMet(p, r, file, line) == {line[q] : q \in {q \in 0 .. r : file[q] = p}}

\* line_2_offset: the number of lines met before that of rank r.
Offset(p, r, file, line) ==
  LET first == CHOOSE q \in 0 .. r :
                 /\ file[q] = p /\ line[q] = line[r]
                 /\ \A s \in 0 .. q - 1 : file[s] = p => line[s] # line[r]
  IN Cardinality(LinesMet(p, first - 1, file, line))

\* Mutant: the lines in excess share the last color.
ColorOfClamped(p, r, file, line) ==
  IF file[r] = p
  THEN Min({Offset(p, r, file, line), NumColors - 1}) ELSE NoColor

ColorOf(p, r, file, line) ==
  IF file[r] = p /\ Cardinality(LinesMet(p, r, file, line)) <= NumColors
  THEN Offset(p, r, file, line) ELSE NoColor

Colored(grid, map, file, line) ==
  [i \in 1 .. Len(grid) |->
     IF \E p \in DOMAIN map : IsRowOf(map, p, i)
     THEN LET p == CHOOSE p \in DOMAIN map : IsRowOf(map, p, i) IN
          [grid[i] EXCEPT !.color = [r \in Ranks |-> ColorOf(p, r, file, line)]]
     ELSE grid[i]]

\* Mutant: the label in the row the process has left stays.
RelabeledNoClear(grid, r, f, l) ==
  [i \in 1 .. Len(grid) |->
     IF IsRowOf(path_2_row, f, i) THEN [grid[i] EXCEPT !.text[r] = l] ELSE grid[i]]

\* Rank r is shown at line l of file f, and in no other row; clear_labels_overview
\* with NoFile.
Relabeled(grid, r, f, l) ==
  [i \in 1 .. Len(grid) |->
     IF \E p \in DOMAIN path_2_row : IsRowOf(path_2_row, p, i)
     THEN [grid[i] EXCEPT !.text[r] = IF IsRowOf(path_2_row, f, i) THEN l ELSE Blank]
     ELSE grid[i]]

NewRow(f, file, line) ==
  [path |-> f,
   text |-> [r \in Ranks |-> IF file[r] = f THEN line[r] ELSE Blank],
   color |-> [r \in Ranks |-> NoColor]]

\* map[key] = value
With(map, key, value) ==
  [k \in DOMAIN map \cup {key} |-> IF k = key THEN value ELSE map[k]]

\* append_source_file and append_overview_row, for a grid that update_overview may
\* just have changed.
AppendSourceFile(f, grid, file, line) ==
  IF f \in views
  THEN rows' = grid /\ UNCHANGED <<pages, last_row, maps, unloaded>>
  ELSE /\ pages' = Append(pages, f)
       /\ path_2_row' = With(path_2_row, f, last_row + 1)
       /\ rows' = Colored(grid \o <<Separator, NewRow(f, file, line)>>,
                          path_2_row', file, line)
       /\ last_row' = last_row + 2
       /\ path_2_pagenum' = With(path_2_pagenum, f, Len(pages))
       /\ pagenum_2_path' = With(pagenum_2_path, Len(pages), f)
       /\ views' = views \cup {f}
       /\ unloaded' = IF f \in Missing THEN unloaded \cup {f} ELSE unloaded

-----------------------------------------------------------------------------
(* External: GDB *)

\* A batch that does not begin a chunk follows another one in the same read.
Batches(r) ==
  IF r \in gdb
  THEN {[kind |-> "stopped", rank |-> r, file |-> p[1], line |-> p[2], first |-> b] :
          p \in Places, b \in BOOLEAN}
       \cup [kind : {"stopped", "exited"}, rank : {r}, file : {NoFile}, line : {0}, first : BOOLEAN]
  ELSE [kind : {"running"}, rank : {r}, file : {NoFile}, line : {0}, first : BOOLEAN]

\* The youngest idle source is a chunk of rank r that is not being handled yet.
GoesOn(r) ==
  \E i \in 1 .. Len(idle) :
    /\ idle[i].first /\ idle[i].kind # "scroll" /\ idle[i].rank = r
    /\ \A j \in i + 1 .. Len(idle) : ~idle[j].first
    /\ Len(idle) - i + 1 < MaxChunk

\* GDB reports a change; commands sent earlier may resume a target at once.
GdbSays(r) ==
  /\ \E batch \in Batches(r) :
       /\ IF batch.first THEN Len(idle) < MaxIdle ELSE GoesOn(r)
       /\ idle' = Append(idle, batch)
       /\ gdb' = IF batch.kind = "running" THEN gdb \cup {r} ELSE gdb \ {r}
  /\ UNCHANGED <<target_state, positions, follow, pages, rows, last_row, maps, unloaded, marks, crashed>>

-----------------------------------------------------------------------------
(* The GUI thread: handle_data_gdb, do_scroll *)

Scroll(r) == [kind |-> "scroll", rank |-> r, file |-> NoFile, line |-> 0, first |-> TRUE]

\* The handler is in a chunk, between two batches.
InChunk == idle # << >> /\ ~Head(idle).first

\* The batch at the head is the last one of its chunk.
EndsChunk == Len(idle) = 1 \/ idle[2].first

\* check_overview, once per chunk: the labels of a process go that runs then.
LabelsOfRunning(r) == IF EndsChunk THEN Relabeled(rows, r, NoFile, 0) ELSE rows

\* ^running: the process is nowhere.
HandleRunning ==
  /\ idle # << >> /\ Head(idle).kind = "running"
  /\ LET r == Head(idle).rank IN
     /\ target_state' = [target_state EXCEPT ![r] = "running"]
     /\ current_file' = [current_file EXCEPT ![r] = NoFile]
     /\ rows' = LabelsOfRunning(r)
  /\ idle' = Tail(idle)
  /\ UNCHANGED <<gdb, current_line, follow, pages, last_row, maps, unloaded, marks, crashed>>

\* The end of the program: parse_stop_record clears the labels itself.
HandleExited ==
  /\ idle # << >> /\ Head(idle).kind = "exited"
  /\ LET r == Head(idle).rank IN
     /\ target_state' = [target_state EXCEPT ![r] = "exited"]
     /\ current_file' = [current_file EXCEPT ![r] = NoFile]
     /\ rows' = Relabeled(rows, r, NoFile, 0)
  /\ idle' = Tail(idle)
  /\ UNCHANGED <<gdb, current_line, follow, pages, last_row, maps, unloaded, marks, crashed>>

\* *stopped with a frame: set_position, append_source_file, scroll_to_line.
HandleStop ==
  /\ idle # << >> /\ Head(idle).kind = "stopped" /\ Head(idle).file # NoFile
  /\ LET batch == Head(idle)  r == batch.rank IN
     /\ target_state' = [target_state EXCEPT ![r] = "stopped"]
     /\ current_file' = [current_file EXCEPT ![r] = batch.file]
     /\ current_line' = [current_line EXCEPT ![r] = batch.line]
     /\ AppendSourceFile(batch.file,
          Colored(Relabeled(rows, r, batch.file, batch.line), path_2_row,
                  current_file', current_line'),
          current_file', current_line')
     /\ idle' = IF r \in follow THEN Append(Tail(idle), Scroll(r)) ELSE Tail(idle)
  /\ UNCHANGED <<gdb, follow, marks, crashed>>

\* *stopped where no source is known: position and labels stay as they are, even those
\* of a stop before a ^running of the same chunk.
HandleStopNowhere ==
  /\ idle # << >> /\ Head(idle).kind = "stopped" /\ Head(idle).file = NoFile
  /\ target_state' = [target_state EXCEPT ![Head(idle).rank] = "stopped"]
  /\ idle' = Tail(idle)
  /\ UNCHANGED <<gdb, positions, follow, pages, rows, last_row, maps, unloaded, marks, crashed>>

\* m_path_2_view.at throws for a path that is not there.
DoScroll ==
  /\ idle # << >> /\ Head(idle).kind = "scroll"
  /\ crashed' = (current_file[Head(idle).rank] \notin views)
  /\ idle' = Tail(idle)
  /\ UNCHANGED <<gdb, target_state, positions, follow, pages, rows, last_row, maps, unloaded, marks>>

-----------------------------------------------------------------------------
(* The user *)

OpenFile(f) ==
  /\ AppendSourceFile(f, rows, current_file, current_line)
  /\ UNCHANGED <<gdb, idle, target_state, positions, follow, marks, crashed>>

\* open_missing: the user names another file; update_overview for every rank.
OpenMissing(f) ==
  /\ f \in unloaded
  /\ unloaded' = unloaded \ {f}
  /\ LET relabeled == [i \in 1 .. Len(rows) |->
           IF \E p \in DOMAIN path_2_row : IsRowOf(path_2_row, p, i)
           THEN [rows[i] EXCEPT !.text = [r \in Ranks |->
                   IF IsRowOf(path_2_row, current_file[r], i) THEN current_line[r] ELSE Blank]]
           ELSE rows[i]]
     IN rows' = Colored(relabeled, path_2_row, current_file, current_line)
  /\ UNCHANGED <<gdb, idle, target_state, positions, follow, pages, last_row, maps, marks, crashed>>

\* create_mark and clear_mark, seen from close_unused_tabs: the set of marks of a
\* buffer becomes non-empty or empty.
SetMark(f) ==
  /\ f \in views \ unloaded
  /\ marks' = marks \cup {f}
  /\ UNCHANGED <<gdb, idle, target_state, positions, follow, pages, rows, last_row, maps, unloaded, crashed>>

ClearMark(f) ==
  /\ f \in marks
  /\ marks' = marks \ {f}
  /\ UNCHANGED <<gdb, idle, target_state, positions, follow, pages, rows, last_row, maps, unloaded, crashed>>

\* FollowDialog: one rank, all or none.
Follow(S) ==
  /\ follow' = S
  /\ UNCHANGED <<gdb, idle, target_state, positions, pages, rows, last_row, maps, unloaded, marks, crashed>>

\* Mutant: only processes count.
IsUsedByProcess(f) == \E r \in Ranks : current_file[r] = f

IsUsed(f) == f \in marks \/ \E r \in Ranks : current_file[r] = f

\* pages_to_close
Closing == {n \in 0 .. Len(pages) - 1 : ~IsUsed(pagenum_2_path[n])}

\* remove_page and remove_row; GTK ignores an index that is out of range.
Without(seq, index) ==
  IF index + 1 \in DOMAIN seq THEN RemoveAt(seq, index + 1) ELSE seq

\* Mutant: the pages are closed in ascending order.
FromFirst(k) == k - 1

\* The k-th page to look at: reverse order keeps the indices valid.
FromLast(k) == Len(pages) - k

\* What is left of the notebook and the grid after k pages: a page to close goes with
\* its row and the separator above it, found by the maps as they were.
Closed[k \in 0 .. Len(pages)] ==
  IF k = 0 THEN [pages |-> pages, rows |-> rows, last_row |-> last_row]
  ELSE LET left == Closed[k - 1]
           n == FromLast(k)
           row == path_2_row[pagenum_2_path[n]] IN
       IF n \in Closing
       THEN [pages |-> Without(left.pages, n),
             rows |-> Without(Without(left.rows, row), row - 1),
             last_row |-> left.last_row - 2]
       ELSE left

\* close_unused_tabs: pages and rows go one by one, then every map is built anew.
CloseUnusedTabs ==
  /\ LET left == Closed[Len(pages)] IN
     /\ pages' = left.pages
     /\ rows' = left.rows
     /\ last_row' = left.last_row
  /\ views' = Range(pages')
  /\ pagenum_2_path' = [n \in 0 .. Len(pages') - 1 |-> pages'[n + 1]]
  /\ path_2_pagenum' = [f \in views' |-> CHOOSE n \in 0 .. Len(pages') - 1 : pages'[n + 1] = f]
  /\ path_2_row' = [f \in views' |-> 2 * path_2_pagenum'[f] + 1]
  /\ unloaded' = unloaded \cap views'
  /\ UNCHANGED <<gdb, idle, target_state, positions, follow, marks, crashed>>

-----------------------------------------------------------------------------
UserActs ==
  \/ CloseUnusedTabs
  \/ \E f \in Files : OpenFile(f) \/ OpenMissing(f) \/ SetMark(f) \/ ClearMark(f)
  \/ \E S \in FollowChoices : Follow(S)

Next ==
  /\ ~crashed
  /\ \/ HandleRunning \/ HandleExited \/ HandleStop \/ HandleStopNowhere \/ DoScroll
     \/ \E r \in Ranks : GdbSays(r)
     \/ ~InChunk /\ UserActs

Spec == Init /\ [][Next]_vars

-----------------------------------------------------------------------------
\* Paths, pages and rows agree: each map gives the page and the grid row that really
\* are the path's, and m_last_row_idx is the end of the grid - across any series of
\* opening files and closing several at once (append_overview_row, close_unused_tabs).
MapsAgree ==
  /\ views = Range(pages) /\ IsInjective(pages)
  /\ DOMAIN pagenum_2_path = 0 .. Len(pages) - 1
  /\ DOMAIN path_2_pagenum = views /\ DOMAIN path_2_row = views
  /\ last_row = Len(rows)
  /\ \A f \in views :
       /\ pages[path_2_pagenum[f] + 1] = f /\ pagenum_2_path[path_2_pagenum[f]] = f
       /\ rows[path_2_row[f] + 1].path = f

\* A file that a process stands in or that has a breakpoint mark is open: its view,
\* its row and the marks' breakpoints are there (close_unused_tabs, set_position).
UsedIsOpen ==
  \A f \in Files : IsUsedByProcess(f) \/ f \in marks => f \in views

Shows(i, r) == rows[i].text[r] # Blank

\* The overview shows a process in one row at most, at the line it was last seen at and
\* in the row of its file, and does show it if its file is known; one that is nowhere may
\* keep its last label while it is stopped, and has none when it runs or has exited, but
\* inside the handler of its own chunk (update_overview, append_overview_row, check_overview).
LabelsTrue ==
  \A r \in Ranks :
    LET shown == {i \in 1 .. Len(rows) : Shows(i, r)} IN
    /\ \A i, j \in shown : i = j
    /\ \A i \in shown : /\ rows[i].text[r] = current_line[r]
                         /\ rows[i].path # NoFile /\ current_file[r] \in {rows[i].path, NoFile}
    /\ current_file[r] # NoFile => shown # {}
    /\ target_state[r] # "stopped" /\ ~(InChunk /\ Head(idle).rank = r) => shown = {}

\* Among the processes shown in a row with a color, the color tells the lines apart and
\* nothing else, whatever was opened, closed or left since the colors were set and
\* however many lines are in excess (color_overview).
ColorsAgree ==
  \A i \in 1 .. Len(rows), q, r \in Ranks :
    LET Seen(x) == Shows(i, x) /\ rows[i].color[x] # NoColor IN
    Seen(q) /\ Seen(r) =>
      ((rows[i].text[q] = rows[i].text[r]) <=> (rows[i].color[q] = rows[i].color[r]))

\* window.cpp:1457, "will execute in the near future": the scrolling deferred for a
\* stop finds a view when it runs, and does not throw.
ScrollFindsView == ~crashed
=============================================================================
