------------------------------ MODULE MIParser ------------------------------
(***************************************************************************)
(* The parser of GDB/MI lines that the master uses (src/include/libmigdb,  *)
(* parse.c).  A line is a sequence of symbols: the punctuation of the MI   *)
(* grammar and words; "end" is the terminating '\0'.  A parse returns what *)
(* was read and the place after it, or fails.                              *)
(* Left out: empty names, and the strings old GDBs put in front of a name. *)
(***************************************************************************)
EXTENDS MIRecords

Punctuation ==
  {"^", "*", "+", "=", "~", "@", "&", ",", "{", "}", "[", "]", "'", "\\", "end"}

\* The symbol at place i, in the line or in the memory behind it (ParseLine).
Sym(l, i) == IF i \in DOMAIN l THEN l[i] ELSE "end"

\* A quote (written ' here) ends a string only in front of these.
EndOfStr(l, i) == Sym(l, i) = "'" /\ Sym(l, i + 1) \in {"end", ",", "]", "}"}

\* The symbol after a backslash is passed over, even if it is the end of the line.
StepPast(l, i) == IF Sym(l, i) = "\\" THEN i + 2 ELSE i + 1

\* The place where the string that goes on at i ends.
RECURSIVE StringEnd(_, _)
StringEnd(l, i) ==
  IF Sym(l, i) = "end" \/ EndOfStr(l, i) THEN i ELSE StringEnd(l, StepPast(l, i))

Unescaped(symbol) == IF symbol = "n" THEN "newline" ELSE symbol

\* The text from i up to e.  The '\0' after a cut escape ends it early.
RECURSIVE Text(_, _, _)
Text(l, i, e) ==
  IF i >= e \/ (Sym(l, i) = "\\" /\ Sym(l, i + 1) = "end") THEN << >>
  ELSE IF Sym(l, i) = "\\" THEN <<Unescaped(Sym(l, i + 1))>> \o Text(l, i + 2, e)
  ELSE <<Sym(l, i)>> \o Text(l, i + 1, e)

\* mi_get_cstring_r: a string that the end of the line cuts is taken too, and the
\* place after it is then behind the end.
CString(l, i) ==
  IF Sym(l, i) # "'" THEN Failed
  ELSE LET e == StringEnd(l, i + 1) IN Parsed([text |-> Text(l, i + 1, e)], e + 1)

IsName(symbol) == symbol \notin Punctuation

\* mi_get_value, mi_get_tuple, mi_get_list; mi_get_result; mi_get_list_res (named)
\* and mi_get_list_val, with what they have read so far.
RECURSIVE Value(_, _), Items(_, _, _, _, _)

Binding(var, v) ==
  IF v.ok THEN Parsed([var |-> var, value |-> v.value], v.at) ELSE Failed

Result(l, i) ==
  IF IsName(Sym(l, i)) /\ Sym(l, i + 1) = "=" THEN Binding(Sym(l, i), Value(l, i + 2))
                                              ELSE Failed

\* After an item that ends before place at: the closing bracket, or a comma and more.
GoOn(l, at, close, named, read) ==
  IF Sym(l, at) = close THEN Parsed(read, at + 1)
  ELSE IF Sym(l, at) = "," THEN Items(l, at + 1, close, named, read)
  ELSE Failed

\* A result that cannot be parsed, followed by a comma, takes those before it along:
\* last_r is NULL again.
AfterItem(l, i, close, named, read, item) ==
  IF item.ok THEN GoOn(l, item.at, close, named, Append(read, item.value))
  ELSE IF named THEN GoOn(l, i, close, named, IF Sym(l, i) = close THEN read ELSE << >>)
  ELSE Failed

Items(l, i, close, named, read) ==
  AfterItem(l, i, close, named, read, IF named THEN Result(l, i) ELSE Value(l, i))

\* The items from i on, up to the closing bracket, which may follow at once.
Enclosed(l, i, close, named) ==
  IF Sym(l, i) = close THEN Parsed(<< >>, i + 1) ELSE Items(l, i, close, named, << >>)

AsTuple(items) == IF items.ok THEN Parsed([tuple |-> items.value], items.at) ELSE Failed
AsList(items) == IF items.ok THEN Parsed([list |-> items.value], items.at) ELSE Failed

Value(l, i) ==
  CASE Sym(l, i) = "'" -> CString(l, i)
    [] Sym(l, i) = "{" -> AsTuple(Enclosed(l, i + 1, "}", TRUE))
    [] Sym(l, i) = "[" -> AsList(Enclosed(l, i + 1, "]", IsName(Sym(l, i + 1))))
    [] OTHER -> Failed

\* mi_get_results_alone: nothing, or commas and results, up to the end.
RECURSIVE ResultsAlone(_, _, _)

AfterResult(l, read, r) ==
  IF r.ok THEN ResultsAlone(l, r.at, Append(read, r.value)) ELSE Failed

ResultsAlone(l, i, read) ==
  IF Sym(l, i) = "end" THEN Parsed(read, i)
  ELSE IF Sym(l, i) = "," THEN AfterResult(l, read, Result(l, i + 1))
  ELSE Failed

ResultClasses == {"done", "running", "connected", "error", "exit"}

AsyncClasses == {"stopped", "download"}

One(v) == IF v.ok THEN Parsed(<<v.value>>, v.at) ELSE Failed

OutputOf(type, class, results) ==
  IF results.ok THEN Parsed(Output(type, class, results.value), 1) ELSE Failed

\* mi_parse_gdb_output: any other async class, "running" among them, is unknown.
ParseGdbOutput(l) ==
  LET type == Sym(l, 1)
      class == Sym(l, 2)
  IN CASE \/ type = "^" /\ class \in ResultClasses
          \/ type \in {"*", "+", "="} /\ class \in AsyncClasses ->
            OutputOf(type, class, ResultsAlone(l, 3, << >>))
       [] type \in {"~", "@", "&"} ->
            OutputOf(type, "stream", One(CString(l, 2)))
       [] OTHER -> Failed

\* mi_parse_gdb_output called for a line.  A parser that runs past its end goes on in the
\* memory behind it: whatever an earlier use of the heap has left there, and in the end
\* some '\0'.
ParseLine(line, behind) == ParseGdbOutput(line \o <<"end">> \o behind)

-----------------------------------------------------------------------------
(* External: how GDB prints a record, from the grammar in its manual *)

RECURSIVE Escaped(_)
Escaped(text) ==
  IF text = << >> THEN << >>
  ELSE (CASE Head(text) \in {"'", "\\"} -> <<"\\", Head(text)>>
          [] Head(text) = "newline" -> <<"\\", "n">>
          [] OTHER -> <<Head(text)>>) \o Escaped(Tail(text))

\* A value in a list has no name.
PrintName(r) == IF "var" \in DOMAIN r THEN <<r.var, "=">> ELSE << >>
ValueOf(r) == IF "var" \in DOMAIN r THEN r.value ELSE r

RECURSIVE PrintValue(_), PrintResults(_)
PrintValue(v) ==
  CASE "text" \in DOMAIN v -> <<"'">> \o Escaped(v.text) \o <<"'">>
    [] "tuple" \in DOMAIN v -> <<"{">> \o PrintResults(v.tuple) \o <<"}">>
    [] "list" \in DOMAIN v -> <<"[">> \o PrintResults(v.list) \o <<"]">>

PrintResults(rs) ==
  IF rs = << >> THEN << >>
  ELSE PrintName(Head(rs)) \o PrintValue(ValueOf(Head(rs)))
       \o (IF Tail(rs) = << >> THEN << >> ELSE <<",">> \o PrintResults(Tail(rs)))

PrintOutput(o) ==
  IF o.class = "stream" THEN <<o.type>> \o PrintValue(o.results[1])
  ELSE <<o.type, o.class>>
       \o (IF o.results = << >> THEN << >> ELSE <<",">> \o PrintResults(o.results))
=============================================================================
