------------------------------ MODULE MILines -------------------------------
(***************************************************************************)
(* The parser of libmigdb put to every record of a small grammar: GDB      *)
(* prints it, and the parser gets its line or any part of it, with stale   *)
(* memory behind it.  TLC evaluates the assumption ParserChecked.          *)
(***************************************************************************)
EXTENDS MIParser, FiniteSets

CONSTANTS
  Letters,   \* what a text consists of; no record begins with one of these
  MaxText,   \* bound: symbols in a text
  MaxItems,  \* bound: items of a tuple, of a list, and results of a record
  Stale,     \* what memory behind a chunk consists of
  MaxStale,  \* bound: symbols of it that the parser meets, up to one '\0' at least
  Leftovers  \* pieces of longer stale lines

ASSUME LinesAssumption ==
  /\ IsFiniteSet(Letters) /\ IsFiniteSet(Stale) /\ IsFiniteSet(Leftovers)
  /\ MaxText \in Nat /\ MaxItems \in Nat /\ MaxStale \in Nat

UpTo(S, n) == UNION {[1 .. k -> S] : k \in 0 .. n}

Texts == {[text |-> t] : t \in UpTo(Letters, MaxText)}
Bound(var, values) == {[var |-> var, value |-> v] : v \in values}

\* Tuples and lists of texts, empty ones and a list of results among them.
Simple == [text : {<< >>, <<"word">>, <<"\\", "'">>}]
Composed ==
  [tuple : UpTo(Bound("a", Simple), MaxItems)] \cup [list : UpTo(Simple, MaxItems)]
    \cup [list : UpTo(Bound("b", Simple), MaxItems)]
Nested ==
  [tuple : [1 .. 1 -> Bound("c", Composed)]] \cup [list : [1 .. 1 -> Composed]]

\* External: the records GDB prints.
Records ==
  {Output("~", "stream", <<t>>) : t \in Texts}
    \cup {Output("^", "done", rs) : rs \in UpTo(Bound("x", Texts), MaxItems)}
    \cup {Output("*", "stopped", <<r, s>>) :
            r \in Bound("y", Simple), s \in Bound("z", Composed \cup Nested)}
    \cup {Output("*", "running", <<r>>) : r \in Bound("y", Simple)}

\* Every short piece of memory, and leftovers behind a bracket or two that close what the
\* line has left open.
Closing == {"}", "]"}
Memory == UpTo(Stale, MaxStale) \cup {c \o m : c \in UpTo(Closing, 2), m \in Leftovers}

-----------------------------------------------------------------------------
\* The parser returns what GDB meant by a whole line, escapes and nesting included, and
\* fails for the records libmigdb does not know (mi_parse_gdb_output), whatever lies
\* behind the line.
WholeIsMeant(record, behind) ==
  LET whole == ParseLine(PrintOutput(record), behind) IN
  /\ whole.ok <=> Known(record)
  /\ whole.ok => whole.value = record

\* What is left of the beginning of a cut line the parser rejects, or takes for a record
\* that was begun as this one (mi_get_cstring_r, mi_get_list_res, mi_get_results_alone).
BeginningIsBegun(record, behind) ==
  LET line == PrintOutput(record) IN
  \A to \in 1 .. Len(line) :
    LET part == ParseLine(SubSeq(line, 1, to), behind) IN
    part.ok => Known(part.value) /\ IsBegunAs(part.value, record)

\* What is left of the rest it always rejects, by its first symbols (mi_parse_gdb_output).
RestIsNothing(record, behind) ==
  LET line == PrintOutput(record) IN
  \A from, to \in 2 .. Len(line) : ~ParseLine(SubSeq(line, from, to), behind).ok

\* Where memory behind the chunk is zero, the record is one that was printed up to there:
\* at most its last text is cut, and no result is added or left open.
CutIsShorter(record) ==
  LET line == PrintOutput(record) IN
  \A to \in 1 .. Len(line) :
    LET part == ParseLine(SubSeq(line, 1, to), << >>)
        results == part.value.results
    IN part.ok =>
         \E n \in 0 .. Len(record.results) :
           /\ FirstSame(part.value, record, n)
           /\ \/ Len(results) = n
              \/ /\ Len(results) = n + 1 /\ n < Len(record.results)
                 /\ \/ IsCutText(results[n + 1], record.results[n + 1])
                    \/ IsCutText(results[n + 1].value, record.results[n + 1].value)

ParserChecked ==
  \A record \in Records :
    /\ \A behind \in Memory : WholeIsMeant(record, behind) /\ BeginningIsBegun(record, behind)
    /\ \A behind \in UpTo(Stale, 1) : RestIsNothing(record, behind)
    /\ CutIsShorter(record)
ASSUME ParserChecked
=============================================================================
