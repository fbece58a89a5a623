----------------------------- MODULE MIRecords ------------------------------
(***************************************************************************)
(* What a parse of a GDB/MI line gives (libmigdb, src/include/mi_gdb.h),   *)
(* and how what is parsed of a cut line compares with what was printed.    *)
(***************************************************************************)
EXTENDS Naturals, Sequences

\* mi_output: what kind of record, its class, its results.
Output(type, class, results) == [type |-> type, class |-> class, results |-> results]

\* A parse returns what was read and the place after it, or fails (NULL).
Failed == [ok |-> FALSE]
Parsed(value, at) == [ok |-> TRUE, value |-> value, at |-> at]

-----------------------------------------------------------------------------
\* The records libmigdb knows.
Known(o) == \/ o.type = "^"
            \/ o.type \in {"*", "+", "="} /\ o.class = "stopped"
            \/ o.type \in {"~", "@", "&"}

\* A text that was cut, or all of it.
IsCutText(a, b) ==
  /\ "text" \in DOMAIN a /\ "text" \in DOMAIN b
  /\ Len(a.text) <= Len(b.text) /\ a.text = SubSeq(b.text, 1, Len(a.text))

\* A result of the same name and kind.  A text is as printed up to the cut; what is in a
\* tuple or a list that was cut may be memory's.
IsCutValue(a, b) ==
  \/ IsCutText(a, b)
  \/ "tuple" \in DOMAIN a /\ "tuple" \in DOMAIN b
  \/ "list" \in DOMAIN a /\ "list" \in DOMAIN b
IsCutItem(a, b) ==
  /\ "var" \in DOMAIN a /\ "var" \in DOMAIN b
  /\ a.var = b.var /\ IsCutValue(a.value, b.value)

Alike(a, b) == a.type = b.type /\ a.class = b.class
FirstSame(a, b, n) ==
  n <= Len(a.results) /\ \A i \in 1 .. n : a.results[i] = b.results[i]

\* What a line may be taken for that GDB began to print and that was cut: the results
\* before the cut are as printed.  A parser that has run past the end of the line goes on
\* in memory, so that behind a result that was cut anything may follow.
IsBegunAs(a, b) ==
  /\ Alike(a, b)
  /\ \E n \in 0 .. Len(b.results) :
       /\ FirstSame(a, b, n)
       /\ \/ Len(a.results) = n
          \/ /\ n < Len(b.results) /\ n < Len(a.results)
             /\ IsCutItem(a.results[n + 1], b.results[n + 1])
          \/ /\ b.class = "stream" /\ Len(a.results) = 1 /\ Len(b.results) = 1
             /\ IsCutText(a.results[1], b.results[1])
=============================================================================
