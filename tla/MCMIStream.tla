---------------------------- MODULE MCMIStream -----------------------------
(* MIStream with the parser of libmigdb, which MILines puts to the test. *)
EXTENDS MIStream, MILines

MCLetters == {"'", "\\", ","}
MCStale == {"end", ",", "=", "'", "}", "]", "{", "[", "\\", "stale"}
MCNumberText == [n \in Numbers |-> IF n = 2 THEN "2" ELSE IF n = 3 THEN "3" ELSE "4"]
MCPrintRecord(o) == PrintOutput(o)
MCParseRecord(line, behind) == ParseLine(line, behind)

\* What older lines may have left: a whole result, a text, a list.
StaleText(var, text) == <<var, "=", "'">> \o text \o <<"'">>
MCLeftovers ==
  {<<",">> \o StaleText("stale", <<"stale">>),
   <<",", "stale", "=", "{">> \o StaleText("stale", << >>) \o <<"}">>,
   <<"'", "}">>,
   <<"'", ",", "stale", "=", "[", "'", "'", "]">>}

\* Memory that changes what the master makes of a cut line: it closes a tuple, and says
\* that the target has exited, or gives another number and another file.
MCBehinds ==
  {<< >>,
   <<"}", ",">> \o StaleText("reason", <<"exited">>),
   <<",">> \o StaleText("number", <<"3">>) \o <<"}", ",", "frame", "=", "{">>
     \o StaleText("fullname", <<"stale">>) \o <<"}">>}
=============================================================================
