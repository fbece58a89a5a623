--------------------------- MODULE MIStreamProofs ---------------------------
(***************************************************************************)
(* Proofs about MIStream, for every stream, every cut of it and every      *)
(* parser ParserAssumption allows: the loop of handle_data_gdb looks at    *)
(* one line of GDB or at a part of one each round; from there on, what is  *)
(* kept by a round is kept by the handler.                                 *)
(*   TypeCorrect       the stream is the lines (StreamInv), the queue is   *)
(*                     what lies between handled and read (QueueInv)       *)
(*   HearsInOrder      what was heard is begun as a line says (HeardInv)   *)
(*   LastHeardShown    no two changes without a prompt between (SinceInv,  *)
(*                     PromptInv), the last one is shown (ShownInv)        *)
(*   BatchesRetired    no line cut: the lines looked at are the first n,   *)
(*                     and what is held is what they mean (CollectedInv)   *)
(*   CatchesUp         what batches tell is what GDB did (GdbInv), known   *)
(*                     once they are retired (KnowsInv, CmdInv)            *)
(***************************************************************************)
EXTENDS MIStream, WellFoundedInduction, SequenceTheorems, TLAPS

LEMMA LeastNumber ==
  ASSUME NEW T, T \subseteq Nat, T # {}
  PROVE  \E n \in T : \A m \in T : n <= m
<1>1. PICK n \in T : \A m \in T : ~(<<m, n>> \in OpToRel(<, Nat))
  BY NatLessThanWellFounded, WFMin
<1>2. \A m \in T : ~(m < n)
  BY <1>1 DEF OpToRel
<1> QED BY <1>2

-----------------------------------------------------------------------------
(* The loop of handle_data_gdb *)

\* What one more round makes of v, if the chunk is not at its end.
OneMore(v, end, behind) == IF v.at = end THEN v ELSE Round(v, end, behind)

\* f tells what there is after each of the first n rounds.
Tells(f, n, end, behind) ==
  f = [k \in 0 .. n |-> IF k = 0 THEN view ELSE OneMore(f[k - 1], end, behind)]

LEMMA TellsUpTo ==
  ASSUME NEW n \in Nat, NEW end, NEW behind
  PROVE  \E f : Tells(f, n, end, behind)
<1> DEFINE Not == {m \in Nat : ~\E f : Tells(f, m, end, behind)}
<1>1. Not = {}
  <2> SUFFICES ASSUME Not # {} PROVE FALSE
    OBVIOUS
  <2>1. Not \subseteq Nat
    OBVIOUS
  <2>2. PICK m \in Not : \A l \in Not : m <= l
    <3> HIDE DEF Not
    <3> QED BY <2>1, LeastNumber
  <2>3. CASE m = 0
    <3> DEFINE f == [k \in 0 .. 0 |-> view]
    <3>1. \A k \in 0 .. 0 : k = 0
      OBVIOUS
    <3>2. Tells(f, 0, end, behind)
      BY <3>1 DEF Tells
    <3> QED BY <2>2, <2>3, <3>2
  <2>4. CASE m # 0
    <3>1. m \in Nat /\ m - 1 \in Nat /\ m - 1 < m
      BY <2>2, <2>4
    <3>2. PICK f : Tells(f, m - 1, end, behind)
      BY <2>2, <3>1
    <3> DEFINE g == [k \in 0 .. m |-> IF k = m THEN OneMore(f[m - 1], end, behind) ELSE f[k]]
    <3>3. \A k \in 0 .. m : /\ k = m \/ k \in 0 .. m - 1
                            /\ k # 0 => k - 1 \in 0 .. m - 1 /\ k - 1 \in 0 .. m /\ k - 1 # m
      BY <3>1
    <3>4. \A k \in 0 .. m - 1 :
            f[k] = IF k = 0 THEN view ELSE OneMore(f[k - 1], end, behind)
      BY <3>2 DEF Tells
    <3>5. \A k \in 0 .. m - 1 : g[k] = f[k]
      BY <3>1
    <3>6. ASSUME NEW k \in 0 .. m
          PROVE  g[k] = IF k = 0 THEN view ELSE OneMore(g[k - 1], end, behind)
      <4>1. CASE k = m
        <5>1. g[k] = OneMore(f[m - 1], end, behind)
          BY <4>1
        <5>2. g[k - 1] = f[m - 1]
          BY <4>1, <3>1, <3>5
        <5> QED BY <4>1, <5>1, <5>2, <2>4
      <4>2. CASE k # m
        <5>1. k \in 0 .. m - 1 /\ g[k] = f[k]
          BY <4>2, <3>3, <3>5
        <5>2. k # 0 => g[k - 1] = f[k - 1]
          BY <3>3, <3>5
        <5> QED BY <5>1, <5>2, <3>4
      <4> QED BY <4>1, <4>2
    <3>7. g = [k \in 0 .. m |-> g[k]]
      OBVIOUS
    <3> HIDE DEF g
    <3>8. Tells(g, m, end, behind)
      BY <3>6, <3>7 DEF Tells
    <3> QED BY <2>2, <3>8
  <2> QED BY <2>3, <2>4
<1> QED BY <1>1

\* What every round keeps holds after the whole chunk, and the whole chunk is looked at:
\* a round takes one symbol at least.
LEMMA AllRoundsKeep ==
  ASSUME NEW S, NEW end \in Nat, NEW behind, handled \in Nat, handled <= end, view \in S,
         \A v \in S : v.at \in handled .. end,
         \A v \in S : v.at # end => /\ Round(v, end, behind) \in S
                                    /\ v.at < Round(v, end, behind).at
  PROVE  AllRounds(end, behind) \in S /\ AllRounds(end, behind).at = end
<1> DEFINE n == end - handled
<1> DEFINE f == CHOOSE g : Tells(g, n, end, behind)
<1>1. n \in Nat
  OBVIOUS
<1>2. AllRounds(end, behind) = f[n]
  BY DEF AllRounds, Tells, OneMore
<1>3. Tells(f, n, end, behind)
  BY <1>1, TellsUpTo
<1> HIDE DEF f
<1>4. \A k \in 0 .. n : f[k] = IF k = 0 THEN view ELSE OneMore(f[k - 1], end, behind)
  BY <1>3 DEF Tells
<1> DEFINE Not == {k \in 0 .. n : ~(f[k] \in S /\ (f[k].at = end \/ f[k].at >= handled + k))}
<1>5. Not = {}
  <2> SUFFICES ASSUME Not # {} PROVE FALSE
    OBVIOUS
  <2>1. Not \subseteq Nat
    BY <1>1
  <2>2. PICK k \in Not : \A m \in Not : k <= m
    <3> HIDE DEF Not
    <3> QED BY <2>1, LeastNumber
  <2>3. k # 0
    <3>1. f[0] = view /\ view.at = handled
      BY <1>1, <1>4 DEF view
    <3> QED BY <2>2, <3>1
  <2>4. k \in 1 .. n /\ k - 1 \in 0 .. n /\ k - 1 < k
    BY <2>2, <2>3, <1>1
  <2>5. f[k - 1] \in S /\ (f[k - 1].at = end \/ f[k - 1].at >= handled + (k - 1))
    BY <2>2, <2>4
  <2>6. f[k] = OneMore(f[k - 1], end, behind)
    BY <1>4, <2>2, <2>3
  <2>7. CASE f[k - 1].at = end
    BY <2>2, <2>5, <2>6, <2>7 DEF OneMore
  <2>8. CASE f[k - 1].at # end
    <3>1. f[k] \in S /\ f[k - 1].at < f[k].at
      BY <2>5, <2>6, <2>8 DEF OneMore
    <3>2. f[k].at \in Int /\ f[k - 1].at \in Int
      BY <2>5, <3>1
    <3>3. f[k].at >= handled + k
      BY <2>4, <2>5, <2>8, <3>1, <3>2
    <3> QED BY <2>2, <3>1, <3>3
  <2> QED BY <2>7, <2>8
<1>6. f[n] \in S /\ (f[n].at = end \/ f[n].at >= handled + n)
  BY <1>1, <1>5
<1>7. f[n].at \in handled .. end /\ handled + n = end
  BY <1>6
<1> HIDE DEF n
<1> QED BY <1>2, <1>6, <1>7

-----------------------------------------------------------------------------
(* What GDB prints *)

LEMMA BatchFacts ==
  ASSUME NEW batch \in Batches
  PROVE  /\ Len(batch) \in 1 .. 2 /\ DOMAIN batch = 1 .. Len(batch)
         /\ LinesOf(batch) \in 2 .. 3
         /\ \A i \in 1 .. Len(batch) : batch[i] \in Outputs
<1>1. Len(batch) \in 1 .. 2 /\ DOMAIN batch = 1 .. Len(batch)
  <2>1. CASE batch = RunBatch
    BY <2>1 DEF RunBatch
  <2>2. CASE batch = ErrorBatch
    <3>1. PICK x : ErrorBatch = <<x>>
      BY Zenon DEF ErrorBatch
    <3> QED BY <2>2, <3>1
  <2>3. CASE batch = StopBatch
    BY <2>3 DEF StopBatch
  <2>4. CASE batch = ExitBatch
    BY <2>4 DEF ExitBatch
  <2>5. ASSUME NEW n \in Numbers, batch = DoneBatch(n)
        PROVE  Len(batch) \in 1 .. 2 /\ DOMAIN batch = 1 .. Len(batch)
    BY <2>5 DEF DoneBatch
  <2> QED BY <2>1, <2>2, <2>3, <2>4, <2>5 DEF Batches
<1>2. LinesOf(batch) \in 2 .. 3
  <2>1. \A n \in 1 .. 2 : n + 1 \in 2 .. 3
    OBVIOUS
  <2> QED BY <1>1, <2>1 DEF LinesOf
<1>3. ASSUME NEW i \in 1 .. Len(batch) PROVE batch[i] \in Outputs
  <2>1. i \in DOMAIN batch
    BY <1>1
  <2>2. batch[i] \in {batch[j] : j \in DOMAIN batch}
    BY <2>1
  <2> QED BY <2>2 DEF Outputs
<1> QED BY <1>1, <1>2, <1>3

LEMMA TextFacts ==
  ASSUME NEW batch \in Batches, NEW place \in 1 .. LinesOf(batch)
  PROVE  /\ TextOf(batch, place) \in Seq(Symbols)
         /\ Len(TextOf(batch, place)) \in Nat \ {0}
         /\ \A i \in 1 .. Len(TextOf(batch, place)) :
              TextOf(batch, place)[i] \notin {"cr", "lf"}
<1> DEFINE text == TextOf(batch, place)
<1>1. CASE place <= Len(batch)
  <2>1. batch[place] \in Outputs /\ text = PrintRecord(batch[place])
    BY <1>1, BatchFacts DEF TextOf
  <2>2. /\ text \in Seq(Symbols) /\ text # << >>
        /\ \A i \in 1 .. Len(text) : text[i] \notin {"cr", "lf", "(gd"}
    BY <2>1, PrinterAssumption DEF PrinterAssumption
  <2> HIDE DEF text
  <2>3. Len(text) \in Nat \ {0}
    BY <2>2
  <2> QED BY <2>2, <2>3 DEF text
<1>2. CASE ~(place <= Len(batch))
  <2>1. text = Prompt
    BY <1>2 DEF TextOf
  <2>2. Prompt \in Seq(Symbols)
    <3>1. \A i \in 1 .. 3 : Prompt[i] \in Symbols
      BY DEF Symbols, Prompt
    <3> QED BY <3>1 DEF Prompt
  <2>3. Len(Prompt) = 3 /\ \A i \in 1 .. 3 : Prompt[i] \notin {"cr", "lf"}
    BY DEF Prompt
  <2> QED BY <2>1, <2>2, <2>3
<1> QED BY <1>1, <1>2

-----------------------------------------------------------------------------
(* The stream is the lines *)

TextAt(k) == TextOf(written[lines[k].batch], lines[k].place)
TextEnd(k) == lines[k].from + Len(TextAt(k))

\* Line k is in the stream: its text, and the line end.
Lies(k) ==
  /\ \A p \in 1 .. Len(TextAt(k)) : stream[lines[k].from + p] = TextAt(k)[p]
  /\ stream[TextEnd(k) + 1] = "cr" /\ stream[TextEnd(k) + 2] = "lf"
  /\ TextEnd(k) + 2 <= Len(stream)

Laid ==
  /\ written \in Seq(Batches) /\ stream \in Seq(Symbols)
  /\ Len(lines) \in Nat /\ DOMAIN lines = 1 .. Len(lines)
  /\ \A k \in 1 .. Len(lines) :
       /\ lines[k].batch \in 1 .. Len(written)
       /\ lines[k].place \in 1 .. LinesOf(written[lines[k].batch])
       /\ lines[k].from \in Nat
       /\ Lies(k)
       /\ \A j \in 1 .. k - 1 : TextEnd(j) + 2 <= lines[k].from
  /\ \A p \in 1 .. Len(stream) :
       \E k \in 1 .. Len(lines) : lines[k].from < p /\ p <= TextEnd(k) + 2

LEMMA LineFacts ==
  ASSUME Laid, NEW k \in 1 .. Len(lines)
  PROVE  /\ written[lines[k].batch] \in Batches
         /\ TextAt(k) \in Seq(Symbols) /\ Len(TextAt(k)) \in Nat \ {0}
         /\ TextEnd(k) \in Nat /\ lines[k].from \in Nat /\ lines[k].from < TextEnd(k)
         /\ TextEnd(k) = lines[k].from + Len(TextAt(k))
         /\ \A i \in 1 .. Len(TextAt(k)) : /\ TextAt(k)[i] \notin {"cr", "lf"}
                                          /\ stream[lines[k].from + i] = TextAt(k)[i]
<1>1. written[lines[k].batch] \in Batches
  BY DEF Laid
<1>2. TextAt(k) \in Seq(Symbols) /\ Len(TextAt(k)) \in Nat \ {0}
      /\ \A i \in 1 .. Len(TextAt(k)) : TextAt(k)[i] \notin {"cr", "lf"}
  BY <1>1, TextFacts DEF Laid, TextAt
<1>3. lines[k].from \in Nat /\ Lies(k)
  BY DEF Laid
<1> QED BY <1>1, <1>2, <1>3 DEF TextEnd, Lies

-----------------------------------------------------------------------------
(* strtok *)

LEMMA TokenFacts ==
  ASSUME NEW at \in Nat, NEW end \in Nat, at <= end
  PROVE  /\ TokenStart(at, end) \in at .. end
         /\ \A q \in at .. TokenStart(at, end) - 1 : stream[q + 1] = "lf"
         /\ TokenStart(at, end) < end =>
              LET s == TokenStart(at, end)
                  e == TokenEnd(s, end)
              IN /\ stream[s + 1] # "lf" /\ e \in s + 1 .. end
                 /\ e < end => stream[e + 1] = "lf"
                 /\ \A q \in s .. e - 1 : stream[q + 1] # "lf"
<1> DEFINE s == TokenStart(at, end)
           e == TokenEnd(s, end)
<1>1. /\ s \in at .. end
      /\ s < end => stream[s + 1] # "lf"
      /\ \A q \in at .. s - 1 : stream[q + 1] = "lf"
  <2> DEFINE T == {q \in at .. end : q < end => stream[q + 1] # "lf"}
  <2>1. T \subseteq Nat /\ end \in T
    OBVIOUS
  <2>2. PICK n \in T : \A m \in T : n <= m
    <3> HIDE DEF T
    <3> QED BY <2>1, LeastNumber
  <2>3. \A q \in at .. n - 1 : stream[q + 1] = "lf"
    BY <2>2
  <2> QED BY <2>2, <2>3 DEF TokenStart
<1>2. ASSUME s < end
      PROVE  /\ e \in s .. end
             /\ e < end => stream[e + 1] = "lf"
             /\ \A q \in s .. e - 1 : stream[q + 1] # "lf"
  <2> HIDE DEF s
  <2> DEFINE T == {q \in s .. end : q < end => stream[q + 1] = "lf"}
  <2>1. T \subseteq Nat /\ end \in T
    BY <1>1, <1>2
  <2>2. PICK n \in T : \A m \in T : n <= m
    <3> HIDE DEF T
    <3> QED BY <2>1, LeastNumber
  <2>3. \A q \in s .. n - 1 : stream[q + 1] # "lf"
    BY <1>1, <2>2
  <2> QED BY <2>2, <2>3 DEF TokenEnd
<1> HIDE DEF s, e
<1>3. s < end => e # s
  BY <1>1, <1>2
<1>4. s < end => e \in s + 1 .. end
  BY <1>1, <1>2, <1>3
<1> QED BY <1>1, <1>2, <1>4 DEF s, e

\* The token from s to e is what lies from i to j in the text of line k; it may have
\* the carriage return too.
Falls(s, e, k, i, j) ==
  /\ k \in 1 .. Len(lines)
  /\ i \in 1 .. Len(TextAt(k)) + 1 /\ j \in i - 1 .. Len(TextAt(k))
  /\ s = lines[k].from + i - 1
  /\ e = lines[k].from + j \/ (j = Len(TextAt(k)) /\ e = TextEnd(k) + 1)
  /\ StripCr(SubSeq(stream, s + 1, e)) = SubSeq(TextAt(k), i, j)

LEMMA SubSeqOfPart ==
  ASSUME NEW A, NEW B, NEW big \in Seq(A), NEW small \in Seq(B), NEW d \in Nat,
         d + Len(small) <= Len(big),
         \A p \in 1 .. Len(small) : big[d + p] = small[p],
         NEW i \in 1 .. Len(small) + 1, NEW j \in i - 1 .. Len(small)
  PROVE  SubSeq(big, d + i, d + j) = SubSeq(small, i, j)
<1>1. /\ d + i \in Int /\ d + j \in Int /\ (d + j) - (d + i) + 1 = j - i + 1
      /\ i \in Int /\ j \in Int
  OBVIOUS
<1>2. SubSeq(big, d + i, d + j) = [q \in 1 .. (d + j) - (d + i) + 1 |-> big[q + (d + i) - 1]]
  BY <1>1, SubSeqProperties
<1>3. SubSeq(small, i, j) = [q \in 1 .. j - i + 1 |-> small[q + i - 1]]
  BY <1>1, SubSeqProperties
<1>4. ASSUME NEW q \in 1 .. j - i + 1
      PROVE  big[q + (d + i) - 1] = small[q + i - 1]
  <2>1. q + i - 1 \in 1 .. Len(small) /\ q + (d + i) - 1 = d + (q + i - 1)
    OBVIOUS
  <2> QED BY <2>1
<1> QED BY <1>1, <1>2, <1>3, <1>4

\* A token lies in one line, for every line ends in a separator.
LEMMA TokenInLine ==
  ASSUME Laid, NEW s \in Nat, NEW e \in Nat, s < e, e <= Len(stream),
         \A q \in s .. e - 1 : stream[q + 1] # "lf"
  PROVE  \E k, i, j : Falls(s, e, k, i, j)
<1>1. s + 1 \in 1 .. Len(stream) /\ Len(stream) \in Nat
  BY DEF Laid
<1>2. PICK k \in 1 .. Len(lines) : lines[k].from < s + 1 /\ s + 1 <= TextEnd(k) + 2
  BY <1>1 DEF Laid
<1> DEFINE text == TextAt(k)
           from == lines[k].from
           n == Len(text)
<1>3. /\ text \in Seq(Symbols) /\ n \in Nat \ {0} /\ from \in Nat /\ TextEnd(k) = from + n
      /\ \A p \in 1 .. n : text[p] # "cr" /\ text[p] # "lf" /\ stream[from + p] = text[p]
  BY <1>2, LineFacts
<1>4. stream[from + n + 1] = "cr" /\ stream[from + n + 2] = "lf" /\ from + n + 2 <= Len(stream)
  <2>1. Lies(k)
    BY <1>2 DEF Laid
  <2> QED BY <1>3, <2>1 DEF Lies
<1> HIDE DEF text, n, from
<1>5. from <= s /\ e <= from + n + 1
  <2>1. from <= s /\ s <= from + n + 1
    BY <1>2, <1>3 DEF from
  <2>2. ASSUME e >= from + n + 2 PROVE FALSE
    <3>1. from + n + 1 \in s .. e - 1
      BY <1>3, <2>1, <2>2
    <3> QED BY <3>1, <1>3, <1>4
  <2> QED BY <1>3, <2>1, <2>2
<1> DEFINE i == s - from + 1
           token == SubSeq(stream, s + 1, e)
<1>6. i \in 1 .. n + 1 /\ s = from + i - 1
  BY <1>3, <1>5
<1>7. stream \in Seq(Symbols) /\ token \in Seq(Symbols) /\ Len(token) = e - s /\ Len(token) \in Nat
      /\ \A q \in 1 .. e - s : token[q] = stream[s + q]
  BY <1>1 DEF Laid
<1>8. token[Len(token)] = stream[e]
  <2>1. e - s \in 1 .. e - s /\ s + (e - s) = e
    OBVIOUS
  <2> QED BY <1>7, <2>1
<1> HIDE DEF token
<1>9. CASE e <= from + n
  <2> DEFINE j == e - from
  <2>1. j \in 1 .. n /\ j \in i - 1 .. n /\ e = from + j
    BY <1>3, <1>5, <1>9
  <2>2. stream[e] # "cr"
    BY <1>3, <2>1
  <2>3. StripCr(token) = token
    BY <1>8, <2>2 DEF StripCr
  <2>4. SubSeq(stream, from + i, from + j) = SubSeq(text, i, j)
    BY <1>1, <1>3, <1>4, <1>6, <1>7, <2>1, SubSeqOfPart
  <2>5. from + i = s + 1 /\ from + j = e
    BY <1>3, <1>6, <2>1
  <2>6. StripCr(token) = SubSeq(text, i, j)
    BY <2>3, <2>4, <2>5 DEF token
  <2> QED BY <1>2, <1>6, <2>1, <2>6 DEF Falls, text, n, from, token
<1>10. CASE e = from + n + 1
  <2> DEFINE j == n
  <2>1. j \in i - 1 .. n
    BY <1>3, <1>5, <1>6, <1>10
  <2>2. stream[e] = "cr"
    BY <1>4, <1>10
  <2>3. StripCr(token) = SubSeq(token, 1, Len(token) - 1)
    BY <1>8, <2>2 DEF StripCr
  <2>4. SubSeq(stream, from + i, from + j) = SubSeq(text, i, j)
    BY <1>1, <1>3, <1>4, <1>6, <1>7, <2>1, SubSeqOfPart
  <2>5. from + i = s + 1 /\ from + j = e - 1
    BY <1>3, <1>6, <1>10
  <2>6. SubSeq(token, 1, Len(token) - 1) = SubSeq(stream, s + 1, e - 1)
    <3>1. e - s - 1 \in Nat /\ s + (e - s - 1) = e - 1 /\ e - s - 1 <= Len(token)
      BY <1>7
    <3>2. SubSeq(stream, s + 1, s + (e - s - 1)) = SubSeq(token, 1, e - s - 1)
      <4>1. \A q \in 1 .. Len(token) : stream[s + q] = token[q]
        BY <1>7
      <4>2. s + Len(token) <= Len(stream)
        BY <1>7
      <4>3. e - s - 1 \in 1 - 1 .. Len(token) /\ 1 \in 1 .. Len(token) + 1
        BY <3>1, <1>7
      <4> QED BY <1>7, <4>1, <4>2, <4>3, SubSeqOfPart
    <3> QED BY <1>7, <3>1, <3>2
  <2>7. StripCr(token) = SubSeq(text, i, j)
    BY <2>3, <2>4, <2>5, <2>6
  <2> QED BY <1>2, <1>3, <1>6, <1>10, <2>1, <2>7 DEF Falls, text, n, from, token
<1> QED BY <1>3, <1>5, <1>9, <1>10

-----------------------------------------------------------------------------
(* What the parser makes of a token *)

\* What GDB prints: the kinds of records.
LEMMA OutputKinds ==
  ASSUME NEW o \in Outputs
  PROVE  \/ o.type = "^" /\ o.class = "running"
         \/ o.type = "*" /\ o.class = "running"
         \/ /\ o.type = "^" /\ o.class = "done"
            /\ \E n \in Numbers : o = DoneBatch(n)[1]
         \/ o.type = "^" /\ o.class = "error"
         \/ o.type = "~" /\ o.class = "stream"
         \/ o.type = "*" /\ o.class = "stopped"
         \/ o.type = "=" /\ o.class = "thread-exited"
<1>1. PICK batch \in Batches : \E i \in DOMAIN batch : o = batch[i]
  BY Zenon DEF Outputs
<1>2. PICK i \in 1 .. Len(batch) : o = batch[i]
  BY <1>1, BatchFacts
<1>3. CASE batch = RunBatch
  BY <1>2, <1>3 DEF RunBatch, Output
<1>4. CASE batch = ErrorBatch
  <2>1. PICK x : ErrorBatch = <<Output("^", "error", x)>>
    BY Zenon DEF ErrorBatch
  <2> QED BY <1>2, <1>4, <2>1 DEF Output
<1>5. CASE batch = StopBatch
  <2>1. PICK x, y : StopBatch = <<Output("~", "stream", x), Output("*", "stopped", y)>>
    BY Zenon DEF StopBatch
  <2> QED BY <1>2, <1>5, <2>1 DEF Output
<1>6. CASE batch = ExitBatch
  <2>1. PICK x, y : ExitBatch = <<Output("=", "thread-exited", x), Output("*", "stopped", y)>>
    BY Zenon DEF ExitBatch
  <2> QED BY <1>2, <1>6, <2>1 DEF Output
<1>7. ASSUME NEW n \in Numbers, batch = DoneBatch(n)
      PROVE  o.type = "^" /\ o.class = "done" /\ o = DoneBatch(n)[1]
  <2>1. PICK x : DoneBatch(n) = <<Output("^", "done", x)>>
    BY Zenon DEF DoneBatch
  <2>2. i = 1 /\ DoneBatch(n)[1] = Output("^", "done", x)
    BY <1>2, <1>7, <2>1
  <2> QED BY <1>2, <1>7, <2>2 DEF Output
<1> QED BY <1>3, <1>4, <1>5, <1>6, <1>7 DEF Batches

BatchAt(k) == written[lines[k].batch]
Part(k, i, j) == SubSeq(TextAt(k), i, j)

LEMMA PartFacts ==
  ASSUME NEW S, NEW s \in Seq(S), NEW i \in 1 .. Len(s) + 1, NEW j \in i - 1 .. Len(s)
  PROVE  /\ Len(SubSeq(s, i, j)) = j - i + 1
         /\ \A q \in 1 .. j - i + 1 : SubSeq(s, i, j)[q] = s[q + i - 1]
         /\ j < i => SubSeq(s, i, j) = << >>
         /\ i = 1 /\ j = Len(s) => SubSeq(s, i, j) = s
<1>1. i \in Int /\ j \in Int /\ Len(s) \in Nat
  OBVIOUS
<1>2. \A q \in i .. j : s[q] \in S
  OBVIOUS
<1>3. /\ Len(SubSeq(s, i, j)) = IF i <= j THEN j - i + 1 ELSE 0
      /\ \A q \in 1 .. j - i + 1 : SubSeq(s, i, j)[q] = s[i + q - 1]
  BY <1>1, <1>2, SubSeqProperties
<1>4. j < i => SubSeq(s, i, j) = << >>
  BY <1>1, SubSeqEmpty
<1>5. i = 1 /\ j = Len(s) => SubSeq(s, i, j) = s
  OBVIOUS
<1>6. (IF i <= j THEN j - i + 1 ELSE 0) = j - i + 1
  BY <1>1
<1>7. \A q \in 1 .. j - i + 1 : i + q - 1 = q + i - 1
  BY <1>1
<1> QED BY <1>3, <1>4, <1>5, <1>6, <1>7

\* A part of a line that libmigdb parses begins the line of a record, and what was
\* parsed is known and cut off it; the prompt is recognised by its beginning.
LEMMA LineParsed ==
  ASSUME Laid, NEW k \in 1 .. Len(lines),
         NEW i \in 1 .. Len(TextAt(k)) + 1, NEW j \in i - 1 .. Len(TextAt(k)),
         NEW behind \in Behinds
  PROVE  /\ IsPrompt(Part(k, i, j)) <=>
              lines[k].place = LinesOf(BatchAt(k)) /\ i = 1 /\ j >= 2
         /\ ParseRecord(Part(k, i, j), behind).ok =>
              /\ i = 1 /\ 1 <= j /\ lines[k].place \in 1 .. Len(BatchAt(k))
              /\ BatchAt(k)[lines[k].place] \in Outputs
              /\ Known(ParseRecord(Part(k, i, j), behind).value)
              /\ IsBegunAs(ParseRecord(Part(k, i, j), behind).value, BatchAt(k)[lines[k].place])
         /\ lines[k].place \in 1 .. Len(BatchAt(k)) /\ i = 1 /\ j = Len(TextAt(k)) =>
              /\ ParseRecord(Part(k, i, j), behind).ok <=> Known(BatchAt(k)[lines[k].place])
              /\ ParseRecord(Part(k, i, j), behind).ok =>
                   ParseRecord(Part(k, i, j), behind).value = BatchAt(k)[lines[k].place]
<1> DEFINE batch == BatchAt(k)
           place == lines[k].place
           text == TextAt(k)
           n == Len(text)
           line == Part(k, i, j)
           r == ParseRecord(line, behind)
           o == batch[place]
<1>1. batch \in Batches /\ place \in 1 .. LinesOf(batch) /\ Len(batch) \in 1 .. 2
      /\ LinesOf(batch) = Len(batch) + 1
  BY LineFacts, BatchFacts DEF Laid, LinesOf, BatchAt
<1>2. text \in Seq(Symbols) /\ n \in Nat \ {0} /\ text = TextOf(batch, place)
  BY LineFacts DEF TextAt, BatchAt
<1>3. /\ i \in 1 .. n + 1 /\ j \in i - 1 .. n
      /\ line = SubSeq(text, i, j)
      /\ Len(line) = j - i + 1
      /\ \A q \in 1 .. j - i + 1 : line[q] = text[q + i - 1]
      /\ j < i => line = << >>
      /\ i = 1 /\ j = n => line = text
  BY <1>2, PartFacts DEF Part
<1> SUFFICES /\ IsPrompt(line) <=> place = LinesOf(batch) /\ i = 1 /\ j >= 2
             /\ r.ok => /\ i = 1 /\ 1 <= j /\ place \in 1 .. Len(batch) /\ o \in Outputs
                        /\ Known(r.value) /\ IsBegunAs(r.value, o)
             /\ place \in 1 .. Len(batch) /\ i = 1 /\ j = n =>
                  /\ r.ok <=> Known(o)
                  /\ r.ok => r.value = o
  OBVIOUS
<1>4. r = ParseRecord(line, behind) /\ n = Len(text)
  OBVIOUS
<1> HIDE DEF batch, place, text, n, line, r, o
<1>5. CASE j < i
  <2>1. line = << >>
    BY <1>3, <1>5
  <2>2. ~ParseRecord(<< >>, behind).ok
    BY ParserAssumption DEF ParserAssumption
  <2>3. ~IsPrompt(line)
    BY <2>1 DEF IsPrompt
  <2>4. ~r.ok
    BY <1>4, <2>1, <2>2
  <2>5. i = 1 => ~(j >= 1) /\ j # n
    BY <1>2, <1>3, <1>5
  <2> QED BY <1>3, <2>3, <2>4, <2>5
<1>6. CASE i <= j
  <2>1. i \in 1 .. n /\ j \in 1 .. n
    BY <1>2, <1>3, <1>6
  <2>2. 1 \in 1 .. j - i + 1 /\ 1 + i - 1 = i
    BY <1>6, <2>1, <1>2
  <2>3. line[1] = text[i]
    BY <1>3, <2>2
  <2>4. CASE place <= Len(batch)
    <3>1. o \in Outputs /\ text = PrintRecord(o)
      BY <1>1, <1>2, <2>4, BatchFacts DEF TextOf, o
    <3>2. /\ ParseRecord(text, behind).ok <=> Known(o)
          /\ Known(o) => ParseRecord(text, behind).value = o
          /\ \A a, b \in 1 .. n :
               LET q == ParseRecord(SubSeq(text, a, b), behind) IN
               a <= b /\ q.ok => a = 1 /\ Known(q.value) /\ IsBegunAs(q.value, o)
      BY <3>1, <1>4, ParserAssumption, Zenon DEF ParserAssumption
    <3>3. r.ok => i = 1 /\ Known(r.value) /\ IsBegunAs(r.value, o)
      BY <1>3, <1>4, <1>6, <2>1, <3>2
    <3>4. text[i] # "(gd"
      BY <3>1, <2>1, <1>4, PrinterAssumption DEF PrinterAssumption
    <3>5. ~IsPrompt(line)
      BY <2>3, <3>4 DEF IsPrompt
    <3>6. place # LinesOf(batch) /\ place \in 1 .. Len(batch)
      BY <1>1, <2>4
    <3>7. i = 1 /\ j = n => r = ParseRecord(text, behind)
      BY <1>3, <1>4
    <3> QED BY <2>1, <3>1, <3>2, <3>3, <3>5, <3>6, <3>7
  <2>5. CASE ~(place <= Len(batch))
    <3>1. place = LinesOf(batch) /\ text = Prompt
      BY <1>1, <1>2, <2>5 DEF TextOf
    <3>2. n = 3 /\ text[1] = "(gd" /\ text[2] = "b)" /\ text[3] = "blank"
      BY <3>1, <1>4 DEF Prompt
    <3>3. IsPrompt(line) <=> i = 1 /\ j >= 2
      <4>1. CASE i = 1
        <5>1. Len(line) = j
          BY <1>3, <2>1, <4>1
        <5>2. j >= 2 => line[2] = text[2]
          BY <1>3, <2>1, <4>1
        <5> QED BY <2>1, <2>3, <3>2, <4>1, <5>1, <5>2 DEF IsPrompt
      <4>2. CASE i # 1
        <5>1. i \in 2 .. 3
          BY <2>1, <3>2, <4>2
        <5>2. line[1] # "(gd"
          BY <2>3, <3>2, <5>1
        <5> QED BY <4>2, <5>2 DEF IsPrompt
      <4> QED BY <4>1, <4>2
    <3>4. ~r.ok
      <4>1. i \in 1 .. Len(Prompt) /\ j \in 1 .. Len(Prompt)
        BY <2>1, <3>1, <1>4
      <4>2. ~ParseRecord(SubSeq(Prompt, i, j), behind).ok
        BY <1>6, <4>1, ParserAssumption DEF ParserAssumption
      <4> QED BY <3>1, <4>2, <1>3, <1>4
    <3>5. ~(place \in 1 .. Len(batch))
      BY <2>5, <1>1
    <3> QED BY <3>1, <3>3, <3>4, <3>5
  <2> QED BY <1>1, <2>4, <2>5
<1>7. j < i \/ i <= j
  BY <1>2, <1>3
<1> QED BY <1>5, <1>6, <1>7

-----------------------------------------------------------------------------
(* One round of the loop *)

\* What can be parsed of the lines.
Hearable ==
  {x \in UNION {{ParseRecord(SubSeq(PrintRecord(o), 1, j), behind).value :
                   j \in Nat, behind \in Behinds} : o \in Outputs} :
     Known(x) /\ \E o \in Outputs : IsBegunAs(x, o)}

Takens == [output : Hearable, from : Nat]

States == {"UNKNOWN", "STOPPED", "RUNNING", "EXITED"}

Views == [at : Nat, po : Seq(Takens), retired : Seq(Seq(Takens)), state : States,
          file : {"none", "/f", "elsewhere"}, awaited : BOOLEAN, number : {0} \cup Numbers]

\* Line m is begun before at.
Begun(m, at) == lines[m].from < at

\* The rest of the chunk is separators.
Skips(v, w, end) ==
  /\ w = [v EXCEPT !.at = end]
  /\ \A m \in 1 .. Len(lines) : Begun(m, end) <=> Begun(m, v.at)

\* The token is the symbols from i to j of line k, all of it unless the chunk ends there.
Looks(v, w, end, behind, k, i, j) ==
  /\ k \in 1 .. Len(lines)
  /\ i \in 1 .. Len(TextAt(k)) + 1 /\ j \in i - 1 .. Len(TextAt(k))
  /\ IF i = 1 THEN 1 <= j /\ ~Begun(k, v.at) ELSE Begun(k, v.at)
  /\ j < Len(TextAt(k)) => end = lines[k].from + j
  /\ w.at \in Nat /\ v.at < w.at /\ w.at <= end
  /\ \A m \in 1 .. Len(lines) : Begun(m, w.at) <=> Begun(m, v.at) \/ m = k
  /\ w = [HandleLine(v, Part(k, i, j), lines[k].from + i - 1, behind) EXCEPT !.at = w.at]

LEMMA HandleLineDomain ==
  ASSUME NEW v \in Views, NEW line, NEW from, NEW behind
  PROVE  "at" \in DOMAIN HandleLine(v, line, from, behind)
<1>1. "at" \in DOMAIN v
  BY DEF Views
<1>2. \A u : "at" \in DOMAIN u => "at" \in DOMAIN Retire(u)
  BY Zenon DEF Retire
<1>3. \A x : "at" \in DOMAIN [v EXCEPT !.po = x]
  BY <1>1
<1> QED BY <1>1, <1>2, <1>3 DEF HandleLine, Collect

LEMMA RoundCases ==
  ASSUME Laid, NEW v \in Views, NEW end \in Nat, NEW behind,
         v.at < end, end <= Len(stream)
  PROVE  \/ Skips(v, Round(v, end, behind), end)
         \/ \E k, i, j : Looks(v, Round(v, end, behind), end, behind, k, i, j)
<1> DEFINE s == TokenStart(v.at, end)
           e == TokenEnd(s, end)
           w == Round(v, end, behind)
<1>1. v.at \in Nat
  BY DEF Views
<1>2. /\ s \in v.at .. end
      /\ \A q \in v.at .. s - 1 : stream[q + 1] = "lf"
      /\ s < end => /\ stream[s + 1] # "lf" /\ e \in s + 1 .. end
                    /\ e < end => stream[e + 1] = "lf"
                    /\ \A q \in s .. e - 1 : stream[q + 1] # "lf"
  <2>1. v.at <= end
    BY <1>1
  <2> HIDE DEF s, e
  <2> QED BY <1>1, <2>1, TokenFacts DEF s, e
<1>3. w = IF s = end THEN [v EXCEPT !.at = end]
          ELSE [HandleLine(v, StripCr(SubSeq(stream, s + 1, e)), s, behind)
                  EXCEPT !.at = IF e < end THEN e + 1 ELSE end]
  BY DEF Round
<1> HIDE DEF s, e, w
<1>4. ASSUME NEW m \in 1 .. Len(lines), v.at <= lines[m].from
      PROVE  lines[m].from >= s
  <2>1. lines[m].from \in Nat /\ stream[lines[m].from + 1] # "lf"
    <3>1. 1 \in 1 .. Len(TextAt(m)) /\ lines[m].from \in Nat
      BY LineFacts
    <3> QED BY <3>1, LineFacts
  <2> QED BY <1>1, <1>2, <1>4, <2>1
<1>5. CASE s = end
  <2>1. w = [v EXCEPT !.at = end]
    BY <1>3, <1>5
  <2>2. ASSUME NEW m \in 1 .. Len(lines) PROVE Begun(m, end) <=> Begun(m, v.at)
    <3>1. lines[m].from \in Nat
      BY LineFacts
    <3> QED BY <1>1, <1>4, <1>5, <3>1 DEF Begun
  <2> QED BY <2>1, <2>2 DEF Skips, w
<1>6. CASE s # end
  <2>1. s \in Nat /\ e \in Nat /\ s < end /\ s < e /\ e <= end /\ e <= Len(stream)
        /\ Len(stream) \in Nat
    BY <1>1, <1>2, <1>6 DEF Laid
  <2>2. PICK k, i, j : Falls(s, e, k, i, j)
    BY <1>2, <2>1, TokenInLine
  <2> DEFINE n == Len(TextAt(k))
             from == lines[k].from
             at == IF e < end THEN e + 1 ELSE end
  <2>3. /\ k \in 1 .. Len(lines) /\ i \in 1 .. n + 1 /\ j \in i - 1 .. n
        /\ s = from + i - 1
        /\ e = from + j \/ (j = n /\ e = TextEnd(k) + 1)
        /\ StripCr(SubSeq(stream, s + 1, e)) = Part(k, i, j)
    BY <2>2 DEF Falls, Part
  <2>4. /\ n \in Nat \ {0} /\ from \in Nat /\ TextEnd(k) = from + n
        /\ \A p \in 1 .. n : stream[from + p] # "lf"
        /\ stream[TextEnd(k) + 1] # "lf" /\ stream[TextEnd(k) + 2] = "lf"
    <3>1. /\ n \in Nat \ {0} /\ from \in Nat /\ TextEnd(k) = from + n
          /\ \A p \in 1 .. n : stream[from + p] # "lf"
      BY <2>3, LineFacts
    <3>2. Lies(k)
      BY <2>3 DEF Laid
    <3> QED BY <3>1, <3>2 DEF Lies
  <2>5. at \in Nat /\ v.at < at /\ at <= end /\ e <= at /\ at <= e + 1
    BY <1>1, <1>2, <2>1
  <2> HIDE DEF n, from, at
  <2>6. at <= TextEnd(k) + 2
    BY <2>1, <2>3, <2>4, <2>5
  <2>7. j < n => end = from + j
    <3> SUFFICES ASSUME j < n PROVE end = from + j
      OBVIOUS
    <3>1. e = from + j /\ j + 1 \in 1 .. n /\ e + 1 = from + (j + 1)
      BY <2>3, <2>4
    <3>2. stream[e + 1] # "lf"
      BY <3>1, <2>4
    <3> QED BY <1>2, <2>1, <3>1, <3>2
  <2>8. i # 1 => Begun(k, v.at)
    <3> SUFFICES ASSUME i # 1 PROVE from < v.at
      BY DEF Begun, from
    <3> SUFFICES ASSUME from >= v.at PROVE FALSE
      BY <1>1, <2>4
    <3>1. s - 1 \in v.at .. s - 1 /\ s - 1 \in Nat /\ (s - 1) + 1 = s
      BY <1>1, <2>1, <2>3, <2>4
    <3>2. stream[s] = "lf"
      BY <1>2, <3>1
    <3>3. i - 1 \in 1 .. n /\ s = from + (i - 1)
      BY <2>3, <2>4
    <3> QED BY <2>4, <3>2, <3>3
  <2>9. i = 1 => 1 <= j /\ ~Begun(k, v.at)
    <3> SUFFICES ASSUME i = 1 PROVE 1 <= j /\ ~Begun(k, v.at)
      OBVIOUS
    <3>1. s = from
      BY <2>3, <2>4
    <3>2. ~Begun(k, v.at)
      BY <1>1, <1>2, <2>1, <3>1 DEF Begun, from
    <3>3. j >= 1
      BY <2>1, <2>3, <2>4, <3>1
    <3> QED BY <3>2, <3>3, <2>3
  <2>10. ASSUME NEW m \in 1 .. Len(lines)
         PROVE  Begun(m, at) <=> Begun(m, v.at) \/ m = k
    <3>1. lines[m].from \in Nat
      BY LineFacts
    <3>2. Begun(k, at)
      <4>1. from < at
        BY <2>1, <2>3, <2>4, <2>5
      <4> QED BY <4>1 DEF Begun, from
    <3>3. ASSUME Begun(m, at), ~Begun(m, v.at), m # k PROVE FALSE
      <4>1. lines[m].from >= s /\ lines[m].from < at
        BY <1>1, <1>4, <3>1, <3>3 DEF Begun
      <4>2. CASE m < k
        <5>1. TextEnd(m) + 2 <= from
          BY <2>3, <4>2 DEF Laid, from
        <5>2. lines[m].from < TextEnd(m) /\ TextEnd(m) \in Nat
          BY LineFacts
        <5> QED BY <2>3, <2>4, <3>1, <4>1, <5>1, <5>2, <2>1
      <4>3. CASE k < m
        <5>1. TextEnd(k) + 2 <= lines[m].from
          BY <2>3, <4>3 DEF Laid
        <5> QED BY <2>4, <2>5, <2>6, <3>1, <4>1, <5>1
      <4> QED BY <2>3, <3>3, <4>2, <4>3
    <3>4. Begun(m, v.at) => Begun(m, at)
      BY <1>1, <2>5, <3>1 DEF Begun
    <3> QED BY <3>2, <3>3, <3>4
  <2>11. w = [HandleLine(v, Part(k, i, j), from + i - 1, behind) EXCEPT !.at = at]
    BY <1>3, <1>6, <2>3 DEF at
  <2>12. w.at = at
    BY <2>11, HandleLineDomain
  <2>13. w = [HandleLine(v, Part(k, i, j), lines[k].from + i - 1, behind) EXCEPT !.at = w.at]
    BY <2>11, <2>12 DEF from
  <2>14. Looks(v, w, end, behind, k, i, j)
    BY <2>3, <2>5, <2>7, <2>8, <2>9, <2>10, <2>12, <2>13 DEF Looks, from, n
  <2> QED BY <2>14 DEF w
<1> QED BY <1>5, <1>6

-----------------------------------------------------------------------------
(* What was parsed *)

LEMMA HearableKinds ==
  ASSUME NEW x \in Hearable
  PROVE  /\ Known(x)
         /\ \/ x.type = "^" /\ x.class = "running"
            \/ x.type = "^" /\ x.class = "done"
            \/ x.type = "^" /\ x.class = "error"
            \/ x.type = "~" /\ x.class = "stream"
            \/ x.type = "*" /\ x.class = "stopped"
<1>1. PICK o \in Outputs : IsBegunAs(x, o) /\ Known(x)
  BY DEF Hearable
<1>2. x.type = o.type /\ x.class = o.class
  BY <1>1 DEF IsBegunAs, Alike
<1> QED BY <1>1, <1>2, OutputKinds DEF Known

LEMMA LeastOf ==
  ASSUME NEW T, T \subseteq Nat, T # {}
  PROVE  Least(T) \in T /\ \A j \in T : Least(T) <= j
BY LeastNumber DEF Least

LEMMA NumberOfText ==
  ASSUME NEW n \in Numbers
  PROVE  NumberOf(<<NumberText[n]>>) = n
<1>1. \A m \in Numbers : NumberText[m] = NumberText[n] => m = n
  BY PrinterAssumption DEF PrinterAssumption
<1>2. NumbersOf(<<NumberText[n]>>) = {n}
  BY <1>1 DEF NumbersOf
<1> QED BY <1>2 DEF NumberOf

LEMMA OutputsFacts ==
  ASSUME NEW taken \in Seq(Takens)
  PROVE  /\ DOMAIN OutputsOf(taken) = 1 .. Len(taken) /\ Len(taken) \in Nat
         /\ \A i \in 1 .. Len(taken) : /\ OutputsOf(taken)[i] = taken[i].output
                                       /\ taken[i].output \in Hearable
                                       /\ taken[i].from \in Nat
<1>1. DOMAIN taken = 1 .. Len(taken) /\ Len(taken) \in Nat
      /\ \A i \in 1 .. Len(taken) : taken[i] \in Takens
  OBVIOUS
<1>2. \A i \in 1 .. Len(taken) : taken[i].output \in Hearable /\ taken[i].from \in Nat
  BY <1>1 DEF Takens
<1> QED BY <1>1, <1>2 DEF OutputsOf

\* Whatever a text says, atoi gives a number.
LEMMA BkptNumberIsOne ==
  ASSUME NEW outputs
  PROVE  BkptNumber(outputs) \in {0} \cup Numbers
<1>1. ASSUME NEW text PROVE NumberOf(text) \in {0} \cup Numbers
  <2>1. NumbersOf(text) \subseteq Numbers
    BY DEF NumbersOf
  <2> QED BY <2>1 DEF NumberOf
<1> QED BY <1>1 DEF BkptNumber, NumberIn

LEMMA RetireFacts ==
  ASSUME NEW v \in Views
  PROVE  /\ Retire(v) \in Views
         /\ Retire(v).at = v.at /\ Retire(v).po = << >>
         /\ Retire(v).retired = Append(v.retired, v.po)
<1> DEFINE outputs == OutputsOf(v.po)
           taken == v.awaited /\ HasBkpt(outputs)
           state == IF FirstStopExited(outputs) THEN "EXITED" ELSE LastChange(outputs, v.state)
           file == FileAfter(outputs, v.file)
           num == IF taken THEN BkptNumber(outputs) ELSE v.number
<1>1. Retire(v) = [v EXCEPT !.po = << >>, !.retired = Append(v.retired, v.po),
                            !.state = state, !.file = file,
                            !.awaited = v.awaited /\ ~taken, !.number = num]
  BY DEF Retire
<1>2. state \in States
  BY DEF LastChange, States, Views
<1>3. file \in {"none", "/f", "elsewhere"}
  BY DEF FileAfter, FileNamed, Views
<1>4. num \in {0} \cup Numbers
  BY BkptNumberIsOne DEF Views
<1>5. (v.awaited /\ ~taken) \in BOOLEAN
  OBVIOUS
<1>6. Append(v.retired, v.po) \in Seq(Seq(Takens)) /\ << >> \in Seq(Takens)
  BY DEF Views
<1> HIDE DEF taken, state, file, num
<1> QED BY <1>1, <1>2, <1>3, <1>4, <1>5, <1>6 DEF Views

\* The prompt of line k is recognised: what was collected is retired.
Prompts(v, w, k) ==
  /\ lines[k].place = LinesOf(BatchAt(k))
  /\ w = [Retire(v) EXCEPT !.at = w.at]

\* Of the record of line k x is taken.
Takes(v, w, k, x) ==
  /\ lines[k].place \in 1 .. Len(BatchAt(k))
  /\ x \in Hearable /\ IsBegunAs(x, BatchAt(k)[lines[k].place])
  /\ w = [v EXCEPT !.po = Append(v.po, Taken(x, lines[k].from)), !.at = w.at]

\* Nothing is taken.
Drops(v, w) == w = [v EXCEPT !.at = w.at]

\* A look from the beginning of a line recognises the prompt, unless only its first symbol
\* was read, and takes a record that libmigdb knows, all of it if all of it was read.
LEMMA LookCases ==
  ASSUME Laid, NEW v \in Views, NEW w, NEW end \in Nat, NEW behind \in Behinds,
         NEW k, NEW i, NEW j, Looks(v, w, end, behind, k, i, j)
  PROVE  LET batch == BatchAt(k)
             place == lines[k].place
             prompt == place = LinesOf(batch) /\ i = 1 /\ j >= 2
         IN \/ prompt /\ Prompts(v, w, k)
            \/ /\ ~prompt /\ i = 1
               /\ \E x : /\ Takes(v, w, k, x)
                         /\ j = Len(TextAt(k)) => Known(batch[place]) /\ x = batch[place]
            \/ /\ ~prompt /\ Drops(v, w)
               /\ place \in 1 .. Len(batch) /\ i = 1 /\ j = Len(TextAt(k)) => ~Known(batch[place])
<1> DEFINE batch == BatchAt(k)
           place == lines[k].place
           prompt == place = LinesOf(batch) /\ i = 1 /\ j >= 2
           line == Part(k, i, j)
           r == ParseRecord(line, behind)
           x == r.value
           o == batch[place]
           n == Len(TextAt(k))
           from == lines[k].from
<1>1. /\ k \in 1 .. Len(lines) /\ i \in 1 .. n + 1 /\ j \in i - 1 .. n
  BY DEF Looks
<1>2. w = [HandleLine(v, line, from + i - 1, behind) EXCEPT !.at = w.at]
  BY DEF Looks
<1>3. from \in Nat /\ batch \in Batches /\ LinesOf(batch) = Len(batch) + 1 /\ Len(batch) \in Nat
  BY <1>1, LineFacts, BatchFacts DEF BatchAt, LinesOf
<1>4. /\ IsPrompt(line) <=> prompt
      /\ r.ok => /\ i = 1 /\ 1 <= j /\ place \in 1 .. Len(batch) /\ o \in Outputs
                 /\ Known(x) /\ IsBegunAs(x, o)
      /\ place \in 1 .. Len(batch) /\ i = 1 /\ j = n => /\ r.ok <=> Known(o)
                                                        /\ r.ok => x = o
  BY <1>1, LineParsed
<1>5. r.ok => x \in Hearable
  <2> SUFFICES ASSUME r.ok PROVE x \in Hearable
    OBVIOUS
  <2>1. i = 1 /\ j \in Nat /\ o \in Outputs /\ Known(x) /\ IsBegunAs(x, o)
    BY <1>1, <1>4
  <2>2. TextAt(k) = PrintRecord(o)
    BY <1>3, <1>4 DEF TextAt, TextOf, BatchAt
  <2>3. x = ParseRecord(SubSeq(PrintRecord(o), 1, j), behind).value
    BY <2>1, <2>2 DEF Part
  <2>4. x \in {ParseRecord(SubSeq(PrintRecord(o), 1, jj), b).value : jj \in Nat, b \in Behinds}
    BY <2>1, <2>3
  <2> HIDE DEF x
  <2> QED BY <2>1, <2>4 DEF Hearable
<1> SUFFICES \/ prompt /\ Prompts(v, w, k)
             \/ /\ ~prompt /\ i = 1
                /\ \E y : Takes(v, w, k, y) /\ (j = n => Known(o) /\ y = o)
             \/ /\ ~prompt /\ Drops(v, w)
                /\ place \in 1 .. Len(batch) /\ i = 1 /\ j = n => ~Known(o)
  OBVIOUS
<1>7. CASE prompt
  <2>1. w = [Retire(v) EXCEPT !.at = w.at]
    BY <1>2, <1>4, <1>7 DEF HandleLine
  <2> QED BY <1>7, <2>1 DEF Prompts
<1>8. CASE ~prompt /\ ~r.ok
  <2>1. w = [v EXCEPT !.at = w.at]
    BY <1>2, <1>4, <1>8 DEF HandleLine, Collect
  <2> QED BY <1>4, <1>8, <2>1 DEF Drops
<1>9. CASE ~prompt /\ r.ok
  <2>1. i = 1 /\ from + i - 1 = from /\ x \in Hearable /\ IsBegunAs(x, o) /\ place \in 1 .. Len(batch)
    BY <1>3, <1>4, <1>5, <1>9
  <2>2. x.class # "exit"
    BY <2>1, HearableKinds
  <2>3. w = [[v EXCEPT !.po = Append(v.po, Taken(x, from))] EXCEPT !.at = w.at]
    BY <1>2, <1>4, <1>9, <2>1, <2>2 DEF HandleLine, Collect
  <2>4. w = [v EXCEPT !.po = Append(v.po, Taken(x, from)), !.at = w.at]
    BY <2>3
  <2>5. Takes(v, w, k, x)
    BY <2>1, <2>4 DEF Takes
  <2> QED BY <1>4, <1>9, <2>1, <2>5
<1> QED BY <1>7, <1>8, <1>9

\* Whatever the round does, it keeps the types and gets on.
LEMMA RoundTypes ==
  ASSUME Laid, NEW v \in Views, NEW end \in Nat, NEW behind \in Behinds,
         v.at < end, end <= Len(stream)
  PROVE  /\ Round(v, end, behind) \in Views
         /\ v.at < Round(v, end, behind).at /\ Round(v, end, behind).at <= end
<1> DEFINE w == Round(v, end, behind)
<1>1. CASE Skips(v, w, end)
  BY <1>1 DEF Skips, Views
<1>2. ASSUME NEW k, NEW i, NEW j, Looks(v, w, end, behind, k, i, j)
      PROVE  w \in Views /\ v.at < w.at /\ w.at <= end
  <2>1. w.at \in Nat /\ v.at < w.at /\ w.at <= end /\ k \in 1 .. Len(lines)
    BY <1>2 DEF Looks
  <2>2. CASE Prompts(v, w, k)
    BY <2>1, <2>2, RetireFacts DEF Prompts, Views
  <2>3. ASSUME NEW x, Takes(v, w, k, x) PROVE w \in Views
    <3>1. Taken(x, lines[k].from) \in Takens
      BY <2>1, <2>3, LineFacts DEF Taken, Takens, Takes
    <3>2. Append(v.po, Taken(x, lines[k].from)) \in Seq(Takens)
      BY <3>1 DEF Views
    <3> QED BY <2>1, <2>3, <3>2 DEF Takes, Views
  <2>4. CASE Drops(v, w)
    BY <2>1, <2>4 DEF Drops, Views
  <2>5. Prompts(v, w, k) \/ (\E x : Takes(v, w, k, x)) \/ Drops(v, w)
    BY <1>2, LookCases
  <2> QED BY <2>1, <2>2, <2>3, <2>4, <2>5
<1> QED BY <1>1, <1>2, RoundCases

-----------------------------------------------------------------------------
(* The stream grows by lines *)

\* The lines are those of the batches, in order, up to the last one printed.
Ordered ==
  /\ printed \in Nat
  /\ written = << >> => printed = 0
  /\ written # << >> => printed <= LinesOf(written[Len(written)])
  /\ \A k \in 1 .. Len(lines) :
       /\ lines[k].batch = Len(written) => lines[k].place <= printed
       /\ \A j \in 1 .. k - 1 :
            \/ lines[j].batch < lines[k].batch
            \/ lines[j].batch = lines[k].batch /\ lines[j].place < lines[k].place
  /\ \A b \in 1 .. Len(written) : \A i \in 1 .. LinesOf(written[b]) :
       b < Len(written) \/ i <= printed =>
         \E k \in 1 .. Len(lines) : lines[k].batch = b /\ lines[k].place = i

StreamInv == Laid /\ Ordered

LEMMA StreamStart ==
  ASSUME Init
  PROVE  StreamInv
BY DEF Init, StreamInv, Laid, Ordered

LEMMA SameStream ==
  ASSUME StreamInv, UNCHANGED <<written, printed, stream, lines>>
  PROVE  StreamInv'
BY DEF StreamInv, Laid, Ordered, Lies, TextAt, TextEnd

LEMMA StreamSays ==
  ASSUME StreamInv, NEW batch \in Batches, Say(batch), UNCHANGED <<stream, lines>>
  PROVE  StreamInv'
<1>1. /\ written \in Seq(Batches) /\ written' = Append(written, batch) /\ printed' = 0
      /\ AllPrinted /\ lines' = lines /\ stream' = stream
  BY DEF StreamInv, Laid, Say
<1>2. /\ written' \in Seq(Batches) /\ Len(written') = Len(written) + 1 /\ Len(written) \in Nat
      /\ \A b \in 1 .. Len(written) : written'[b] = written[b]
      /\ written' # << >>
  BY <1>1
<1>3. \A k \in 1 .. Len(lines) : lines[k].batch \in 1 .. Len(written)
  BY DEF StreamInv, Laid
<1>4. ASSUME NEW k \in 1 .. Len(lines) PROVE TextAt(k)' = TextAt(k) /\ TextEnd(k)' = TextEnd(k)
  BY <1>1, <1>2, <1>3 DEF TextAt, TextEnd
<1>5. ASSUME NEW k \in 1 .. Len(lines) PROVE Lies(k)'
  <2>1. Lies(k)
    BY DEF StreamInv, Laid
  <2> QED BY <1>1, <1>4, <2>1 DEF Lies
<1>6. Laid'
  <2>1. \A k \in 1 .. Len(lines) : \A j \in 1 .. k - 1 : j \in 1 .. Len(lines)
    BY DEF StreamInv, Laid
  <2>2. ASSUME NEW k \in 1 .. Len(lines)
        PROVE  /\ lines[k].batch \in 1 .. Len(written')
               /\ lines[k].place \in 1 .. LinesOf(written'[lines[k].batch])
    BY <1>2, <1>3 DEF StreamInv, Laid
  <2>3. /\ \A k \in 1 .. Len(lines) : lines[k].from \in Nat
             /\ \A j \in 1 .. k - 1 : TextEnd(j) + 2 <= lines[k].from
        /\ \A p \in 1 .. Len(stream) :
             \E k \in 1 .. Len(lines) : lines[k].from < p /\ p <= TextEnd(k) + 2
        /\ stream \in Seq(Symbols) /\ Len(lines) \in Nat /\ DOMAIN lines = 1 .. Len(lines)
    BY DEF StreamInv, Laid
  <2>4. \A k \in 1 .. Len(lines) : TextEnd(k)' = TextEnd(k)
    BY <1>4
  <2> HIDE DEF TextEnd, Lies
  <2>5. \A k \in 1 .. Len(lines) : \A j \in 1 .. k - 1 : TextEnd(j)' + 2 <= lines[k].from
    BY <2>1, <2>3, <2>4
  <2>6. \A p \in 1 .. Len(stream) :
          \E k \in 1 .. Len(lines) : lines[k].from < p /\ p <= TextEnd(k)' + 2
    BY <2>3, <2>4
  <2>7. \A k \in 1 .. Len(lines) : Lies(k)'
    BY <1>5
  <2> QED BY <1>1, <1>2, <2>2, <2>3, <2>5, <2>6, <2>7 DEF Laid
<1>7. Ordered'
  <2>1. /\ printed \in Nat
        /\ \A k \in 1 .. Len(lines) : \A j \in 1 .. k - 1 :
             \/ lines[j].batch < lines[k].batch
             \/ lines[j].batch = lines[k].batch /\ lines[j].place < lines[k].place
        /\ \A b \in 1 .. Len(written) : \A i \in 1 .. LinesOf(written[b]) :
             b < Len(written) \/ i <= printed =>
               \E k \in 1 .. Len(lines) : lines[k].batch = b /\ lines[k].place = i
    BY DEF StreamInv, Ordered
  <2>2. printed' \in Nat /\ LinesOf(written'[Len(written')]) \in Nat
        /\ printed' <= LinesOf(written'[Len(written')])
    <3>1. written'[Len(written')] \in Batches
      BY <1>2
    <3> QED BY <1>1, <3>1, BatchFacts
  <2>3. \A k \in 1 .. Len(lines) : lines[k].batch # Len(written')
    BY <1>2, <1>3
  <2>4. ASSUME NEW b \in 1 .. Len(written'), NEW i \in 1 .. LinesOf(written'[b]),
               b < Len(written') \/ i <= printed'
        PROVE  \E k \in 1 .. Len(lines) : lines[k].batch = b /\ lines[k].place = i
    <3>1. b \in 1 .. Len(written)
      BY <1>1, <1>2, <2>4
    <3>2. i \in 1 .. LinesOf(written[b])
      BY <1>2, <3>1
    <3>3. b < Len(written) \/ i <= printed
      <4>1. written # << >>
        BY <3>1
      <4>2. printed = LinesOf(written[Len(written)])
        BY <1>1, <4>1 DEF AllPrinted
      <4>3. b = Len(written) => i <= printed
        BY <3>2, <4>2
      <4> QED BY <3>1, <1>2, <4>3
    <3> QED BY <2>1, <3>1, <3>2, <3>3
  <2>5. lines' = lines /\ printed' = 0
    BY <1>1
  <2>6. written' # << >> => printed' <= LinesOf(written'[Len(written')])
    BY <2>2
  <2>7. \A k \in 1 .. Len(lines) :
          /\ lines[k].batch = Len(written') => lines[k].place <= printed'
          /\ \A j \in 1 .. k - 1 :
               \/ lines[j].batch < lines[k].batch
               \/ lines[j].batch = lines[k].batch /\ lines[j].place < lines[k].place
    BY <2>1, <2>3
  <2> QED BY <2>2, <2>4, <2>5, <2>6, <2>7 DEF Ordered
<1> QED BY <1>6, <1>7 DEF StreamInv

LEMMA ConcatFacts ==
  ASSUME NEW S, NEW s \in Seq(S), NEW t \in Seq(S), NEW c \in S, NEW l \in S
  PROVE  LET r == s \o t \o <<c, l>> IN
         /\ r \in Seq(S) /\ Len(r) = Len(s) + Len(t) + 2
         /\ \A p \in 1 .. Len(s) : r[p] = s[p]
         /\ \A p \in 1 .. Len(t) : r[Len(s) + p] = t[p]
         /\ r[Len(s) + Len(t) + 1] = c /\ r[Len(s) + Len(t) + 2] = l
<1> DEFINE q == s \o t
           r == q \o <<c, l>>
<1>1. /\ q \in Seq(S) /\ Len(q) = Len(s) + Len(t) /\ Len(s) \in Nat /\ Len(t) \in Nat
      /\ \A p \in 1 .. Len(s) : q[p] = s[p]
      /\ \A p \in 1 .. Len(t) : q[Len(s) + p] = t[p]
  OBVIOUS
<1> HIDE DEF q
<1>2. /\ r \in Seq(S) /\ Len(r) = Len(q) + 2
      /\ \A p \in 1 .. Len(q) : r[p] = q[p]
      /\ r[Len(q) + 1] = c /\ r[Len(q) + 2] = l
  BY <1>1
<1> HIDE DEF r
<1>3. /\ \A p \in 1 .. Len(s) : p \in 1 .. Len(q)
      /\ \A p \in 1 .. Len(t) : Len(s) + p \in 1 .. Len(q)
  BY <1>1
<1>4. r = s \o t \o <<c, l>>
  BY DEF r, q
<1>5. /\ \A p \in 1 .. Len(s) : r[p] = s[p]
      /\ \A p \in 1 .. Len(t) : r[Len(s) + p] = t[p]
  BY <1>1, <1>2, <1>3
<1>6. /\ Len(r) = Len(s) + Len(t) + 2
      /\ r[Len(s) + Len(t) + 1] = c /\ r[Len(s) + Len(t) + 2] = l
  BY <1>1, <1>2
<1> QED BY <1>2, <1>4, <1>5, <1>6

\* What GDB prints is the next line, behind all others.
LEMMA Prints ==
  ASSUME StreamInv, GdbPrints
  PROVE  LET k == Len(lines) + 1
             batch == written[Len(written)]
             text == TextOf(batch, printed + 1)
         IN /\ written \in Seq(Batches) /\ Len(written) \in Nat \ {0} /\ batch \in Batches
            /\ printed + 1 \in 1 .. LinesOf(batch) /\ printed' = printed + 1
            /\ written' = written
            /\ Len(lines) \in Nat /\ Len(lines') = k /\ DOMAIN lines' = 1 .. k
            /\ lines'[k].batch = Len(written) /\ lines'[k].place = printed + 1
            /\ lines'[k].from = Len(stream)
            /\ \A m \in 1 .. Len(lines) : lines'[m] = lines[m]
            /\ text \in Seq(Symbols) /\ Len(text) \in Nat \ {0}
            /\ stream \in Seq(Symbols) /\ Len(stream) \in Nat
            /\ stream' \in Seq(Symbols) /\ Len(stream') = Len(stream) + Len(text) + 2
            /\ \A p \in 1 .. Len(stream) : stream'[p] = stream[p]
            /\ \A p \in 1 .. Len(text) : stream'[Len(stream) + p] = text[p]
            /\ stream'[Len(stream) + Len(text) + 1] = "cr"
            /\ stream'[Len(stream) + Len(text) + 2] = "lf"
<1> DEFINE k == Len(lines) + 1
           batch == written[Len(written)]
           text == TextOf(batch, printed + 1)
<1>1. /\ written # << >> /\ printed # LinesOf(batch) /\ printed' = printed + 1
      /\ stream' = stream \o TextOf(batch, printed') \o NewLine
      /\ lines' = Append(lines, [batch |-> Len(written), place |-> printed', from |-> Len(stream)])
      /\ written' = written
  BY DEF GdbPrints, AllPrinted, gdbVars
<1>2. written \in Seq(Batches) /\ stream \in Seq(Symbols) /\ Len(lines) \in Nat
      /\ DOMAIN lines = 1 .. Len(lines)
  BY DEF StreamInv, Laid
<1>3. Len(written) \in Nat \ {0} /\ batch \in Batches
  BY <1>1, <1>2
<1>4. printed \in Nat /\ printed <= LinesOf(batch) /\ LinesOf(batch) \in Nat
  BY <1>1, <1>3, BatchFacts DEF StreamInv, Ordered
<1>5. printed + 1 \in 1 .. LinesOf(batch)
  BY <1>1, <1>4
<1>6. text \in Seq(Symbols) /\ Len(text) \in Nat \ {0}
  BY <1>3, <1>5, TextFacts
<1>7. stream' = stream \o text \o <<"cr", "lf">>
  BY <1>1 DEF NewLine
<1>8. "cr" \in Symbols /\ "lf" \in Symbols
  BY DEF Symbols, NewLine
<1> HIDE DEF text, batch
<1>9. /\ stream' \in Seq(Symbols) /\ Len(stream') = Len(stream) + Len(text) + 2
      /\ \A p \in 1 .. Len(stream) : stream'[p] = stream[p]
      /\ \A p \in 1 .. Len(text) : stream'[Len(stream) + p] = text[p]
      /\ stream'[Len(stream) + Len(text) + 1] = "cr"
      /\ stream'[Len(stream) + Len(text) + 2] = "lf"
  BY <1>2, <1>6, <1>7, <1>8, ConcatFacts
<1>10. /\ Len(lines') = k /\ DOMAIN lines' = 1 .. k
       /\ lines'[k].batch = Len(written) /\ lines'[k].place = printed + 1
       /\ lines'[k].from = Len(stream)
       /\ \A m \in 1 .. Len(lines) : lines'[m] = lines[m]
  BY <1>1, <1>2
<1>11. Len(stream) \in Nat
  BY <1>2
<1> HIDE DEF k
<1> QED BY <1>1, <1>2, <1>3, <1>5, <1>6, <1>9, <1>10, <1>11 DEF k, text, batch

LEMMA StreamPrints ==
  ASSUME StreamInv, GdbPrints
  PROVE  /\ StreamInv'
         /\ \A m \in 1 .. Len(lines) : m \in 1 .. Len(lines') /\ lines'[m] = lines[m]
<1>13. PICK k : k = Len(lines) + 1
  OBVIOUS
<1> DEFINE batch == written[Len(written)]
           text == TextOf(batch, printed + 1)
           L == Len(stream)
<1>0. /\ written \in Seq(Batches) /\ Len(written) \in Nat \ {0} /\ batch \in Batches
      /\ printed + 1 \in 1 .. LinesOf(batch) /\ printed' = printed + 1
      /\ written' = written
      /\ Len(lines) \in Nat /\ Len(lines') = k /\ DOMAIN lines' = 1 .. k
      /\ lines'[k].batch = Len(written) /\ lines'[k].place = printed + 1
      /\ lines'[k].from = L
      /\ \A m \in 1 .. Len(lines) : lines'[m] = lines[m]
      /\ text \in Seq(Symbols) /\ Len(text) \in Nat \ {0}
      /\ stream \in Seq(Symbols) /\ L \in Nat
      /\ stream' \in Seq(Symbols) /\ Len(stream') = L + Len(text) + 2
      /\ \A p \in 1 .. L : stream'[p] = stream[p]
      /\ \A p \in 1 .. Len(text) : stream'[L + p] = text[p]
      /\ stream'[L + Len(text) + 1] = "cr"
      /\ stream'[L + Len(text) + 2] = "lf"
  BY <1>13, Prints
<1>1. /\ Len(written) \in Nat \ {0} /\ batch \in Batches
      /\ printed + 1 \in 1 .. LinesOf(batch) /\ printed' = printed + 1
      /\ written' = written
      /\ Len(lines) \in Nat /\ Len(lines') = k
      /\ lines'[k].batch = Len(written) /\ lines'[k].place = printed + 1
      /\ lines'[k].from = L
      /\ \A m \in 1 .. Len(lines) : lines'[m] = lines[m]
      /\ Len(text) \in Nat \ {0} /\ L \in Nat /\ Len(stream') = L + Len(text) + 2
  BY <1>0
<1>12. L \in Nat /\ Len(text) \in Nat \ {0} /\ Len(stream') = L + Len(text) + 2
  BY <1>0
<1>10. /\ \A p \in 1 .. L : stream'[p] = stream[p]
       /\ \A p \in 1 .. Len(text) : stream'[L + p] = text[p]
       /\ stream'[L + Len(text) + 1] = "cr"
       /\ stream'[L + Len(text) + 2] = "lf"
  BY <1>0
<1>11. DOMAIN lines' = 1 .. k /\ written' \in Seq(Batches) /\ stream' \in Seq(Symbols)
  BY <1>0
<1>2. /\ k \in Nat /\ k \in 1 .. Len(lines')
      /\ \A m \in 1 .. k : m = k \/ m \in 1 .. Len(lines)
      /\ \A m \in 1 .. Len(lines) : m \in 1 .. k /\ m # k /\ m < k
  BY <1>1, <1>13
<1>3. TextAt(k)' = text /\ TextEnd(k)' = L + Len(text)
  <2>1. written'[lines'[k].batch] = batch /\ lines'[k].place = printed + 1 /\ lines'[k].from = L
    BY <1>1
  <2> QED BY <2>1 DEF TextAt, TextEnd
<1>4. ASSUME NEW m \in 1 .. Len(lines)
      PROVE  /\ TextAt(m)' = TextAt(m) /\ TextEnd(m)' = TextEnd(m)
             /\ TextEnd(m) + 2 <= L /\ lines[m].from \in Nat /\ TextEnd(m) \in Nat
  <2>1. Lies(m) /\ lines[m].from \in Nat /\ TextEnd(m) \in Nat
    BY LineFacts DEF StreamInv, Laid
  <2> QED BY <1>1, <2>1 DEF TextAt, TextEnd, Lies
<1> HIDE DEF text, batch, L
<1>5. ASSUME NEW m \in 1 .. Len(lines) PROVE Lies(m)'
  <2>1. Lies(m) /\ lines[m].from \in Nat /\ TextEnd(m) \in Nat /\ TextEnd(m) + 2 <= L
        /\ TextEnd(m) = lines[m].from + Len(TextAt(m)) /\ Len(TextAt(m)) \in Nat
    BY <1>4, LineFacts DEF StreamInv, Laid
  <2>2. ASSUME NEW p \in 1 .. Len(TextAt(m))
        PROVE  stream'[lines[m].from + p] = TextAt(m)[p]
    <3>1. lines[m].from + p \in 1 .. L
      BY SMTT(20), <1>12, <2>1
    <3> QED BY <1>10, <2>1, <3>1 DEF Lies
  <2>3. stream'[TextEnd(m) + 1] = "cr" /\ stream'[TextEnd(m) + 2] = "lf"
    <3>1. TextEnd(m) + 1 \in 1 .. L /\ TextEnd(m) + 2 \in 1 .. L
      BY SMTT(20), <1>12, <2>1
    <3> QED BY <1>10, <2>1, <3>1 DEF Lies
  <2>4. TextEnd(m) + 2 <= Len(stream')
    BY SMTT(20), <1>1, <2>1
  <2>5. lines'[m].from = lines[m].from /\ TextAt(m)' = TextAt(m) /\ TextEnd(m)' = TextEnd(m)
    BY <1>1, <1>4
  <2> QED BY <2>2, <2>3, <2>4, <2>5 DEF Lies
<1>6. Lies(k)'
  <2>1. lines'[k].from = L
    BY <1>1
  <2>2. Len(TextAt(k)') = Len(text)
    BY <1>3
  <2>3. TextEnd(k)' + 2 <= Len(stream')
    BY <1>3, <1>12
  <2> QED BY <1>3, <1>10, <2>1, <2>2, <2>3 DEF Lies
<1>7. Laid'
  <2>1. ASSUME NEW m \in 1 .. k
        PROVE  /\ lines'[m].batch \in 1 .. Len(written')
               /\ lines'[m].place \in 1 .. LinesOf(written'[lines'[m].batch])
               /\ lines'[m].from \in Nat
               /\ Lies(m)'
               /\ \A j \in 1 .. m - 1 : TextEnd(j)' + 2 <= lines'[m].from
    <3>1. CASE m = k
      <4>1. \A j \in 1 .. k - 1 : j \in 1 .. Len(lines)
        BY <1>1, <1>13
      <4>2. lines'[k].batch = Len(written) /\ lines'[k].place = printed + 1 /\ lines'[k].from = L
        BY <1>1
      <4>3. \A j \in 1 .. k - 1 : TextEnd(j)' + 2 <= L
        BY <4>1, <1>4
      <4>4. Len(written) \in 1 .. Len(written') /\ printed + 1 \in 1 .. LinesOf(written'[Len(written)])
        BY <1>1 DEF batch
      <4> QED BY <3>1, <1>6, <1>12, <4>2, <4>3, <4>4
    <3>2. CASE m # k
      <4>1. m \in 1 .. Len(lines) /\ \A j \in 1 .. m - 1 : j \in 1 .. Len(lines)
        BY <3>2, <1>1, <1>2
      <4>2. /\ lines[m].batch \in 1 .. Len(written)
            /\ lines[m].place \in 1 .. LinesOf(written[lines[m].batch])
            /\ lines[m].from \in Nat
            /\ \A j \in 1 .. m - 1 : TextEnd(j) + 2 <= lines[m].from
        BY <4>1 DEF StreamInv, Laid
      <4>3. \A j \in 1 .. m - 1 : TextEnd(j)' + 2 <= lines[m].from
        BY <4>1, <4>2, <1>4
      <4> QED BY <1>1, <1>5, <4>1, <4>2, <4>3
    <3> QED BY <3>1, <3>2
  <2>2. ASSUME NEW p \in 1 .. Len(stream')
        PROVE  \E m \in 1 .. k : lines'[m].from < p /\ p <= TextEnd(m)' + 2
    <3>1. CASE p <= L
      <4>1. p \in 1 .. L
        BY <3>1, <1>1
      <4>2. PICK m \in 1 .. Len(lines) : lines[m].from < p /\ p <= TextEnd(m) + 2
        BY <4>1 DEF StreamInv, Laid, L
      <4>3. m \in 1 .. k /\ lines'[m] = lines[m] /\ TextEnd(m)' = TextEnd(m)
        BY <4>2, <1>1, <1>2, <1>4
      <4> QED BY <4>2, <4>3
    <3>2. CASE p > L
      <4>1. lines'[k].from < p /\ p <= TextEnd(k)' + 2
        BY <3>2, <1>1, <1>3
      <4> QED BY <4>1, <1>1, <1>2
    <3> QED BY <1>1, <3>1, <3>2
  <2>3. Len(lines') = k /\ k \in Nat
    BY <1>1, <1>2
  <2> QED BY <1>11, <2>1, <2>2, <2>3 DEF Laid
<1>8. Ordered'
  <2>1. /\ printed \in Nat
        /\ \A m \in 1 .. Len(lines) :
             /\ lines[m].batch \in 1 .. Len(written)
             /\ lines[m].batch = Len(written) => lines[m].place <= printed
             /\ \A j \in 1 .. m - 1 :
                  \/ lines[j].batch < lines[m].batch
                  \/ lines[j].batch = lines[m].batch /\ lines[j].place < lines[m].place
        /\ \A b \in 1 .. Len(written) : \A i \in 1 .. LinesOf(written[b]) :
             b < Len(written) \/ i <= printed =>
               \E m \in 1 .. Len(lines) : lines[m].batch = b /\ lines[m].place = i
    BY DEF StreamInv, Ordered, Laid
  <2>5. \A m \in 1 .. Len(lines) : lines[m].place \in Int
    BY DEF StreamInv, Laid
  <2>2. printed' \in Nat /\ printed' <= LinesOf(written'[Len(written')])
    BY <1>1, <2>1 DEF batch
  <2>3. ASSUME NEW m \in 1 .. k
        PROVE  /\ lines'[m].batch = Len(written') => lines'[m].place <= printed'
               /\ \A j \in 1 .. m - 1 :
                    \/ lines'[j].batch < lines'[m].batch
                    \/ lines'[j].batch = lines'[m].batch /\ lines'[j].place < lines'[m].place
    <3>1. CASE m = k
      <4>1. lines'[k].batch = Len(written) /\ lines'[k].place = printed + 1
        BY <1>1
      <4>2. ASSUME NEW j \in 1 .. k - 1
            PROVE  \/ lines'[j].batch < Len(written)
                   \/ lines'[j].batch = Len(written) /\ lines'[j].place < printed + 1
        <5>1. j \in 1 .. Len(lines)
          BY <1>1, <1>13
        <5>2. lines'[j] = lines[j]
          BY <5>1, <1>1
        <5>3. lines[j].batch \in 1 .. Len(written) /\ lines[j].place \in Int
              /\ (lines[j].batch = Len(written) => lines[j].place <= printed)
          BY <5>1, <2>1, <2>5
        <5>4. printed \in Nat /\ Len(written) \in Nat
          BY <2>1, <1>1
        <5> QED BY <5>2, <5>3, <5>4
      <4> QED BY <3>1, <4>1, <4>2, <1>1, <2>1
    <3>2. CASE m # k
      <4>1. m \in 1 .. Len(lines) /\ \A j \in 1 .. m - 1 : j \in 1 .. Len(lines)
        BY <3>2, <1>1, <1>2
      <4>2. lines'[m] = lines[m] /\ \A j \in 1 .. m - 1 : lines'[j] = lines[j]
        BY <4>1, <1>1
      <4>3. lines[m].batch = Len(written) => lines[m].place <= printed + 1
        <5>1. printed \in Nat /\ lines[m].place \in Int
          BY <4>1, <2>1, <2>5
        <5>2. lines[m].batch = Len(written) => lines[m].place <= printed
          BY <4>1, <2>1
        <5> QED BY <5>1, <5>2
      <4>4. \A j \in 1 .. m - 1 :
              \/ lines[j].batch < lines[m].batch
              \/ lines[j].batch = lines[m].batch /\ lines[j].place < lines[m].place
        BY <4>1, <2>1
      <4>5. written' = written /\ printed' = printed + 1
        BY <1>1
      <4> QED BY <4>2, <4>3, <4>4, <4>5
    <3> QED BY <3>1, <3>2
  <2>4. ASSUME NEW b \in 1 .. Len(written), NEW i \in 1 .. LinesOf(written[b]),
               b < Len(written) \/ i <= printed + 1
        PROVE  \E m \in 1 .. k : lines'[m].batch = b /\ lines'[m].place = i
    <3>1. CASE b < Len(written) \/ i <= printed
      <4>1. PICK m \in 1 .. Len(lines) : lines[m].batch = b /\ lines[m].place = i
        BY <3>1, <2>1
      <4> QED BY <4>1, <1>1, <1>2
    <3>2. CASE b = Len(written) /\ i = printed + 1
      <4>1. k \in 1 .. k
        BY <1>1, <1>2
      <4> QED BY <3>2, <1>1, <4>1
    <3>3. i \in Int /\ b \in 1 .. Len(written)
      OBVIOUS
    <3> QED BY <3>1, <3>2, <3>3, <2>4, <2>1, <1>1
  <2>6. written' = written /\ Len(lines') = k /\ printed' = printed + 1 /\ written # << >>
    BY <1>0
  <2> QED BY <2>2, <2>3, <2>4, <2>6 DEF Ordered
<1> QED BY <1>1, <1>2, <1>7, <1>8 DEF StreamInv

-----------------------------------------------------------------------------
(* Chunks *)

\* Chunks end in the order of the stream, behind what is handled.
QueueInv ==
  /\ queue \in Seq(Nat) /\ Len(queue) <= MaxQueue
  /\ read \in Nat /\ read <= Len(stream) /\ handled \in Nat /\ handled <= read
  /\ \A i \in 1 .. Len(queue) :
       /\ handled < queue[i] /\ queue[i] <= read
       /\ \A j \in 1 .. i - 1 : queue[j] < queue[i]

LEMMA HeadFacts ==
  ASSUME StreamInv, QueueInv, queue # << >>
  PROVE  /\ Head(queue) \in Nat /\ handled < Head(queue) /\ Head(queue) <= Len(stream)
         /\ Head(queue) <= read /\ Len(stream) \in Nat /\ handled \in Nat
         /\ \E i \in 1 .. Len(queue) : Head(queue) = queue[i]
<1>1. Len(queue) \in Nat \ {0} /\ Head(queue) = queue[1] /\ Head(queue) \in Nat
  BY DEF QueueInv
<1>2. handled < queue[1] /\ queue[1] <= read
  BY <1>1 DEF QueueInv
<1>3. Len(stream) \in Nat
  BY DEF StreamInv, Laid
<1> QED BY <1>1, <1>2, <1>3 DEF QueueInv

\* What every round of the loop keeps, the handler keeps.
LEMMA HandlerKeeps ==
  ASSUME StreamInv, QueueInv, HandleDataGdb, NEW S, S \subseteq Views, view \in S,
         \A v \in S, behind \in Behinds :
           v.at < Head(queue) => Round(v, Head(queue), behind) \in S
  PROVE  view' \in S /\ handled' = Head(queue)
<1> DEFINE end == Head(queue)
           T == {v \in S : v.at \in handled .. end}
<1>1. queue # << >>
  BY DEF HandleDataGdb
<1>2. end \in Nat /\ handled \in Nat /\ handled <= end /\ end <= Len(stream)
  BY <1>1, HeadFacts
<1>3. PICK behind \in Behinds : Becomes(AllRounds(end, behind))
  BY DEF HandleDataGdb
<1>4. view \in T
  BY <1>2 DEF view
<1>5. ASSUME NEW v \in T, v.at # end
      PROVE  Round(v, end, behind) \in T /\ v.at < Round(v, end, behind).at
  <2>1. v \in Views /\ v \in S /\ v.at \in handled .. end /\ v.at < end
    BY <1>2, <1>5
  <2>2. /\ Round(v, end, behind) \in Views
        /\ v.at < Round(v, end, behind).at /\ Round(v, end, behind).at <= end
    BY <1>2, <2>1, RoundTypes DEF StreamInv
  <2>3. Round(v, end, behind) \in S
    BY <2>1
  <2>4. Round(v, end, behind).at \in Nat
    BY <2>2 DEF Views
  <2>5. Round(v, end, behind).at \in handled .. end
    BY <1>2, <2>1, <2>2, <2>4
  <2> QED BY <2>2, <2>3, <2>5
<1>6. \A v \in T : v.at \in handled .. end
  OBVIOUS
<1> HIDE DEF end
<1>7. AllRounds(end, behind) \in T /\ AllRounds(end, behind).at = end
  <2> HIDE DEF T
  <2> QED BY <1>2, <1>4, <1>5, <1>6, AllRoundsKeep
<1> DEFINE w == AllRounds(end, behind)
<1>8. w \in S /\ w \in Views /\ w.at = end
  BY <1>7
<1> HIDE DEF w
<1>9. w = [at |-> w.at, po |-> w.po, retired |-> w.retired, state |-> w.state,
           file |-> w.file, awaited |-> w.awaited, number |-> w.number]
  BY <1>8 DEF Views
<1>10. /\ handled' = w.at /\ po' = w.po /\ retired' = w.retired /\ target_state' = w.state
       /\ current_file' = w.file /\ awaited' = w.awaited /\ number' = w.number
  BY <1>3 DEF Becomes, w
<1>11. view' = w
  BY <1>9, <1>10 DEF view
<1> QED BY <1>8, <1>10, <1>11 DEF end

-----------------------------------------------------------------------------
(* Type correctness *)

Small ==
  /\ gdb \in {"running", "stopped", "exited"}
  /\ cmd \in {"none", "resume", "insert"}
  /\ given \in {0} \cup Numbers
  /\ Len(written) <= MaxBatches
  /\ cuts \in 0 .. MaxCuts /\ prompt_cut \in BOOLEAN /\ hasty \in BOOLEAN

TypeInv == StreamInv /\ QueueInv /\ Small /\ view \in Views

LEMMA TypeInvImplies ==
  ASSUME TypeInv
  PROVE  TypeOK
<1>1. /\ po \in Seq(Takens) /\ target_state \in States /\ current_file \in {"none", "/f", "elsewhere"}
      /\ awaited \in BOOLEAN /\ number \in {0} \cup Numbers
  BY DEF TypeInv, Views, view
<1>2. \A i \in 1 .. Len(po) : Known(po[i].output)
  BY <1>1, OutputsFacts, HearableKinds
<1>3. written \in Seq(Batches) /\ stream \in Seq(Symbols)
  BY DEF TypeInv, StreamInv, Laid
<1>4. printed \in 0 .. 3
  <2>1. written = << >> => printed = 0
    BY DEF TypeInv, StreamInv, Ordered
  <2>2. written # << >> => printed <= LinesOf(written[Len(written)])
    BY DEF TypeInv, StreamInv, Ordered
  <2>3. printed \in Nat
    BY DEF TypeInv, StreamInv, Ordered
  <2>4. written # << >> => LinesOf(written[Len(written)]) \in 2 .. 3
    <3>1. written # << >> => written[Len(written)] \in Batches
      BY <1>3
    <3> QED BY <3>1, BatchFacts
  <2> QED BY <2>1, <2>2, <2>3, <2>4
<1> QED BY <1>1, <1>2, <1>3, <1>4 DEF TypeInv, QueueInv, Small, TypeOK, States

LEMMA GdbSays ==
  ASSUME TypeInv, GdbReplies \/ GdbStops
  PROVE  /\ \E batch \in Batches : Say(batch)
         /\ UNCHANGED <<stream, lines, readVars, masterVars>>
<1>1. RunBatch \in Batches /\ ErrorBatch \in Batches /\ StopBatch \in Batches
      /\ ExitBatch \in Batches
  BY Zenon DEF Batches
<1>2. \A n \in Numbers : DoneBatch(n) \in Batches
  BY Zenon DEF Batches
<1>3. CASE GdbReplies
  <2>1. Say(RunBatch) \/ Say(ErrorBatch) \/ \E n \in Numbers : Say(DoneBatch(n))
    BY <1>3 DEF GdbReplies
  <2>2. UNCHANGED <<stream, lines, readVars, masterVars>>
    BY <1>3 DEF GdbReplies
  <2> QED BY <1>1, <1>2, <2>1, <2>2
<1>4. CASE GdbStops
  <2>1. Say(StopBatch) \/ Say(ExitBatch)
    BY <1>4 DEF GdbStops
  <2>2. UNCHANGED <<stream, lines, readVars, masterVars>>
    BY <1>4 DEF GdbStops
  <2> QED BY <1>1, <2>1, <2>2
<1> QED BY <1>3, <1>4

LEMMA GdbTypes ==
  ASSUME TypeInv, GdbReplies \/ GdbStops
  PROVE  TypeInv'
<1>1. PICK batch \in Batches : Say(batch)
  BY GdbSays
<1>2. UNCHANGED <<stream, lines, readVars, masterVars>>
  BY GdbSays
<1>3. StreamInv'
  BY <1>1, <1>2, StreamSays DEF TypeInv
<1>4. QueueInv' /\ (view \in Views)'
  BY <1>2 DEF TypeInv, QueueInv, readVars, masterVars, view
<1>5. Len(written') <= MaxBatches
  <2>1. written \in Seq(Batches) /\ written' = Append(written, batch) /\ Len(written) < MaxBatches
    BY <1>1 DEF TypeInv, StreamInv, Laid, Say
  <2>2. MaxBatches \in Nat
    BY PrinterAssumption DEF PrinterAssumption
  <2> QED BY <2>1, <2>2
<1>6. /\ gdb' \in {"running", "stopped", "exited"} /\ cmd' \in {"none", "resume", "insert"}
      /\ given' \in {0} \cup Numbers
  <2>1. CASE GdbReplies
    BY <2>1 DEF GdbReplies, TypeInv, Small
  <2>2. CASE GdbStops
    BY <2>2 DEF GdbStops, TypeInv, Small
  <2> QED BY <2>1, <2>2
<1>7. cuts' = cuts /\ prompt_cut' = prompt_cut /\ hasty' = hasty
  BY <1>2 DEF readVars, masterVars
<1> QED BY <1>3, <1>4, <1>5, <1>6, <1>7 DEF TypeInv, Small

LEMMA ReadTypes ==
  ASSUME TypeInv, Read
  PROVE  TypeInv'
<1>1. PICK n \in read + 1 .. Len(stream) :
        /\ read' = n
        /\ cuts' = IF CutsLine(n) THEN cuts + 1 ELSE cuts
        /\ cuts' <= MaxCuts
        /\ prompt_cut' = (prompt_cut \/ (CutsLine(n) /\ stream[n] = "(gd"))
        /\ queue' = Append(queue, n)
  BY DEF Read
<1>2. /\ UNCHANGED <<gdbVars, wireVars, handled, po, retired, target_state, current_file,
                     awaited, hasty, number>>
      /\ Len(queue) < MaxQueue
  BY DEF Read
<1>3. StreamInv'
  BY <1>2, SameStream DEF TypeInv, gdbVars, wireVars
<1>4. QueueInv'
  <2>1. /\ queue \in Seq(Nat) /\ read \in Nat /\ handled \in Nat /\ handled <= read
        /\ Len(stream) \in Nat /\ MaxQueue \in Nat
        /\ \A i \in 1 .. Len(queue) :
             /\ handled < queue[i] /\ queue[i] <= read
             /\ \A j \in 1 .. i - 1 : queue[j] < queue[i]
    BY PrinterAssumption DEF PrinterAssumption, TypeInv, QueueInv, StreamInv, Laid
  <2>2. n \in Nat /\ read < n /\ n <= Len(stream)
    BY <1>1, <2>1
  <2>3. /\ queue' \in Seq(Nat) /\ Len(queue') = Len(queue) + 1 /\ Len(queue) \in Nat
        /\ queue'[Len(queue) + 1] = n /\ \A i \in 1 .. Len(queue) : queue'[i] = queue[i]
    BY <1>1, <2>1, <2>2
  <2>4. Len(queue') <= MaxQueue
    BY <1>2, <2>1, <2>3
  <2>5. \A i \in 1 .. Len(queue) : queue[i] \in Nat
    BY <2>1
  <2>6. ASSUME NEW i \in 1 .. Len(queue')
        PROVE  /\ handled < queue'[i] /\ queue'[i] <= n
               /\ \A j \in 1 .. i - 1 : queue'[j] < queue'[i]
    <3>1. CASE i = Len(queue) + 1
      <4>1. \A j \in 1 .. i - 1 : j \in 1 .. Len(queue)
        BY <2>3, <3>1
      <4>2. \A j \in 1 .. Len(queue) : queue[j] < n
        BY <2>1, <2>2, <2>5
      <4> QED BY SMTT(20), <2>1, <2>2, <2>3, <3>1, <4>1, <4>2
    <3>2. CASE i # Len(queue) + 1
      <4>1. i \in 1 .. Len(queue) /\ \A j \in 1 .. i - 1 : j \in 1 .. Len(queue)
        BY <2>3, <3>2
      <4>2. queue'[i] = queue[i] /\ \A j \in 1 .. i - 1 : queue'[j] = queue[j]
        BY <2>3, <4>1
      <4>3. /\ handled < queue[i] /\ queue[i] <= read /\ queue[i] \in Nat
            /\ \A j \in 1 .. i - 1 : queue[j] < queue[i]
        BY <2>1, <2>5, <4>1
      <4>4. queue[i] <= n
        BY <2>1, <2>2, <4>3
      <4> QED BY <4>2, <4>3, <4>4
    <3> QED BY <3>1, <3>2
  <2> QED BY <1>1, <1>2, <2>1, <2>2, <2>3, <2>4, <2>6 DEF QueueInv, wireVars
<1>5. Small'
  <2>1. cuts \in Nat /\ MaxCuts \in Nat /\ cuts \in 0 .. MaxCuts
    BY PrinterAssumption DEF PrinterAssumption, TypeInv, Small
  <2>2. cuts' \in 0 .. MaxCuts
    BY <1>1, <2>1
  <2>3. prompt_cut' \in BOOLEAN
    BY <1>1 DEF TypeInv, Small
  <2> QED BY <1>2, <2>2, <2>3 DEF TypeInv, Small, gdbVars
<1>6. (view \in Views)'
  BY <1>2 DEF TypeInv, view
<1> QED BY <1>3, <1>4, <1>5, <1>6 DEF TypeInv

LEMMA HandlerQueue ==
  ASSUME TypeInv, HandleDataGdb, handled' = Head(queue)
  PROVE  QueueInv'
<1>1. /\ queue # << >> /\ queue' = Tail(queue) /\ read' = read /\ stream' = stream
      /\ queue \in Seq(Nat) /\ Len(queue) <= MaxQueue
      /\ read \in Nat /\ read <= Len(stream)
      /\ \A i \in 1 .. Len(queue) :
           /\ handled < queue[i] /\ queue[i] <= read
           /\ \A j \in 1 .. i - 1 : queue[j] < queue[i]
  BY DEF HandleDataGdb, TypeInv, QueueInv, readVars, wireVars
<1>2. /\ queue' \in Seq(Nat) /\ Len(queue) \in Nat \ {0} /\ Len(queue') = Len(queue) - 1
      /\ \A i \in 1 .. Len(queue') : queue'[i] = queue[i + 1]
      /\ Head(queue) = queue[1] /\ queue[1] \in Nat /\ queue[1] <= read
  BY <1>1
<1>3. \A i \in 1 .. Len(queue') :
        /\ i + 1 \in 1 .. Len(queue) /\ 1 \in 1 .. (i + 1) - 1
        /\ \A j \in 1 .. i - 1 : j \in 1 .. Len(queue') /\ j + 1 \in 1 .. (i + 1) - 1
  BY <1>2
<1>4. MaxQueue \in Nat
  BY PrinterAssumption DEF PrinterAssumption
<1>5. Len(queue') <= MaxQueue
  BY <1>1, <1>2, <1>4
<1>6. \A i \in 1 .. Len(queue') :
        /\ queue[1] < queue'[i] /\ queue'[i] <= read
        /\ \A j \in 1 .. i - 1 : queue'[j] < queue'[i]
  BY <1>1, <1>2, <1>3
<1> QED BY <1>1, <1>2, <1>5, <1>6 DEF QueueInv

LEMMA HandlerTypes ==
  ASSUME TypeInv, HandleDataGdb
  PROVE  TypeInv'
<1>1. Head(queue) \in Nat /\ Head(queue) <= Len(stream)
  BY HeadFacts DEF TypeInv, HandleDataGdb
<1>2. \A v \in Views, behind \in Behinds :
        v.at < Head(queue) => Round(v, Head(queue), behind) \in Views
  BY <1>1, RoundTypes DEF TypeInv, StreamInv
<1>3. (view \in Views)' /\ handled' = Head(queue)
  <2>1. Views \subseteq Views
    OBVIOUS
  <2> QED BY <1>2, <2>1, HandlerKeeps DEF TypeInv
<1>4. QueueInv'
  BY <1>3, HandlerQueue
<1>5. UNCHANGED <<gdbVars, wireVars, readVars, hasty>>
  BY DEF HandleDataGdb
<1>6. StreamInv'
  BY <1>5, SameStream DEF TypeInv, gdbVars, wireVars
<1>7. Small'
  BY <1>5 DEF TypeInv, Small, gdbVars, readVars
<1> QED BY <1>3, <1>4, <1>6, <1>7 DEF TypeInv

LEMMA TypeInvInit ==
  ASSUME Init
  PROVE  TypeInv
<1>1. MaxCuts \in Nat /\ MaxBatches \in Nat /\ MaxQueue \in Nat
  BY PrinterAssumption DEF PrinterAssumption
<1>2. StreamInv
  BY StreamStart
<1>3. QueueInv
  BY <1>1 DEF Init, QueueInv
<1>4. Small
  <2>1. 0 \in 0 .. MaxCuts /\ Len(<< >>) <= MaxBatches
    BY <1>1
  <2>2. FALSE \in BOOLEAN
    OBVIOUS
  <2> QED BY <2>1, <2>2 DEF Init, Small
<1>5. view \in Views
  <2>1. << >> \in Seq(Takens) /\ << >> \in Seq(Seq(Takens))
    OBVIOUS
  <2> QED BY <2>1 DEF Init, view, Views, States
<1> QED BY <1>2, <1>3, <1>4, <1>5 DEF TypeInv

LEMMA TypeInvStep ==
  ASSUME TypeInv, [Next]_vars
  PROVE  TypeInv'
<1>1. CASE GdbReplies \/ GdbStops
  BY <1>1, GdbTypes
<1>2. CASE GdbPrints
  <2>1. StreamInv'
    BY <1>2, StreamPrints DEF TypeInv
  <2>2. UNCHANGED <<gdbVars, readVars, masterVars>>
    BY <1>2 DEF GdbPrints
  <2>3. Len(stream) \in Nat /\ Len(stream') \in Nat /\ Len(stream) <= Len(stream')
    <3>1. \A k \in {Len(lines) + 1} : Len(stream) \in Nat
      BY DEF TypeInv, StreamInv, Laid
    <3> QED BY <1>2, Prints DEF TypeInv
  <2>4. QueueInv'
    BY <2>2, <2>3 DEF TypeInv, QueueInv, readVars, masterVars
  <2>5. Small' /\ (view \in Views)'
    BY <2>2 DEF TypeInv, Small, gdbVars, readVars, masterVars, view
  <2> QED BY <2>1, <2>4, <2>5 DEF TypeInv
<1>3. CASE Read
  BY <1>3, ReadTypes
<1>4. CASE HandleDataGdb
  BY <1>4, HandlerTypes
<1>5. CASE Resume
  <2>1. UNCHANGED <<written, wireVars, readVars, masterVars>> /\ gdb' = gdb /\ given' = given
        /\ cmd' = "resume"
    BY <1>5 DEF Resume
  <2>2. StreamInv'
    BY <2>1, SameStream DEF TypeInv, wireVars
  <2>3. QueueInv' /\ Small' /\ (view \in Views)'
    BY <2>1 DEF TypeInv, QueueInv, Small, view, wireVars, readVars, masterVars
  <2> QED BY <2>2, <2>3 DEF TypeInv
<1>6. CASE Insert
  <2>1. /\ UNCHANGED <<gdb, given, written, wireVars, readVars, queue, handled, po, retired,
                       target_state, current_file, number>>
        /\ cmd' = "insert" /\ awaited' = TRUE /\ hasty' \in BOOLEAN
    BY <1>6 DEF Insert
  <2>2. StreamInv'
    BY <2>1, SameStream DEF TypeInv, wireVars
  <2>3. QueueInv' /\ Small'
    BY <2>1 DEF TypeInv, QueueInv, Small, wireVars, readVars
  <2>4. (view \in Views)'
    BY <2>1 DEF TypeInv, Views, view
  <2> QED BY <2>2, <2>3, <2>4 DEF TypeInv
<1>7. CASE UNCHANGED vars
  <2>1. StreamInv'
    BY <1>7, SameStream DEF TypeInv, vars, gdbVars, wireVars
  <2> QED BY <1>7, <2>1 DEF TypeInv, QueueInv, Small, view, vars, gdbVars, wireVars,
             readVars, masterVars
<1> QED BY <1>1, <1>2, <1>3, <1>4, <1>5, <1>6, <1>7 DEF Next

\* Every variable keeps to its type, and chunks are handled once, in the order of the
\* stream (Master::read_data, UIWindow::handle_data_gdb).
THEOREM TypeCorrect == Spec => []TypeOK
<1>1. Init => TypeInv
  BY TypeInvInit
<1>2. TypeInv /\ [Next]_vars => TypeInv'
  BY TypeInvStep
<1>3. TypeInv => TypeOK
  BY TypeInvImplies
<1> QED BY <1>1, <1>2, <1>3, PTL DEF Spec

-----------------------------------------------------------------------------
(* Nothing is invented *)

Heard(v) == Append(v.retired, v.po)

\* Whatever was taken was printed before, and lies behind what was taken earlier.
HeardInv(v) ==
  \A b \in 1 .. Len(Heard(v)) : \A i \in 1 .. Len(Heard(v)[b]) :
    /\ IsPrinted(Heard(v)[b][i]) /\ Heard(v)[b][i].from < v.at
    /\ \A c \in 1 .. b : \A j \in 1 .. Len(Heard(v)[c]) :
         c < b \/ j < i => Heard(v)[c][j].from < Heard(v)[b][i].from

LEMMA HeardFacts ==
  ASSUME NEW v \in Views
  PROVE  /\ v.at \in Nat /\ Len(v.retired) \in Nat /\ v.po \in Seq(Takens)
         /\ Heard(v) \in Seq(Seq(Takens))
         /\ Len(Heard(v)) = Len(v.retired) + 1 /\ Heard(v)[Len(v.retired) + 1] = v.po
         /\ \A b \in 1 .. Len(v.retired) : Heard(v)[b] = v.retired[b]
         /\ \A b \in 1 .. Len(v.retired) + 1 : Len(Heard(v)[b]) \in Nat
         /\ \A b \in 1 .. Len(v.retired) + 1 : \A i \in 1 .. Len(Heard(v)[b]) :
              Heard(v)[b][i].from \in Nat
<1>1. v.at \in Nat /\ v.retired \in Seq(Seq(Takens)) /\ v.po \in Seq(Takens)
  BY DEF Views
<1>2. /\ Heard(v) \in Seq(Seq(Takens))
      /\ Len(Heard(v)) = Len(v.retired) + 1 /\ Heard(v)[Len(v.retired) + 1] = v.po
      /\ \A b \in 1 .. Len(v.retired) : Heard(v)[b] = v.retired[b]
      /\ Len(v.retired) \in Nat
  BY <1>1 DEF Heard
<1>3. \A b \in 1 .. Len(v.retired) + 1 : Heard(v)[b] \in Seq(Takens)
  BY <1>2
<1>4. \A b \in 1 .. Len(v.retired) + 1 : Len(Heard(v)[b]) \in Nat
  BY <1>3
<1>5. \A b \in 1 .. Len(v.retired) + 1 : \A i \in 1 .. Len(Heard(v)[b]) : Heard(v)[b][i] \in Takens
  BY <1>3
<1> QED BY <1>1, <1>2, <1>4, <1>5 DEF Takens

\* The same was heard, further on.
LEMMA HeardSame ==
  ASSUME NEW v \in Views, NEW w \in Views, HeardInv(v), Heard(w) = Heard(v), v.at <= w.at
  PROVE  HeardInv(w)
<1>1. v.at \in Nat /\ w.at \in Nat
      /\ \A b \in 1 .. Len(Heard(v)) : \A i \in 1 .. Len(Heard(v)[b]) : Heard(v)[b][i].from \in Nat
  BY HeardFacts
<1> QED BY <1>1 DEF HeardInv

LEMMA HeardRetired ==
  ASSUME NEW v \in Views, NEW w \in Views, HeardInv(v),
         w.po = << >>, w.retired = Append(v.retired, v.po), v.at <= w.at
  PROVE  HeardInv(w)
<1>1. /\ Len(Heard(w)) = Len(Heard(v)) + 1 /\ Len(Heard(v)) \in Nat
      /\ \A b \in 1 .. Len(Heard(v)) : Heard(w)[b] = Heard(v)[b]
      /\ Len(Heard(w)[Len(Heard(v)) + 1]) = 0
      /\ v.at \in Nat /\ w.at \in Nat
      /\ \A b \in 1 .. Len(Heard(v)) : \A i \in 1 .. Len(Heard(v)[b]) : Heard(v)[b][i].from \in Nat
  <2>1. Heard(v) \in Seq(Seq(Takens)) /\ << >> \in Seq(Takens)
    BY HeardFacts
  <2>2. Heard(w) = Append(Heard(v), << >>)
    BY DEF Heard
  <2>3. /\ Len(Heard(w)) = Len(Heard(v)) + 1 /\ Len(Heard(v)) \in Nat
        /\ \A b \in 1 .. Len(Heard(v)) : Heard(w)[b] = Heard(v)[b]
        /\ Heard(w)[Len(Heard(v)) + 1] = << >>
    BY <2>1, <2>2
  <2>4. /\ v.at \in Nat /\ w.at \in Nat
        /\ \A b \in 1 .. Len(Heard(v)) : \A i \in 1 .. Len(Heard(v)[b]) : Heard(v)[b][i].from \in Nat
    BY HeardFacts
  <2> QED BY <2>3, <2>4
<1>2. \A b \in 1 .. Len(Heard(w)) : \A i \in 1 .. Len(Heard(w)[b]) :
        b \in 1 .. Len(Heard(v)) /\ \A c \in 1 .. b : c \in 1 .. Len(Heard(v))
  BY <1>1
<1> SUFFICES ASSUME NEW b \in 1 .. Len(Heard(w)), NEW i \in 1 .. Len(Heard(w)[b])
             PROVE  /\ IsPrinted(Heard(w)[b][i]) /\ Heard(w)[b][i].from < w.at
                    /\ \A c \in 1 .. b : \A j \in 1 .. Len(Heard(w)[c]) :
                         c < b \/ j < i => Heard(w)[c][j].from < Heard(w)[b][i].from
  BY DEF HeardInv
<1>3. b \in 1 .. Len(Heard(v)) /\ i \in 1 .. Len(Heard(v)[b]) /\ Heard(w)[b] = Heard(v)[b]
  BY <1>1, <1>2
<1>4. \A c \in 1 .. b : Heard(w)[c] = Heard(v)[c]
  BY <1>1, <1>2
<1>5. /\ IsPrinted(Heard(v)[b][i]) /\ Heard(v)[b][i].from < v.at
      /\ \A c \in 1 .. b : \A j \in 1 .. Len(Heard(v)[c]) :
           c < b \/ j < i => Heard(v)[c][j].from < Heard(v)[b][i].from
  BY <1>3 DEF HeardInv
<1>6. Heard(v)[b][i].from < w.at
  <2>1. Heard(v)[b][i].from \in Nat /\ v.at \in Nat /\ w.at \in Nat
    BY <1>1, <1>3
  <2> QED BY <1>5, <2>1
<1> QED BY <1>3, <1>4, <1>5, <1>6

LEMMA HeardTaken ==
  ASSUME NEW v \in Views, NEW w \in Views, HeardInv(v), NEW t \in Takens,
         w.po = Append(v.po, t), w.retired = v.retired,
         IsPrinted(t), v.at <= t.from, t.from < w.at
  PROVE  HeardInv(w)
<1> DEFINE n == Len(v.retired) + 1
           m == Len(v.po)
<1>1. /\ n \in Nat \ {0} /\ m \in Nat /\ v.at \in Nat /\ w.at \in Nat /\ t.from \in Nat
      /\ Len(Heard(v)) = n /\ Len(Heard(w)) = n
      /\ \A b \in 1 .. n - 1 : Heard(w)[b] = Heard(v)[b]
      /\ Heard(v)[n] = v.po /\ Heard(w)[n] = w.po
      /\ Len(w.po) = m + 1 /\ w.po[m + 1] = t /\ \A i \in 1 .. m : w.po[i] = v.po[i]
  <2>1. /\ n \in Nat \ {0} /\ v.at \in Nat /\ w.at \in Nat
        /\ Len(Heard(v)) = n /\ Len(Heard(w)) = n
        /\ \A b \in 1 .. n - 1 : Heard(w)[b] = Heard(v)[b]
        /\ Heard(v)[n] = v.po /\ Heard(w)[n] = w.po
    <3>1. Len(v.retired) \in Nat /\ v.at \in Nat /\ w.at \in Nat
      BY HeardFacts
    <3>2. Len(Heard(v)) = n /\ Heard(v)[n] = v.po
      BY HeardFacts
    <3>3. Len(Heard(w)) = n /\ Heard(w)[n] = w.po
      BY HeardFacts
    <3>4. \A b \in 1 .. n - 1 : b \in 1 .. Len(v.retired)
      BY <3>1
    <3>5. \A b \in 1 .. n - 1 : Heard(w)[b] = w.retired[b] /\ Heard(v)[b] = v.retired[b]
      BY <3>4, HeardFacts
    <3> QED BY <3>1, <3>2, <3>3, <3>5
  <2>2. v.po \in Seq(Takens)
    BY HeardFacts
  <2>3. m \in Nat /\ Len(w.po) = m + 1 /\ w.po[m + 1] = t /\ \A i \in 1 .. m : w.po[i] = v.po[i]
    BY <2>2
  <2>4. t.from \in Nat
    BY DEF Takens
  <2> QED BY <2>1, <2>3, <2>4
<1>2. \A b \in 1 .. n : \A i \in 1 .. Len(Heard(v)[b]) :
        /\ Heard(v)[b][i].from \in Nat
        /\ IsPrinted(Heard(v)[b][i]) /\ Heard(v)[b][i].from < v.at
        /\ \A c \in 1 .. b : \A j \in 1 .. Len(Heard(v)[c]) :
             c < b \/ j < i => Heard(v)[c][j].from < Heard(v)[b][i].from
  BY <1>1, HeardFacts DEF HeardInv
<1> HIDE DEF n, m
<1>3. ASSUME NEW b \in 1 .. n, NEW i \in 1 .. Len(Heard(w)[b])
      PROVE  \/ b = n /\ i = m + 1 /\ Heard(w)[b][i] = t
             \/ i \in 1 .. Len(Heard(v)[b]) /\ Heard(w)[b][i] = Heard(v)[b][i]
  <2>1. CASE b = n
    BY <1>1, <2>1
  <2>2. CASE b # n
    BY <1>1, <2>2
  <2> QED BY <2>1, <2>2
<1> SUFFICES ASSUME NEW b \in 1 .. n, NEW i \in 1 .. Len(Heard(w)[b])
             PROVE  /\ IsPrinted(Heard(w)[b][i]) /\ Heard(w)[b][i].from < w.at
                    /\ \A c \in 1 .. b : \A j \in 1 .. Len(Heard(w)[c]) :
                         c < b \/ j < i => Heard(w)[c][j].from < Heard(w)[b][i].from
  BY <1>1 DEF HeardInv
<1>4. CASE b = n /\ i = m + 1 /\ Heard(w)[b][i] = t
  <2>1. ASSUME NEW c \in 1 .. b, NEW j \in 1 .. Len(Heard(w)[c]), c < b \/ j < i
        PROVE  Heard(w)[c][j].from < t.from
    <3>1. c \in 1 .. n /\ ~(c = n /\ j = m + 1)
      BY <1>1, <1>4, <2>1
    <3>2. j \in 1 .. Len(Heard(v)[c]) /\ Heard(w)[c][j] = Heard(v)[c][j]
      BY <1>3, <3>1
    <3>3. Heard(v)[c][j].from \in Nat /\ Heard(v)[c][j].from < v.at
      BY <1>2, <3>1, <3>2
    <3> QED BY <1>1, <3>2, <3>3
  <2> QED BY <1>4, <2>1
<1>5. CASE i \in 1 .. Len(Heard(v)[b]) /\ Heard(w)[b][i] = Heard(v)[b][i]
  <2>1. /\ IsPrinted(Heard(w)[b][i]) /\ Heard(w)[b][i].from < v.at /\ Heard(w)[b][i].from \in Nat
    BY <1>2, <1>5
  <2>2. Heard(w)[b][i].from < w.at
    BY <1>1, <2>1
  <2>3. ASSUME NEW c \in 1 .. b, NEW j \in 1 .. Len(Heard(w)[c]), c < b \/ j < i
        PROVE  Heard(w)[c][j].from < Heard(w)[b][i].from
    <3>1. c \in 1 .. n
      BY <1>1
    <3>2. ~(c = n /\ j = m + 1)
      <4>1. CASE b = n
        <5>1. Len(Heard(v)[b]) = m
          BY <1>1, <4>1 DEF m
        <5> QED BY <1>1, <1>5, <2>3, <4>1, <5>1
      <4>2. CASE b # n
        BY <1>1, <4>2
      <4> QED BY <4>1, <4>2
    <3>3. j \in 1 .. Len(Heard(v)[c]) /\ Heard(w)[c][j] = Heard(v)[c][j]
      BY <1>3, <3>1, <3>2
    <3> QED BY <1>2, <1>5, <2>3, <3>3
  <2> QED BY <2>1, <2>2, <2>3
<1> QED BY <1>3, <1>4, <1>5

LEMMA HeardRound ==
  ASSUME Laid, NEW v \in Views, NEW end \in Nat, NEW behind \in Behinds,
         v.at < end, end <= Len(stream), HeardInv(v)
  PROVE  HeardInv(Round(v, end, behind))
<1> DEFINE w == Round(v, end, behind)
<1>1. w \in Views /\ v.at \in Nat /\ w.at \in Nat /\ v.at <= w.at
  BY RoundTypes DEF Views
<1> HIDE DEF w
<1>2. CASE Skips(v, w, end)
  <2>1. Heard(w) = Heard(v)
    BY <1>2 DEF Skips, Heard, Views
  <2> QED BY <1>1, <2>1, HeardSame DEF w
<1>3. ASSUME NEW k, NEW i, NEW j, Looks(v, w, end, behind, k, i, j)
      PROVE  HeardInv(w)
  <2>1. k \in 1 .. Len(lines) /\ lines[k].from \in Nat /\ Begun(k, w.at)
        /\ (i = 1 => ~Begun(k, v.at))
    BY <1>3, LineFacts DEF Looks
  <2>2. CASE Prompts(v, w, k)
    <3>1. w.po = << >> /\ w.retired = Append(v.retired, v.po)
      BY <2>2, RetireFacts DEF Prompts, Views
    <3> QED BY <1>1, <3>1, HeardRetired
  <2>3. ASSUME NEW x, Takes(v, w, k, x), i = 1 PROVE HeardInv(w)
    <3> DEFINE t == Taken(x, lines[k].from)
    <3>1. t \in Takens /\ t.output = x /\ t.from = lines[k].from
      BY <2>1, <2>3 DEF Takes, Takens, Taken
    <3>2. w.po = Append(v.po, t) /\ w.retired = v.retired
      BY <2>3 DEF Takes, Views
    <3>3. IsPrinted(t)
      <4>1. lines[k].place <= Len(BatchAt(k)) /\ IsBegunAs(x, BatchAt(k)[lines[k].place])
        BY <2>1, <2>3, LineFacts, BatchFacts DEF Takes
      <4> QED BY <2>1, <3>1, <4>1 DEF IsPrinted, BatchAt
    <3>4. v.at <= t.from /\ t.from < w.at
      BY <1>1, <2>1, <2>3, <3>1 DEF Begun
    <3> HIDE DEF t
    <3> QED BY <1>1, <3>1, <3>2, <3>3, <3>4, HeardTaken
  <2>4. CASE Drops(v, w)
    <3>1. Heard(w) = Heard(v)
      BY <2>4 DEF Drops, Heard, Views
    <3> QED BY <1>1, <3>1, HeardSame
  <2>5. Prompts(v, w, k) \/ (i = 1 /\ \E x : Takes(v, w, k, x)) \/ Drops(v, w)
    BY <1>3, LookCases
  <2> QED BY <2>2, <2>3, <2>4, <2>5
<1> QED BY <1>2, <1>3, RoundCases DEF w

LEMMA StillPrinted ==
  ASSUME StreamInv, NEW t, IsPrinted(t),
         Len(lines') \in Nat, \A k \in 1 .. Len(lines) : k \in 1 .. Len(lines') /\ lines'[k] = lines[k],
         \A b \in 1 .. Len(written) : written'[b] = written[b]
  PROVE  IsPrinted(t)'
<1>1. PICK k \in 1 .. Len(lines) :
        /\ lines[k].from = t.from
        /\ lines[k].place <= Len(written[lines[k].batch])
        /\ IsBegunAs(t.output, written[lines[k].batch][lines[k].place])
  BY DEF IsPrinted
<1>2. lines[k].batch \in 1 .. Len(written)
  BY DEF StreamInv, Laid
<1>3. lines'[k] = lines[k] /\ written'[lines[k].batch] = written[lines[k].batch]
      /\ k \in 1 .. Len(lines')
  BY <1>2
<1> QED BY <1>1, <1>3 DEF IsPrinted

LEMMA HeardStep ==
  ASSUME TypeInv, HeardInv(view), [Next]_vars
  PROVE  HeardInv(view)'
<1>1. ASSUME handled' = handled, po' = po, retired' = retired,
             Len(lines') \in Nat,
             \A k \in 1 .. Len(lines) : k \in 1 .. Len(lines') /\ lines'[k] = lines[k],
             \A b \in 1 .. Len(written) : written'[b] = written[b]
      PROVE  HeardInv(view)'
  <2>1. Heard(view)' = Heard(view) /\ view.at' = view.at
    BY <1>1 DEF Heard, view
  <2>2. \A t : IsPrinted(t) => IsPrinted(t)'
    BY <1>1, StillPrinted DEF TypeInv
  <2> QED BY <2>1, <2>2 DEF HeardInv
<1>2. CASE GdbReplies \/ GdbStops
  <2>1. PICK batch \in Batches : Say(batch)
    BY <1>2, GdbSays
  <2>2. UNCHANGED <<stream, lines, readVars, masterVars>>
    BY <1>2, GdbSays
  <2>3. written \in Seq(Batches) /\ written' = Append(written, batch) /\ Len(lines) \in Nat
    BY <2>1 DEF TypeInv, StreamInv, Laid, Say
  <2>4. \A b \in 1 .. Len(written) : written'[b] = written[b]
    BY <2>3
  <2> QED BY <1>1, <2>2, <2>3, <2>4 DEF masterVars
<1>3. CASE GdbPrints
  <2>1. UNCHANGED <<gdbVars, readVars, masterVars>>
    BY <1>3 DEF GdbPrints
  <2>2. StreamInv' /\ \A m \in 1 .. Len(lines) : m \in 1 .. Len(lines') /\ lines'[m] = lines[m]
    BY <1>3, StreamPrints DEF TypeInv
  <2>3. Len(lines') \in Nat
    BY <2>2 DEF StreamInv, Laid
  <2> QED BY <1>1, <2>1, <2>2, <2>3 DEF gdbVars, masterVars
<1>4. Len(lines) \in Nat
  BY DEF TypeInv, StreamInv, Laid
<1>5. CASE Read
  BY <1>1, <1>4, <1>5 DEF Read, gdbVars, wireVars
<1>6. CASE HandleDataGdb
  <2> DEFINE S == {v \in Views : HeardInv(v)}
  <2>1. Head(queue) \in Nat /\ Head(queue) <= Len(stream) /\ Laid
    BY <1>6, HeadFacts DEF TypeInv, HandleDataGdb, StreamInv
  <2>2. \A v \in S, behind \in Behinds :
          v.at < Head(queue) => Round(v, Head(queue), behind) \in S
    BY <2>1, HeardRound, RoundTypes
  <2>3. view \in S /\ S \subseteq Views
    BY DEF TypeInv
  <2>4. view' \in S
    <3> HIDE DEF S
    <3> QED BY <1>6, <2>2, <2>3, HandlerKeeps DEF TypeInv
  <2>5. lines' = lines /\ written' = written
    BY <1>6 DEF HandleDataGdb, gdbVars, wireVars
  <2> QED BY <2>4, <2>5 DEF HeardInv, IsPrinted
<1>7. CASE Resume \/ Insert
  BY <1>1, <1>4, <1>7 DEF Resume, Insert, gdbVars, wireVars, masterVars
<1>8. CASE UNCHANGED vars
  BY <1>1, <1>4, <1>8 DEF vars, gdbVars, wireVars, masterVars
<1> QED BY <1>2, <1>3, <1>5, <1>6, <1>7, <1>8 DEF Next

\* However reads cut the stream, and whatever memory holds behind a chunk, each record the
\* master has taken up was begun as one that GDB printed there, the results before a cut
\* as printed; none is taken up twice, none out of order (UIWindow::handle_data_gdb,
\* parse.c).
THEOREM HearsInOrder == Spec => []HeardInOrder
<1>1. Init => TypeInv /\ HeardInv(view)
  <2> SUFFICES ASSUME Init PROVE TypeInv /\ HeardInv(view)
    OBVIOUS
  <2>1. Heard(view) = << << >> >>
    BY DEF Init, view, Heard
  <2> QED BY <2>1, TypeInvInit DEF HeardInv
<1>2. TypeInv /\ HeardInv(view) /\ [Next]_vars => TypeInv' /\ HeardInv(view)'
  BY TypeInvStep, HeardStep
<1>3. TypeInv /\ HeardInv(view) => HeardInOrder
  BY DEF HeardInv, Heard, HeardInOrder, view
<1> QED BY <1>1, <1>2, <1>3, PTL DEF Spec

-----------------------------------------------------------------------------
(* The state shown is the one heard last *)

PromptLine(k) == lines[k].place = LinesOf(BatchAt(k))

\* No chunk ends behind the first symbol of a prompt.
WholePrompts(end) ==
  \A k \in 1 .. Len(lines) : PromptLine(k) => end # lines[k].from + 1

\* What is collected lies behind every prompt that was begun.
SinceInv(v) ==
  \A k \in 1 .. Len(lines) : PromptLine(k) /\ Begun(k, v.at) =>
    \A i \in 1 .. Len(v.po) : lines[k].from < v.po[i].from

\* A retired batch tells of one change at most, and the last one told is shown.
OneChange(taken) == \A i, j \in Changes(OutputsOf(taken)) : i = j
ShownInv(v) ==
  /\ \A b \in 1 .. Len(v.retired) : OneChange(v.retired[b])
  /\ \A b \in 1 .. Len(v.retired) : \A i \in Changes(OutputsOf(v.retired[b])) :
       (\A c \in b + 1 .. Len(v.retired) : Changes(OutputsOf(v.retired[c])) = {})
         => v.state = StateOf(v.retired[b][i].output)

\* A batch has one record that is known and changes the state, at most.
LEMMA BatchChanges ==
  ASSUME NEW batch \in Batches, NEW i \in 1 .. Len(batch), NEW j \in 1 .. Len(batch),
         Known(batch[i]), Known(batch[j]), ChangesState(batch[i]), ChangesState(batch[j])
  PROVE  i = j
<1>1. CASE batch = RunBatch
  BY <1>1 DEF RunBatch, Output, Known
<1>2. CASE batch = ErrorBatch
  <2>1. PICK x : ErrorBatch = <<x>>
    BY Zenon DEF ErrorBatch
  <2> QED BY <1>2, <2>1
<1>3. CASE batch = StopBatch
  <2>1. PICK x, y : StopBatch = <<Output("~", "stream", x), y>>
    BY Zenon DEF StopBatch
  <2> QED BY <1>3, <2>1 DEF Output, ChangesState
<1>4. CASE batch = ExitBatch
  <2>1. PICK x, y : ExitBatch = <<Output("=", "thread-exited", x), y>>
    BY Zenon DEF ExitBatch
  <2> QED BY <1>4, <2>1 DEF Output, ChangesState
<1>5. ASSUME NEW n \in Numbers, batch = DoneBatch(n) PROVE i = j
  <2>1. PICK x : DoneBatch(n) = <<x>>
    BY Zenon DEF DoneBatch
  <2> QED BY <1>5, <2>1
<1> QED BY <1>1, <1>2, <1>3, <1>4, <1>5 DEF Batches

\* Lines that begin at the same place are one line, and they begin in their order.
LEMMA LinesInOrder ==
  ASSUME Laid, NEW k \in 1 .. Len(lines), NEW m \in 1 .. Len(lines)
  PROVE  k < m <=> lines[k].from < lines[m].from
<1>1. \A a, b \in 1 .. Len(lines) : a < b => lines[a].from < lines[b].from
  <2> SUFFICES ASSUME NEW a \in 1 .. Len(lines), NEW b \in 1 .. Len(lines), a < b
               PROVE  lines[a].from < lines[b].from
    OBVIOUS
  <2>1. TextEnd(a) + 2 <= lines[b].from
    BY DEF Laid
  <2>2. TextEnd(a) \in Nat /\ lines[a].from \in Nat /\ lines[a].from < TextEnd(a)
        /\ lines[b].from \in Nat
    BY LineFacts
  <2> QED BY <2>1, <2>2
<1>2. lines[k].from \in Nat /\ lines[m].from \in Nat
  BY LineFacts
<1>3. k < m \/ m < k \/ k = m
  OBVIOUS
<1> QED BY <1>1, <1>2, <1>3

\* Between the lines of two batches there is a prompt.
LEMMA PromptBetween ==
  ASSUME StreamInv, NEW k \in 1 .. Len(lines), NEW m \in 1 .. Len(lines),
         lines[k].batch < lines[m].batch, ~PromptLine(k)
  PROVE  \E p \in 1 .. Len(lines) : PromptLine(p) /\ k < p /\ p < m
                                    /\ lines[p].batch = lines[k].batch
<1> DEFINE b == lines[k].batch
<1>1. b \in 1 .. Len(written) /\ lines[m].batch \in 1 .. Len(written) /\ b < Len(written)
  BY DEF StreamInv, Laid
<1>2. LinesOf(written[b]) \in 2 .. 3
  <2>1. written[b] \in Batches
    BY <1>1 DEF StreamInv, Laid
  <2> QED BY <2>1, BatchFacts
<1>3. PICK p \in 1 .. Len(lines) : lines[p].batch = b /\ lines[p].place = LinesOf(written[b])
  <2>1. LinesOf(written[b]) \in 1 .. LinesOf(written[b])
    BY <1>2
  <2> QED BY <1>1, <2>1 DEF StreamInv, Ordered
<1>4. PromptLine(p)
  BY <1>3 DEF PromptLine, BatchAt
<1>5. \A a, c \in 1 .. Len(lines) : a < c =>
        \/ lines[a].batch < lines[c].batch
        \/ lines[a].batch = lines[c].batch /\ lines[a].place < lines[c].place
  BY DEF StreamInv, Ordered
<1>6. \A a \in 1 .. Len(lines) : lines[a].batch \in Int
  BY DEF StreamInv, Laid
<1>7. lines[k].place \in Int /\ lines[k].place <= LinesOf(written[b])
  BY DEF StreamInv, Laid
<1>8. p # k /\ p # m
  BY <1>3, <1>4, <1>6
<1>9. ~(p < k)
  <2> SUFFICES ASSUME p < k PROVE FALSE
    OBVIOUS
  <2>1. \/ lines[p].batch < lines[k].batch
        \/ lines[p].batch = lines[k].batch /\ lines[p].place < lines[k].place
    BY <1>5
  <2> QED BY <1>2, <1>3, <1>6, <1>7, <2>1
<1>10. ~(m < p)
  <2> SUFFICES ASSUME m < p PROVE FALSE
    OBVIOUS
  <2>1. lines[m].batch < lines[p].batch \/ lines[m].batch = lines[p].batch
    BY <1>5
  <2> QED BY <1>3, <1>6, <2>1
<1> QED BY <1>3, <1>4, <1>8, <1>9, <1>10

\* As long as nothing was collected across a prompt, there is one change at most.
LEMMA CollectedOneChange ==
  ASSUME StreamInv, NEW v \in Views, HeardInv(v), SinceInv(v)
  PROVE  OneChange(v.po)
<1>1. v.po \in Seq(Takens) /\ Len(v.po) \in Nat /\ v.at \in Nat
      /\ DOMAIN OutputsOf(v.po) = 1 .. Len(v.po)
      /\ \A i \in 1 .. Len(v.po) : /\ OutputsOf(v.po)[i] = v.po[i].output
                                   /\ v.po[i].output \in Hearable /\ v.po[i].from \in Nat
  <2>1. v.po \in Seq(Takens) /\ v.at \in Nat
    BY DEF Views
  <2> QED BY <2>1, OutputsFacts
<1>2. \A i \in 1 .. Len(v.po) : /\ IsPrinted(v.po[i]) /\ v.po[i].from < v.at
                                /\ \A j \in 1 .. i - 1 : v.po[j].from < v.po[i].from
  <2>1. Len(v.retired) \in Nat /\ Len(Heard(v)) = Len(v.retired) + 1
        /\ Heard(v)[Len(v.retired) + 1] = v.po
    BY HeardFacts
  <2>2. Len(v.retired) + 1 \in 1 .. Len(Heard(v))
    BY <2>1
  <2>3. ASSUME NEW i \in 1 .. Len(v.po)
        PROVE  /\ IsPrinted(v.po[i]) /\ v.po[i].from < v.at
               /\ \A j \in 1 .. i - 1 : v.po[j].from < v.po[i].from
    <3>1. /\ IsPrinted(v.po[i]) /\ v.po[i].from < v.at
          /\ \A j \in 1 .. Len(v.po) : j < i => v.po[j].from < v.po[i].from
      BY <2>1, <2>2 DEF HeardInv
    <3>2. \A j \in 1 .. i - 1 : j \in 1 .. Len(v.po) /\ j < i
      BY <1>1
    <3> QED BY <3>1, <3>2
  <2> QED BY <2>3
<1>3. ASSUME NEW i \in 1 .. Len(v.po), NEW j \in 1 .. Len(v.po), i < j,
             ChangesState(v.po[i].output), ChangesState(v.po[j].output)
      PROVE  FALSE
  <2>1. PICK k \in 1 .. Len(lines) :
          /\ lines[k].from = v.po[i].from /\ lines[k].place <= Len(BatchAt(k))
          /\ IsBegunAs(v.po[i].output, BatchAt(k)[lines[k].place])
    BY <1>2 DEF IsPrinted, BatchAt
  <2>2. PICK m \in 1 .. Len(lines) :
          /\ lines[m].from = v.po[j].from /\ lines[m].place <= Len(BatchAt(m))
          /\ IsBegunAs(v.po[j].output, BatchAt(m)[lines[m].place])
    BY <1>2 DEF IsPrinted, BatchAt
  <2>3. Laid
    BY DEF StreamInv
  <2>4. k < m
    <3>1. i \in 1 .. j - 1
      BY <1>3
    <3> QED BY <1>2, <2>1, <2>2, <2>3, <3>1, LinesInOrder
  <2>5. lines[k].place \in 1 .. Len(BatchAt(k)) /\ lines[m].place \in 1 .. Len(BatchAt(m))
        /\ BatchAt(k) \in Batches /\ Len(BatchAt(k)) \in Nat /\ ~PromptLine(k)
    <3>1. BatchAt(k) \in Batches /\ BatchAt(m) \in Batches
      BY <2>3, LineFacts DEF BatchAt
    <3>2. Len(BatchAt(k)) \in Nat /\ Len(BatchAt(m)) \in Nat
      BY <3>1, BatchFacts
    <3>3. lines[k].place \in 1 .. LinesOf(BatchAt(k)) /\ lines[m].place \in 1 .. LinesOf(BatchAt(m))
      BY <2>3 DEF Laid, BatchAt
    <3> QED BY SMTT(20), <2>1, <2>2, <3>1, <3>2, <3>3 DEF PromptLine, LinesOf
  <2>6. \/ lines[k].batch < lines[m].batch
        \/ lines[k].batch = lines[m].batch /\ lines[k].place < lines[m].place
    BY <2>4 DEF StreamInv, Ordered
  <2>7. CASE lines[k].batch < lines[m].batch
    <3>1. PICK p \in 1 .. Len(lines) : PromptLine(p) /\ k < p /\ p < m
      BY <2>5, <2>7, PromptBetween
    <3>2. lines[k].from < lines[p].from /\ lines[p].from < lines[m].from
      BY <2>3, <3>1, LinesInOrder
    <3>3. lines[k].from \in Nat /\ lines[p].from \in Nat /\ lines[m].from \in Nat
      BY <2>3, LineFacts
    <3>4. v.po[j].from < v.at
      BY <1>2
    <3>5. Begun(p, v.at)
      BY SMTT(20), <1>1, <2>2, <3>2, <3>3, <3>4 DEF Begun
    <3>6. lines[p].from < v.po[i].from
      BY <3>1, <3>5 DEF SinceInv
    <3> QED BY <2>1, <3>2, <3>3, <3>6
  <2>8. CASE lines[k].batch = lines[m].batch /\ lines[k].place < lines[m].place
    <3>1. BatchAt(m) = BatchAt(k)
      BY <2>8 DEF BatchAt
    <3>2. v.po[i].output \in Hearable /\ v.po[j].output \in Hearable
      BY <1>1
    <3>3. Known(v.po[i].output) /\ Known(v.po[j].output)
      BY <3>2, HearableKinds
    <3>4. Known(BatchAt(k)[lines[k].place]) /\ ChangesState(BatchAt(k)[lines[k].place])
      BY <1>3, <2>1, <3>3 DEF IsBegunAs, Alike, Known, ChangesState
    <3>5. Known(BatchAt(k)[lines[m].place]) /\ ChangesState(BatchAt(k)[lines[m].place])
      BY <1>3, <2>2, <3>1, <3>3 DEF IsBegunAs, Alike, Known, ChangesState
    <3>6. lines[k].place = lines[m].place
      BY <2>5, <3>1, <3>4, <3>5, BatchChanges
    <3> QED BY <2>5, <2>8, <3>6
  <2> QED BY <2>6, <2>7, <2>8
<1>4. Changes(OutputsOf(v.po)) = {i \in 1 .. Len(v.po) : ChangesState(v.po[i].output)}
  BY <1>1 DEF Changes
<1>5. ASSUME NEW i \in Changes(OutputsOf(v.po)), NEW j \in Changes(OutputsOf(v.po)), i # j
      PROVE  FALSE
  <2>1. /\ i \in 1 .. Len(v.po) /\ ChangesState(v.po[i].output)
        /\ j \in 1 .. Len(v.po) /\ ChangesState(v.po[j].output)
    BY <1>4
  <2>2. i < j \/ j < i
    BY <1>5, <2>1
  <2> QED BY <1>3, <2>1, <2>2
<1> QED BY <1>5 DEF OneChange

\* What mi_retire_response and the two parse functions make of one batch.
LEMMA StateRetired ==
  ASSUME NEW v \in Views, OneChange(v.po)
  PROVE  /\ Changes(OutputsOf(v.po)) = {} => Retire(v).state = v.state
         /\ \A i \in Changes(OutputsOf(v.po)) : Retire(v).state = StateOf(v.po[i].output)
<1> DEFINE outputs == OutputsOf(v.po)
           state == IF FirstStopExited(outputs) THEN "EXITED" ELSE LastChange(outputs, v.state)
<1>1. Retire(v).state = state
  <2>1. "state" \in DOMAIN v
    BY DEF Views
  <2> QED BY <2>1 DEF Retire
<1>2. /\ DOMAIN outputs = 1 .. Len(v.po)
      /\ \A i \in 1 .. Len(v.po) : outputs[i] = v.po[i].output /\ outputs[i] \in Hearable
  <2>1. v.po \in Seq(Takens)
    BY DEF Views
  <2> QED BY <2>1, OutputsFacts
<1> HIDE DEF outputs
<1>3. Stops(outputs) \subseteq Changes(outputs)
  BY DEF Stops, Changes, IsStop, ChangesState
<1>4. CASE Changes(outputs) = {}
  <2>1. ~FirstStopExited(outputs) /\ LastChange(outputs, v.state) = v.state
    BY <1>3, <1>4 DEF FirstStopExited, LastChange
  <2> QED BY <1>1, <1>4, <2>1 DEF outputs
<1>5. ASSUME NEW i \in Changes(outputs) PROVE state = StateOf(v.po[i].output)
  <2>1. Changes(outputs) = {i}
    BY <1>5 DEF OneChange, outputs
  <2>2. i \in 1 .. Len(v.po) /\ outputs[i] = v.po[i].output /\ outputs[i] \in Hearable
        /\ ChangesState(outputs[i])
    BY <1>2, <1>5 DEF Changes
  <2>3. Greatest({i}) = i /\ Least({i}) = i
    BY <2>2 DEF Greatest, Least
  <2>4. LastChange(outputs, v.state) = IF IsRunning(outputs[i]) THEN "RUNNING" ELSE "STOPPED"
    BY <2>1, <2>3 DEF LastChange
  <2>5. CASE IsRunning(outputs[i])
    <3>1. i \notin Stops(outputs)
      BY <2>5 DEF Stops, IsStop, IsRunning
    <3>2. Stops(outputs) = {}
      BY <1>3, <2>1, <3>1
    <3> QED BY <2>2, <2>4, <2>5, <3>2 DEF FirstStopExited, StateOf
  <2>6. CASE ~IsRunning(outputs[i])
    <3>1. outputs[i].class = "stopped"
      BY <2>2, <2>6 DEF ChangesState, IsRunning
    <3>2. IsStop(outputs[i])
      BY <2>2, <3>1, HearableKinds DEF IsStop
    <3>3. Stops(outputs) = {i}
      BY <1>2, <1>3, <2>1, <2>2, <3>2 DEF Stops
    <3>4. FirstStop(outputs) = outputs[i]
      BY <2>3, <3>3 DEF FirstStop
    <3>5. FirstStopExited(outputs) <=> Exited(outputs[i])
      BY <3>3, <3>4 DEF FirstStopExited
    <3> QED BY <2>2, <2>4, <2>6, <3>5 DEF StateOf
  <2> QED BY <2>5, <2>6
<1> QED BY <1>1, <1>4, <1>5 DEF outputs

LEMMA ShownRetired ==
  ASSUME NEW v \in Views, ShownInv(v), OneChange(v.po), NEW w,
         w.retired = Append(v.retired, v.po), w.state = Retire(v).state
  PROVE  ShownInv(w)
<1> DEFINE n == Len(v.retired)
<1>1. /\ n \in Nat /\ Len(w.retired) = n + 1 /\ w.retired[n + 1] = v.po
      /\ \A b \in 1 .. n : w.retired[b] = v.retired[b]
  <2>1. v.retired \in Seq(Seq(Takens)) /\ v.po \in Seq(Takens)
    BY DEF Views
  <2> QED BY <2>1
<1>2. \A b \in 1 .. n + 1 : b = n + 1 \/ b \in 1 .. n
  BY <1>1
<1>3. \A b \in 1 .. n : \A c \in b + 1 .. n : c \in 1 .. n /\ c \in b + 1 .. n + 1
  BY <1>1
<1>4. \A b \in 1 .. n : n + 1 \in b + 1 .. n + 1
  BY <1>1
<1> HIDE DEF n
<1>5. ASSUME NEW b \in 1 .. n + 1 PROVE OneChange(w.retired[b])
  BY <1>1, <1>2 DEF ShownInv, n
<1>6. ASSUME NEW b \in 1 .. n + 1, NEW i \in Changes(OutputsOf(w.retired[b])),
             \A c \in b + 1 .. n + 1 : Changes(OutputsOf(w.retired[c])) = {}
      PROVE  w.state = StateOf(w.retired[b][i].output)
  <2>1. CASE b = n + 1
    BY <1>1, <1>6, <2>1, StateRetired
  <2>2. CASE b \in 1 .. n
    <3>1. Changes(OutputsOf(v.po)) = {}
      BY <1>1, <1>4, <1>6, <2>2
    <3>2. w.state = v.state
      BY <3>1, StateRetired
    <3>3. i \in Changes(OutputsOf(v.retired[b])) /\ w.retired[b] = v.retired[b]
      BY <1>1, <1>6, <2>2
    <3>4. \A c \in b + 1 .. n : Changes(OutputsOf(v.retired[c])) = {}
      BY <1>1, <1>3, <1>6, <2>2
    <3>5. v.state = StateOf(v.retired[b][i].output)
      BY <2>2, <3>3, <3>4 DEF ShownInv, n
    <3> QED BY <3>2, <3>3, <3>5
  <2> QED BY <1>2, <2>1, <2>2
<1> QED BY <1>1, <1>5, <1>6 DEF ShownInv

LEMMA PromptText ==
  ASSUME Laid, NEW k \in 1 .. Len(lines), PromptLine(k)
  PROVE  Len(TextAt(k)) = 3 /\ lines[k].place \notin 1 .. Len(BatchAt(k))
         /\ TextAt(k) = Prompt
<1>1. Len(BatchAt(k)) \in Nat /\ lines[k].place = Len(BatchAt(k)) + 1
  BY LineFacts, BatchFacts DEF BatchAt, PromptLine, LinesOf
<1>2. TextAt(k) = Prompt
  BY <1>1 DEF TextAt, TextOf, BatchAt
<1> QED BY <1>1, <1>2 DEF Prompt

LEMMA ShownRound ==
  ASSUME StreamInv, NEW v \in Views, NEW end \in Nat, NEW behind \in Behinds,
         v.at < end, end <= Len(stream), WholePrompts(end),
         HeardInv(v), SinceInv(v), ShownInv(v)
  PROVE  SinceInv(Round(v, end, behind)) /\ ShownInv(Round(v, end, behind))
<1> DEFINE w == Round(v, end, behind)
<1>1. w \in Views /\ v.at \in Nat /\ w.at \in Nat /\ v.at <= w.at /\ Laid
  <2>1. Laid
    BY DEF StreamInv
  <2>2. w \in Views /\ v.at < w.at
    BY <2>1, RoundTypes
  <2> HIDE DEF w
  <2>3. v.at \in Nat /\ w.at \in Nat
    BY <2>2 DEF Views
  <2> QED BY <2>1, <2>2, <2>3
<1> HIDE DEF w
<1>2. CASE Skips(v, w, end)
  <2>1. w.at = end /\ w.po = v.po /\ w.retired = v.retired /\ w.state = v.state
    BY <1>2 DEF Skips, Views
  <2>2. SinceInv(w)
    BY <1>2, <2>1 DEF Skips, SinceInv
  <2>3. ShownInv(w)
    BY <2>1 DEF ShownInv
  <2> QED BY <2>2, <2>3 DEF w
<1>3. ASSUME NEW k, NEW i, NEW j, Looks(v, w, end, behind, k, i, j)
      PROVE  SinceInv(w) /\ ShownInv(w)
  <2>1. /\ k \in 1 .. Len(lines) /\ lines[k].from \in Nat
        /\ i \in 1 .. Len(TextAt(k)) + 1 /\ j \in i - 1 .. Len(TextAt(k))
        /\ (i = 1 => ~Begun(k, v.at) /\ 1 <= j) /\ (i # 1 => Begun(k, v.at))
        /\ \A m \in 1 .. Len(lines) : Begun(m, w.at) <=> Begun(m, v.at) \/ m = k
        /\ (j < Len(TextAt(k)) => end = lines[k].from + j)
    BY <1>1, <1>3, LineFacts DEF Looks
  <2>2. PromptLine(k) /\ i = 1 => j >= 2
    <3> SUFFICES ASSUME PromptLine(k), i = 1, j < 2 PROVE FALSE
      BY <2>1
    <3>1. Len(TextAt(k)) = 3 /\ j = 1
      BY <1>1, <2>1, PromptText
    <3>2. end = lines[k].from + 1
      BY <2>1, <3>1
    <3> QED BY <2>1, <3>2 DEF WholePrompts
  <2>3. CASE Prompts(v, w, k)
    <3>1. w.po = << >> /\ w.retired = Append(v.retired, v.po) /\ w.state = Retire(v).state
      BY <2>3, RetireFacts DEF Prompts, Views
    <3>2. SinceInv(w)
      BY <3>1 DEF SinceInv
    <3>3. OneChange(v.po)
      BY CollectedOneChange
    <3> QED BY <3>1, <3>2, <3>3, ShownRetired
  <2>4. CASE ~PromptLine(k) /\ i = 1 /\ \E x : Takes(v, w, k, x)
    <3>1. PICK x : Takes(v, w, k, x)
      BY <2>4
    <3> DEFINE t == Taken(x, lines[k].from)
    <3>2. w.po = Append(v.po, t) /\ w.retired = v.retired /\ w.state = v.state
      BY <3>1 DEF Takes, Views
    <3>3. v.po \in Seq(Takens) /\ t \in Takens /\ t.from = lines[k].from
      BY <2>1, <3>1 DEF Takes, Takens, Taken, Views
    <3> HIDE DEF t
    <3>4. /\ Len(w.po) = Len(v.po) + 1 /\ Len(v.po) \in Nat /\ w.po[Len(v.po) + 1] = t
          /\ \A q \in 1 .. Len(v.po) : w.po[q] = v.po[q]
      BY <3>2, <3>3
    <3>5. ASSUME NEW m \in 1 .. Len(lines), PromptLine(m), Begun(m, w.at),
                 NEW q \in 1 .. Len(w.po)
          PROVE  lines[m].from < w.po[q].from
      <4>1. m # k /\ Begun(m, v.at)
        BY <2>1, <2>4, <3>5
      <4>2. lines[m].from \in Nat
        BY <1>1, LineFacts
      <4>3. CASE q = Len(v.po) + 1
        <5>1. w.po[q].from = lines[k].from
          BY <3>3, <3>4, <4>3
        <5>2. ~Begun(k, v.at) /\ Begun(m, v.at)
          BY <2>1, <2>4, <4>1
        <5>3. v.at <= lines[k].from /\ lines[m].from < v.at
          BY SMTT(20), <1>1, <2>1, <4>2, <5>2 DEF Begun
        <5> QED BY SMTT(20), <1>1, <2>1, <4>2, <5>1, <5>3
      <4>4. CASE q # Len(v.po) + 1
        <5>1. q \in 1 .. Len(v.po)
          BY <3>4, <4>4
        <5> QED BY <3>4, <3>5, <4>1, <5>1 DEF SinceInv
      <4> QED BY <4>3, <4>4
    <3>6. SinceInv(w)
      BY <3>5 DEF SinceInv
    <3>7. ShownInv(w)
      BY <3>2 DEF ShownInv
    <3> QED BY <3>6, <3>7
  <2>5. CASE Drops(v, w) /\ ~(PromptLine(k) /\ i = 1)
    <3>1. w.po = v.po /\ w.retired = v.retired /\ w.state = v.state
      BY <2>5 DEF Drops, Views
    <3>2. \A m \in 1 .. Len(lines) : PromptLine(m) /\ Begun(m, w.at) => Begun(m, v.at)
      BY <2>1, <2>5
    <3>3. SinceInv(w)
      BY <3>1, <3>2 DEF SinceInv
    <3>4. ShownInv(w)
      BY <3>1 DEF ShownInv
    <3> QED BY <3>3, <3>4
  <2>6. \/ Prompts(v, w, k)
        \/ ~PromptLine(k) /\ i = 1 /\ \E x : Takes(v, w, k, x)
        \/ Drops(v, w) /\ ~(PromptLine(k) /\ i = 1)
    BY <1>1, <1>3, <2>2, LookCases DEF PromptLine
  <2> QED BY <2>3, <2>4, <2>5, <2>6
<1> QED BY <1>1, <1>2, <1>3, RoundCases DEF w

\* Lines stay where they are, and a new one begins at the end of the stream.
LEMMA LinesKept ==
  ASSUME TypeInv, [Next]_vars
  PROVE  /\ Len(lines') \in Nat
         /\ \A k \in 1 .. Len(lines) :
              /\ k \in 1 .. Len(lines') /\ lines'[k] = lines[k]
              /\ written'[lines[k].batch] = written[lines[k].batch]
         /\ \A k \in 1 .. Len(lines') : k \in 1 .. Len(lines) \/ lines'[k].from = Len(stream)
<1>1. /\ Len(lines) \in Nat /\ written \in Seq(Batches)
      /\ \A k \in 1 .. Len(lines) : lines[k].batch \in 1 .. Len(written)
  BY DEF TypeInv, StreamInv, Laid
<1>2. CASE GdbReplies \/ GdbStops
  <2>1. PICK batch \in Batches : Say(batch)
    BY <1>2, GdbSays
  <2>2. lines' = lines
    BY <1>2, GdbSays
  <2>3. \A b \in 1 .. Len(written) : written'[b] = written[b]
    BY <1>1, <2>1 DEF Say
  <2> QED BY <1>1, <2>2, <2>3
<1>3. CASE GdbPrints
  <2>1. written' = written
    BY <1>3 DEF GdbPrints, gdbVars
  <2>2. PICK k : k = Len(lines) + 1
    OBVIOUS
  <2>3. /\ Len(lines') = k /\ lines'[k].from = Len(stream)
        /\ \A m \in 1 .. Len(lines) : lines'[m] = lines[m]
    BY <1>3, <2>2, Prints DEF TypeInv
  <2> QED BY <1>1, <2>1, <2>2, <2>3
<1>4. CASE lines' = lines /\ written' = written
  BY <1>1, <1>4
<1>5. Read \/ HandleDataGdb \/ Resume \/ Insert \/ UNCHANGED vars => lines' = lines /\ written' = written
  BY DEF Read, HandleDataGdb, Resume, Insert, vars, gdbVars, wireVars
<1> QED BY <1>2, <1>3, <1>4, <1>5 DEF Next

\* While no prompt was cut, no chunk cuts one.
PromptInv == prompt_cut \/ \A q \in 1 .. Len(queue) : WholePrompts(queue[q])

\* A queue that is served holds what it held.
LEMMA QueueServed ==
  ASSUME queue \in Seq(Nat), queue' = queue \/ (queue # << >> /\ queue' = Tail(queue))
  PROVE  \A q \in 1 .. Len(queue') : \E p \in 1 .. Len(queue) : queue'[q] = queue[p]
<1>1. CASE queue' = queue
  BY <1>1
<1>2. CASE queue # << >> /\ queue' = Tail(queue)
  <2>1. /\ Len(queue) \in Nat \ {0} /\ Len(queue') = Len(queue) - 1
        /\ \A q \in 1 .. Len(queue') : queue'[q] = queue[q + 1]
    BY <1>2
  <2>2. \A q \in 1 .. Len(queue') : q + 1 \in 1 .. Len(queue)
    BY <2>1
  <2> QED BY <2>1, <2>2
<1> QED BY <1>1, <1>2

LEMMA PromptStep ==
  ASSUME TypeInv, PromptInv, [Next]_vars
  PROVE  PromptInv' /\ (prompt_cut => prompt_cut')
<1> DEFINE Later(n) == \A k \in 1 .. Len(lines') : PromptLine(k)' => n # lines'[k].from + 1
<1>1. /\ Len(stream) \in Nat /\ queue \in Seq(Nat) /\ read \in Nat /\ read <= Len(stream)
      /\ \A q \in 1 .. Len(queue) : queue[q] \in Nat /\ queue[q] <= read
      /\ Len(queue) \in Nat
  BY DEF TypeInv, QueueInv, StreamInv, Laid
<1>2. \A n \in Nat : n <= Len(stream) /\ WholePrompts(n) => Later(n)
  <2> SUFFICES ASSUME NEW n \in Nat, n <= Len(stream), WholePrompts(n),
                      NEW k \in 1 .. Len(lines'), PromptLine(k)'
               PROVE  n # lines'[k].from + 1
    BY DEF WholePrompts
  <2>1. CASE k \in 1 .. Len(lines)
    <3>1. lines'[k] = lines[k] /\ PromptLine(k)
      BY <2>1, LinesKept DEF PromptLine, BatchAt
    <3> QED BY <2>1, <3>1 DEF WholePrompts
  <2>2. CASE k \notin 1 .. Len(lines)
    <3>1. lines'[k].from = Len(stream)
      BY <2>2, LinesKept
    <3> QED BY <1>1, <3>1
  <2> QED BY <2>1, <2>2
<1>3. CASE Read
  <2>1. PICK n \in read + 1 .. Len(stream) :
          /\ prompt_cut' = (prompt_cut \/ (CutsLine(n) /\ stream[n] = "(gd"))
          /\ queue' = Append(queue, n)
    BY <1>3 DEF Read
  <2>2. n \in Nat /\ n <= Len(stream)
    BY <1>1, <2>1
  <2>3. ASSUME ~prompt_cut' PROVE WholePrompts(n)
    <3> SUFFICES ASSUME NEW k \in 1 .. Len(lines), PromptLine(k), n = lines[k].from + 1
                 PROVE  FALSE
      BY DEF WholePrompts
    <3>1. Laid
      BY DEF TypeInv, StreamInv
    <3>2. TextAt(k) = Prompt /\ Len(TextAt(k)) = 3
      BY <3>1, PromptText
    <3>3. lines[k].from \in Nat /\ TextEnd(k) = lines[k].from + 3 /\ TextEnd(k) + 2 <= Len(stream)
      BY <3>1, <3>2, LineFacts DEF Laid, Lies
    <3>4. \A p \in 1 .. 3 : stream[lines[k].from + p] = Prompt[p]
      BY <3>1, <3>2, LineFacts
    <3>5. stream[lines[k].from + 1] = "(gd" /\ stream[lines[k].from + 2] = "b)"
      BY <3>4 DEF Prompt
    <3>6. lines[k].from + 2 = n + 1 /\ n < Len(stream)
      BY SMTT(20), <1>1, <3>3
    <3>7. stream[n] = "(gd" /\ stream[n + 1] = "b)"
      BY <3>5, <3>6
    <3>8. CutsLine(n)
      BY <3>6, <3>7 DEF CutsLine
    <3> QED BY <2>1, <2>3, <3>7, <3>8
  <2>4. ASSUME ~prompt_cut', NEW q \in 1 .. Len(queue') PROVE Later(queue'[q])
    <3> HIDE DEF Later
    <3>1. ~prompt_cut
      BY <2>1, <2>4
    <3>2. CASE q \in 1 .. Len(queue)
      <4>1. queue'[q] = queue[q]
        BY <1>1, <2>1, <2>2, <3>2
      <4>2. WholePrompts(queue[q]) /\ queue[q] \in Nat /\ queue[q] <= Len(stream)
        BY <1>1, <3>1, <3>2 DEF PromptInv
      <4> QED BY <1>2, <4>1, <4>2
    <3>3. CASE q \notin 1 .. Len(queue)
      <4>1. queue'[q] = n
        BY <1>1, <2>1, <2>2, <2>4, <3>3
      <4> QED BY <1>2, <2>2, <2>3, <2>4, <4>1
    <3> QED BY <3>2, <3>3
  <2> QED BY <2>1, <2>4 DEF PromptInv, WholePrompts
<1>4. CASE ~Read
  <2>1. prompt_cut' = prompt_cut /\ (queue' = queue \/ (queue # << >> /\ queue' = Tail(queue)))
    <3>1. GdbReplies \/ GdbStops => UNCHANGED <<readVars, masterVars>>
      BY GdbSays
    <3> QED BY <1>4, <3>1 DEF Next, GdbPrints, HandleDataGdb, Resume, Insert, vars, readVars, masterVars
  <2>2. ASSUME ~prompt_cut, NEW q \in 1 .. Len(queue') PROVE Later(queue'[q])
    <3> HIDE DEF Later
    <3>1. PICK p \in 1 .. Len(queue) : queue'[q] = queue[p]
      BY <1>1, <2>1, QueueServed
    <3>2. WholePrompts(queue[p])
      BY <2>2 DEF PromptInv
    <3>3. queue[p] \in Nat /\ queue[p] <= Len(stream)
      BY <1>1
    <3> QED BY <1>2, <3>1, <3>2, <3>3
  <2> QED BY <2>1, <2>2 DEF PromptInv, WholePrompts
<1> QED BY <1>3, <1>4

LEMMA ShownStep ==
  ASSUME TypeInv, HeardInv(view), PromptInv, ~prompt_cut', SinceInv(view), ShownInv(view),
         ~prompt_cut, [Next]_vars
  PROVE  SinceInv(view)' /\ ShownInv(view)'
<1>1. ASSUME handled' = handled, po' = po, retired' = retired, target_state' = target_state
      PROVE  SinceInv(view)' /\ ShownInv(view)'
  <2>1. handled \in Nat /\ Len(stream) \in Nat /\ handled <= Len(stream)
    BY DEF TypeInv, QueueInv, StreamInv, Laid
  <2>2. ShownInv(view)'
    <3>1. view'.retired = view.retired /\ view'.state = view.state
      BY <1>1 DEF view
    <3> QED BY <3>1 DEF ShownInv
  <2>3. ASSUME NEW k \in 1 .. Len(lines'), PromptLine(k)', lines'[k].from < handled,
               NEW i \in 1 .. Len(po)
        PROVE  lines'[k].from < po[i].from
    <3>1. k \in 1 .. Len(lines)
      BY <2>1, <2>3, LinesKept
    <3>2. lines'[k] = lines[k] /\ PromptLine(k)
      BY <2>3, <3>1, LinesKept DEF PromptLine, BatchAt
    <3> QED BY <2>3, <3>1, <3>2 DEF SinceInv, Begun, view
  <2>4. SinceInv(view)'
    BY <1>1, <2>3 DEF SinceInv, Begun, view
  <2> QED BY <2>2, <2>4
<1>2. GdbReplies \/ GdbStops => UNCHANGED masterVars
  BY GdbSays
<1>3. CASE ~HandleDataGdb
  BY <1>1, <1>2, <1>3 DEF Next, GdbPrints, Read, Resume, Insert, vars, masterVars
<1>4. CASE HandleDataGdb
  <2> DEFINE S == {v \in Views : HeardInv(v) /\ SinceInv(v) /\ ShownInv(v)}
  <2>1. /\ Head(queue) \in Nat /\ Head(queue) <= Len(stream) /\ Laid /\ StreamInv
        /\ \E i \in 1 .. Len(queue) : Head(queue) = queue[i]
    BY <1>4, HeadFacts DEF TypeInv, HandleDataGdb, StreamInv
  <2>2. WholePrompts(Head(queue))
    BY <2>1 DEF PromptInv
  <2>3. ASSUME NEW v \in S, NEW behind \in Behinds, v.at < Head(queue)
        PROVE  Round(v, Head(queue), behind) \in S
    <3>1. v \in Views /\ HeardInv(v) /\ SinceInv(v) /\ ShownInv(v)
      OBVIOUS
    <3>2. Round(v, Head(queue), behind) \in Views
      BY <2>1, <2>3, <3>1, RoundTypes
    <3>3. HeardInv(Round(v, Head(queue), behind))
      BY <2>1, <2>3, <3>1, HeardRound
    <3>4. SinceInv(Round(v, Head(queue), behind)) /\ ShownInv(Round(v, Head(queue), behind))
      BY <2>1, <2>2, <2>3, <3>1, ShownRound
    <3> QED BY <3>2, <3>3, <3>4
  <2>4. view \in S /\ S \subseteq Views
    BY DEF TypeInv
  <2>5. view' \in S
    <3> HIDE DEF S
    <3> QED BY <1>4, <2>3, <2>4, HandlerKeeps DEF TypeInv
  <2>6. SinceInv(view') /\ ShownInv(view')
    BY <2>5
  <2>7. lines' = lines /\ written' = written
    BY <1>4 DEF HandleDataGdb, gdbVars, wireVars
  <2> QED BY <2>6, <2>7 DEF SinceInv, ShownInv, PromptLine, BatchAt, Begun
<1> QED BY <1>3, <1>4

\* While no prompt was cut, the state shown is that of the last change looked at, and no
\* two changes are looked at together (parse_target_state, parse_stop_record).
THEOREM LastHeardShown == Spec => []ShownIsLastHeard
<1> DEFINE I == /\ TypeInv /\ HeardInv(view) /\ PromptInv
                /\ prompt_cut \/ (SinceInv(view) /\ ShownInv(view))
<1>1. Init => I
  <2> SUFFICES ASSUME Init PROVE I
    OBVIOUS
  <2>1. Heard(view) = << << >> >> /\ po = << >> /\ retired = << >> /\ queue = << >>
        /\ lines = << >>
    BY DEF Init, view, Heard
  <2>2. HeardInv(view)
    BY <2>1 DEF HeardInv
  <2>3. PromptInv
    BY <2>1 DEF PromptInv
  <2>4. SinceInv(view) /\ ShownInv(view)
    BY <2>1 DEF SinceInv, ShownInv, view
  <2> QED BY <2>2, <2>3, <2>4, TypeInvInit
<1>2. I /\ [Next]_vars => I'
  <2> SUFFICES ASSUME I, [Next]_vars PROVE I'
    OBVIOUS
  <2>1. TypeInv' /\ HeardInv(view)' /\ PromptInv' /\ (prompt_cut => prompt_cut')
    BY TypeInvStep, HeardStep, PromptStep
  <2>2. ~prompt_cut' => SinceInv(view)' /\ ShownInv(view)'
    BY <2>1, ShownStep
  <2> QED BY <2>1, <2>2
<1>3. I => ShownIsLastHeard
  <2> SUFFICES ASSUME I, ~prompt_cut PROVE ShownIsLastHeard
    BY DEF ShownIsLastHeard
  <2>1. /\ retired \in Seq(Seq(Takens)) /\ po \in Seq(Takens)
    BY DEF TypeInv, Views, view
  <2>2. OneChange(po)
    BY CollectedOneChange DEF TypeInv, view
  <2>3. ASSUME NEW b \in 1 .. Len(retired) + 1
        PROVE  OneChange(Append(retired, po)[b])
    <3>1. CASE b \in 1 .. Len(retired)
      BY <2>1, <3>1 DEF ShownInv, view
    <3>2. CASE b = Len(retired) + 1
      BY <2>1, <2>2, <3>2
    <3> QED BY <2>1, <3>1, <3>2
  <2>4. ShownInv(view) /\ view.retired = retired /\ view.state = target_state
    BY DEF view
  <2>5. \A b \in 1 .. Len(retired) : \A i \in Changes(OutputsOf(retired[b])) :
          (\A c \in b + 1 .. Len(retired) : Changes(OutputsOf(retired[c])) = {})
            => target_state = StateOf(retired[b][i].output)
    BY <2>4 DEF ShownInv
  <2>6. \A b \in 1 .. Len(retired) + 1 : LET batch == Append(retired, po)[b] IN
          \A i, j \in Changes(OutputsOf(batch)) : i = j
    BY <2>3 DEF OneChange
  <2> QED BY <2>5, <2>6 DEF ShownIsLastHeard
<1> QED BY <1>1, <1>2, <1>3, PTL DEF Spec

-----------------------------------------------------------------------------
(* Batches are retired as they were printed *)

One(o) == IF Known(o) THEN <<o>> ELSE << >>

\* What is known of the first n records of a batch, which has two at most.
MeantTo(batch, n) ==
  IF n = 0 THEN << >> ELSE IF n = 1 THEN One(batch[1]) ELSE One(batch[1]) \o One(batch[2])

LEMMA MeantFacts ==
  ASSUME NEW batch \in Batches
  PROVE  /\ Meant(batch) = MeantTo(batch, Len(batch))
         /\ MeantTo(batch, 0) = << >>
         /\ \A n \in 0 .. Len(batch) - 1 :
              MeantTo(batch, n + 1) = IF Known(batch[n + 1])
                                      THEN Append(MeantTo(batch, n), batch[n + 1])
                                      ELSE MeantTo(batch, n)
<1>1. Len(batch) = 1 \/ Len(batch) = 2
  <2>1. Len(batch) \in 1 .. 2
    BY BatchFacts
  <2> QED BY <2>1
<1>2. \A o : /\ Known(o) => One(o) = <<o>> /\ Append(<< >>, o) = One(o)
             /\ ~Known(o) => One(o) = << >>
  BY DEF One
<1>3. \A n \in 0 .. Len(batch) - 1 :
        MeantTo(batch, n + 1) = IF Known(batch[n + 1])
                                THEN Append(MeantTo(batch, n), batch[n + 1])
                                ELSE MeantTo(batch, n)
  <2> SUFFICES ASSUME NEW n \in 0 .. Len(batch) - 1
               PROVE MeantTo(batch, n + 1) = IF Known(batch[n + 1])
                                             THEN Append(MeantTo(batch, n), batch[n + 1])
                                             ELSE MeantTo(batch, n)
    OBVIOUS
  <2>0. n = 0 \/ n = 1
    <3>1. CASE Len(batch) = 1
      <4>1. n \in 0 .. 1 - 1
        BY <3>1
      <4> QED BY <4>1
    <3>2. CASE Len(batch) = 2
      <4>1. n \in 0 .. 2 - 1
        BY <3>2
      <4> QED BY <4>1
    <3> QED BY <1>1, <3>1, <3>2
  <2>1. CASE n = 0
    BY <1>2, <2>1 DEF MeantTo
  <2>2. CASE n = 1
    <3> DEFINE p == One(batch[1])
               o == batch[2]
    <3>1. p = <<batch[1]>> \/ p = << >>
      BY DEF One
    <3>2. MeantTo(batch, 1) = p /\ MeantTo(batch, 2) = p \o One(o)
      BY DEF MeantTo
    <3> HIDE DEF p, o
    <3>3. p \o <<o>> = Append(p, o) /\ p \o << >> = p
      <4>1. PICK y : p = <<y>> \/ p = << >>
        BY <3>1
      <4> QED BY <4>1
    <3>4. p \o One(o) = IF Known(o) THEN Append(p, o) ELSE p
      BY <1>2, <3>3
    <3> QED BY <2>2, <3>2, <3>4 DEF o
  <2> QED BY <2>0, <2>1, <2>2
<1>4. Meant(batch) = MeantTo(batch, Len(batch))
  <2> DEFINE Made(f) == f = [n \in 0 .. Len(batch) |->
                               IF n = 0 THEN << >>
                               ELSE IF Known(batch[n]) THEN Append(f[n - 1], batch[n])
                               ELSE f[n - 1]]
             g == [n \in 0 .. Len(batch) |-> MeantTo(batch, n)]
             h == CHOOSE f : Made(f)
  <2>1. Made(g)
    <3>1. ASSUME NEW n \in 0 .. Len(batch)
          PROVE  MeantTo(batch, n) = IF n = 0 THEN << >>
                                     ELSE IF Known(batch[n]) THEN Append(g[n - 1], batch[n])
                                     ELSE g[n - 1]
      <4>1. CASE n = 0
        BY <4>1 DEF MeantTo
      <4>2. CASE n # 0
        <5>1. n - 1 \in 0 .. Len(batch) - 1 /\ n - 1 \in 0 .. Len(batch) /\ (n - 1) + 1 = n
          BY <1>1, <4>2
        <5>2. g[n - 1] = MeantTo(batch, n - 1)
          BY <5>1
        <5> QED BY <1>3, <4>2, <5>1, <5>2
      <4> QED BY <4>1, <4>2
    <3> QED BY <3>1
  <2>2. Made(h)
    BY <2>1
  <2>3. Meant(batch) = h[Len(batch)]
    BY DEF Meant
  <2> HIDE DEF h
  <2>4. h[0] = << >> /\ \A n \in 1 .. Len(batch) :
          h[n] = IF Known(batch[n]) THEN Append(h[n - 1], batch[n]) ELSE h[n - 1]
    <3>1. 0 \in 0 .. Len(batch) /\ \A n \in 1 .. Len(batch) : n \in 0 .. Len(batch) /\ n # 0
      BY <1>1
    <3> QED BY <2>2, <3>1
  <2>5. h[0] = MeantTo(batch, 0)
    BY <2>4 DEF MeantTo
  <2>6. h[1] = MeantTo(batch, 1)
    <3>1. 1 \in 1 .. Len(batch) /\ 0 \in 0 .. Len(batch) - 1
      BY <1>1
    <3> QED BY <1>3, <2>4, <2>5, <3>1
  <2>7. Len(batch) = 2 => h[2] = MeantTo(batch, 2)
    <3> SUFFICES ASSUME Len(batch) = 2 PROVE h[2] = MeantTo(batch, 2)
      OBVIOUS
    <3>1. 2 \in 1 .. Len(batch) /\ 1 \in 0 .. Len(batch) - 1 /\ 1 + 1 = 2 /\ 2 - 1 = 1
      OBVIOUS
    <3>2. MeantTo(batch, 1 + 1) = IF Known(batch[1 + 1]) THEN Append(MeantTo(batch, 1), batch[1 + 1])
                                  ELSE MeantTo(batch, 1)
      BY <1>3, <3>1
    <3>3. h[2] = IF Known(batch[2]) THEN Append(h[2 - 1], batch[2]) ELSE h[2 - 1]
      BY <2>4, <3>1
    <3> HIDE DEF MeantTo
    <3> QED BY <2>6, <3>1, <3>2, <3>3
  <2> QED BY <1>1, <2>3, <2>6, <2>7
<1>5. MeantTo(batch, 0) = << >>
  BY DEF MeantTo
<1> QED BY <1>3, <1>4, <1>5

\* The batch and the record that the line behind line n belongs to.
NextBatch(n) ==
  IF n = 0 THEN 1 ELSE IF PromptLine(n) THEN lines[n].batch + 1 ELSE lines[n].batch
NextPlace(n) == IF n = 0 \/ PromptLine(n) THEN 1 ELSE lines[n].place + 1

LEMMA NextFacts ==
  ASSUME Laid, NEW n \in 0 .. Len(lines)
  PROVE  /\ NextBatch(n) \in Nat \ {0} /\ NextPlace(n) \in Nat \ {0}
         /\ NextBatch(n) - 1 <= Len(written)
         /\ n # 0 => /\ lines[n].batch \in Nat \ {0} /\ lines[n].place \in Nat \ {0}
                     /\ lines[n].batch <= Len(written)
                     /\ lines[n].place <= LinesOf(BatchAt(n)) /\ LinesOf(BatchAt(n)) \in Nat
<1>1. Len(written) \in Nat
  BY DEF Laid
<1>2. CASE n = 0
  BY <1>1, <1>2 DEF NextBatch, NextPlace
<1>3. CASE n # 0
  <2>1. n \in 1 .. Len(lines)
    BY <1>3
  <2>2. lines[n].batch \in 1 .. Len(written) /\ lines[n].place \in 1 .. LinesOf(BatchAt(n))
    BY <2>1 DEF Laid, BatchAt
  <2>3. LinesOf(BatchAt(n)) \in Nat
    <3>1. BatchAt(n) \in Batches
      BY <2>1, LineFacts DEF BatchAt
    <3>2. LinesOf(BatchAt(n)) \in 2 .. 3
      BY <3>1, BatchFacts
    <3> QED BY <3>2
  <2>4. /\ lines[n].batch \in Nat \ {0} /\ lines[n].place \in Nat \ {0}
        /\ lines[n].batch <= Len(written) /\ lines[n].place <= LinesOf(BatchAt(n))
    BY <1>1, <2>2, <2>3
  <2>7. PICK b : b = lines[n].batch
    OBVIOUS
  <2>8. PICK i : i = lines[n].place
    OBVIOUS
  <2>9. b \in Nat \ {0} /\ b <= Len(written) /\ i \in Nat \ {0}
    BY <2>4, <2>7, <2>8
  <2>5. CASE PromptLine(n)
    <3>1. NextBatch(n) = lines[n].batch + 1 /\ NextPlace(n) = 1
      BY <1>3, <2>5 DEF NextBatch, NextPlace
    <3>3. NextBatch(n) = b + 1 /\ NextPlace(n) = 1
      BY <2>7, <3>1
    <3>2. NextBatch(n) \in Nat \ {0} /\ NextPlace(n) \in Nat \ {0}
          /\ NextBatch(n) - 1 <= Len(written)
      BY <1>1, <2>9, <3>3
    <3> QED BY <2>3, <2>4, <3>2
  <2>6. CASE ~PromptLine(n)
    <3>1. NextBatch(n) = lines[n].batch /\ NextPlace(n) = lines[n].place + 1
      BY <1>3, <2>6 DEF NextBatch, NextPlace
    <3>3. NextBatch(n) = b /\ NextPlace(n) = i + 1
      BY <2>7, <2>8, <3>1
    <3>2. NextBatch(n) \in Nat \ {0} /\ NextPlace(n) \in Nat \ {0}
          /\ NextBatch(n) - 1 <= Len(written)
      BY <1>1, <2>9, <3>3
    <3> QED BY <2>3, <2>4, <3>2
  <2> QED BY <2>5, <2>6
<1> QED BY <1>2, <1>3

\* No line is left out.
LEMMA NextLine ==
  ASSUME StreamInv, NEW n \in Nat, n + 1 \in 1 .. Len(lines)
  PROVE  lines[n + 1].batch = NextBatch(n) /\ lines[n + 1].place = NextPlace(n)
<1> DEFINE b == lines[n + 1].batch
           i == lines[n + 1].place
<1>1. Laid /\ Ordered /\ n \in 0 .. Len(lines) /\ n + 1 \in 0 .. Len(lines) /\ Len(lines) \in Nat
  BY DEF StreamInv, Laid
<1>2. b \in 1 .. Len(written) /\ i \in Nat \ {0} /\ Len(written) \in Nat /\ printed \in Nat
  <2>1. lines[n + 1].batch \in 1 .. Len(written) /\ lines[n + 1].place \in Nat \ {0}
    BY <1>1, NextFacts DEF Laid
  <2> QED BY <1>1, <2>1 DEF Laid, Ordered
<1>3. NextBatch(n) \in Nat \ {0} /\ NextPlace(n) \in Nat \ {0}
  BY <1>1, NextFacts
<1>4. b = Len(written) => i <= printed
  BY DEF StreamInv, Ordered
<1>5. \A m \in 1 .. n + 1 : lines[m].batch \in Nat /\ lines[m].place \in Nat
  <2> SUFFICES ASSUME NEW m \in 1 .. n + 1
               PROVE  lines[m].batch \in Nat /\ lines[m].place \in Nat
    OBVIOUS
  <2>1. m \in 0 .. Len(lines) /\ m # 0
    BY <1>1
  <2>2. lines[m].batch \in Nat \ {0} /\ lines[m].place \in Nat \ {0}
    BY <1>1, <2>1, NextFacts
  <2> QED BY <2>2
<1>6. \A m \in 1 .. Len(lines) : m <= n =>
        (lines[m].batch < b \/ (lines[m].batch = b /\ lines[m].place < i))
  <2> SUFFICES ASSUME NEW m \in 1 .. Len(lines), m <= n
               PROVE  lines[m].batch < b \/ (lines[m].batch = b /\ lines[m].place < i)
    OBVIOUS
  <2>1. m \in 1 .. (n + 1) - 1
    BY <1>1
  <2> QED BY <1>1, <2>1 DEF Ordered
<1>7. \A m \in 1 .. Len(lines) : m > n + 1 =>
        (b < lines[m].batch \/ (lines[m].batch = b /\ i < lines[m].place))
  <2> SUFFICES ASSUME NEW m \in 1 .. Len(lines), m > n + 1
               PROVE  b < lines[m].batch \/ (lines[m].batch = b /\ i < lines[m].place)
    OBVIOUS
  <2>1. n + 1 \in 1 .. m - 1
    BY <1>1
  <2> QED BY <1>1, <2>1 DEF Ordered
\* The next one is not behind the line there is.
<1>8. NextBatch(n) < b \/ (NextBatch(n) = b /\ NextPlace(n) <= i)
  <2>1. CASE n = 0
    BY <1>2, <2>1 DEF NextBatch, NextPlace
  <2>2. CASE n # 0
    <3>1. n \in 1 .. Len(lines) /\ lines[n].batch \in Nat /\ lines[n].place \in Nat
      BY <1>1, <1>5, <2>2
    <3>2. lines[n].batch < b \/ (lines[n].batch = b /\ lines[n].place < i)
      BY <1>6, <3>1
    <3>3. CASE PromptLine(n)
      <4>1. lines[n].batch # b
        <5> SUFFICES ASSUME lines[n].batch = b PROVE FALSE
          OBVIOUS
        <5>1. lines[n].place = LinesOf(written[b])
          BY <3>3 DEF PromptLine, BatchAt
        <5>2. i \in 1 .. LinesOf(written[b])
          BY <1>1 DEF Laid
        <5>3. LinesOf(written[b]) \in Nat
          BY <3>1, <5>1
        <5> QED BY <1>2, <3>1, <3>2, <5>1, <5>2, <5>3
      <4>2. lines[n].batch + 1 < b \/ lines[n].batch + 1 = b
        BY <1>2, <3>1, <3>2, <4>1
      <4> QED BY <1>2, <2>2, <3>3, <4>2 DEF NextBatch, NextPlace
    <3>4. CASE ~PromptLine(n)
      BY <1>2, <2>2, <3>1, <3>2, <3>4 DEF NextBatch, NextPlace
    <3> QED BY <3>3, <3>4
  <2> QED BY <2>1, <2>2
\* So it was printed.
<1>9. PICK k \in 1 .. Len(lines) : lines[k].batch = NextBatch(n) /\ lines[k].place = NextPlace(n)
  <2>1. NextBatch(n) \in 1 .. Len(written)
    BY <1>2, <1>3, <1>8
  <2>2. NextPlace(n) \in 1 .. LinesOf(written[NextBatch(n)])
    <3>1. written[NextBatch(n)] \in Batches
      BY <1>1, <2>1 DEF Laid
    <3>2. LinesOf(written[NextBatch(n)]) \in 2 .. 3
      BY <3>1, BatchFacts
    <3>3. CASE n = 0 \/ PromptLine(n)
      BY <3>2, <3>3 DEF NextPlace
    <3>4. CASE ~(n = 0 \/ PromptLine(n))
      <4>1. NextPlace(n) = lines[n].place + 1 /\ NextBatch(n) = lines[n].batch
        BY <3>4 DEF NextPlace, NextBatch
      <4>2. /\ lines[n].place \in Nat \ {0} /\ lines[n].place <= LinesOf(BatchAt(n))
            /\ lines[n].place # LinesOf(BatchAt(n)) /\ LinesOf(BatchAt(n)) \in Nat
        BY <1>1, <3>4, NextFacts DEF PromptLine
      <4>3. BatchAt(n) = written[NextBatch(n)]
        BY <4>1 DEF BatchAt
      <4> QED BY <4>1, <4>2, <4>3
    <3> QED BY <3>3, <3>4
  <2>3. NextBatch(n) < Len(written) \/ NextPlace(n) <= printed
    BY <1>2, <1>3, <1>4, <1>8
  <2> QED BY <1>1, <2>1, <2>2, <2>3 DEF Ordered
<1>10. ~(k > n + 1)
  <2>1. k > n + 1 => (b < lines[k].batch \/ (lines[k].batch = b /\ i < lines[k].place))
    BY <1>7
  <2> QED BY <1>2, <1>3, <1>8, <1>9, <2>1
<1>11. ~(k <= n)
  <2> SUFFICES ASSUME k <= n PROVE FALSE
    OBVIOUS
  <2>1. n # 0 /\ n \in 1 .. Len(lines) /\ lines[n].batch \in Nat /\ lines[n].place \in Nat
    BY <1>1, <1>5, <1>9
  <2>2. \/ lines[k].batch < lines[n].batch
        \/ lines[k].batch = lines[n].batch /\ lines[k].place <= lines[n].place
    <3>1. CASE k = n
      BY <2>1, <3>1
    <3>2. CASE k # n
      <4>1. k \in 1 .. n - 1
        BY <2>1, <3>2
      <4>2. lines[k].batch < lines[n].batch
            \/ (lines[k].batch = lines[n].batch /\ lines[k].place < lines[n].place)
        BY <1>1, <2>1, <4>1 DEF Ordered
      <4>3. lines[k].place \in Nat
        BY <1>5, <2>1, <4>1
      <4> QED BY <2>1, <4>2, <4>3
    <3> QED BY <3>1, <3>2
  <2>3. CASE PromptLine(n)
    BY <1>9, <2>1, <2>2, <2>3 DEF NextBatch
  <2>4. CASE ~PromptLine(n)
    BY <1>9, <2>1, <2>2, <2>4 DEF NextBatch, NextPlace
  <2> QED BY <2>3, <2>4
<1>12. k = n + 1
  BY <1>1, <1>10, <1>11
<1> QED BY <1>9, <1>12

\* No line is cut at n.
Whole(n) == \A k \in 1 .. Len(lines) : ~(lines[k].from < n /\ n < TextEnd(k))

\* The first n lines are those that are begun before at.
BegunTo(n, at) == \A m \in 1 .. Len(lines) : Begun(m, at) <=> m <= n

\* What v holds when it has looked at the first n lines, each of them whole.
Collected(v, n) ==
  /\ Len(v.retired) = NextBatch(n) - 1
  /\ OutputsOf(v.po) = MeantTo(written[NextBatch(n)], NextPlace(n) - 1)
  /\ \A b \in 1 .. Len(v.retired) : OutputsOf(v.retired[b]) = Meant(written[b])

\* In a chunk that cuts no line a round looks at the next line, whole, or at no line.
LEMMA WholeRound ==
  ASSUME Laid, NEW v \in Views, NEW end \in Nat, NEW behind \in Behinds,
         v.at < end, end <= Len(stream), Whole(end),
         NEW n \in 0 .. Len(lines), BegunTo(n, v.at)
  PROVE  LET w == Round(v, end, behind) IN
         \/ Drops(v, w) /\ BegunTo(n, w.at)
         \/ /\ n + 1 \in 1 .. Len(lines) /\ BegunTo(n + 1, w.at)
            /\ \/ PromptLine(n + 1) /\ Prompts(v, w, n + 1)
               \/ /\ ~PromptLine(n + 1) /\ Known(BatchAt(n + 1)[lines[n + 1].place])
                  /\ Takes(v, w, n + 1, BatchAt(n + 1)[lines[n + 1].place])
               \/ /\ ~PromptLine(n + 1) /\ ~Known(BatchAt(n + 1)[lines[n + 1].place])
                  /\ Drops(v, w)
<1> DEFINE w == Round(v, end, behind)
<1>1. w \in Views /\ v.at \in Nat /\ w.at \in Nat /\ Len(lines) \in Nat
  BY RoundTypes DEF Views, Laid
<1> HIDE DEF w
<1>2. CASE Skips(v, w, end)
  <2>1. w.at = end /\ Drops(v, w)
    BY <1>2 DEF Skips, Drops, Views
  <2>2. BegunTo(n, w.at)
    BY <1>2, <2>1 DEF Skips, BegunTo
  <2> QED BY <2>1, <2>2 DEF w
<1>3. ASSUME NEW k, NEW i, NEW j, Looks(v, w, end, behind, k, i, j)
      PROVE  \/ Drops(v, w) /\ BegunTo(n, w.at)
             \/ /\ n + 1 \in 1 .. Len(lines) /\ BegunTo(n + 1, w.at)
                /\ \/ PromptLine(n + 1) /\ Prompts(v, w, n + 1)
                   \/ /\ ~PromptLine(n + 1) /\ Known(BatchAt(n + 1)[lines[n + 1].place])
                      /\ Takes(v, w, n + 1, BatchAt(n + 1)[lines[n + 1].place])
                   \/ /\ ~PromptLine(n + 1) /\ ~Known(BatchAt(n + 1)[lines[n + 1].place])
                      /\ Drops(v, w)
  <2>1. /\ k \in 1 .. Len(lines) /\ lines[k].from \in Nat
        /\ i \in 1 .. Len(TextAt(k)) + 1 /\ j \in i - 1 .. Len(TextAt(k))
        /\ (i = 1 => ~Begun(k, v.at) /\ 1 <= j) /\ (i # 1 => Begun(k, v.at))
        /\ \A m \in 1 .. Len(lines) : Begun(m, w.at) <=> Begun(m, v.at) \/ m = k
        /\ (j < Len(TextAt(k)) => end = lines[k].from + j)
    BY <1>1, <1>3, LineFacts DEF Looks
  <2>2. CASE i # 1
    <3>1. BegunTo(n, w.at)
      BY <2>1, <2>2 DEF BegunTo
    <3>2. Drops(v, w)
      BY <1>3, <2>2, LookCases
    <3> QED BY <3>1, <3>2
  <2>3. CASE i = 1
    <3>1. j = Len(TextAt(k))
      <4> SUFFICES ASSUME j < Len(TextAt(k)) PROVE FALSE
        BY <2>1
      <4>1. end = lines[k].from + j /\ 1 <= j /\ j \in Nat
        BY <2>1, <2>3
      <4>2. TextEnd(k) = lines[k].from + Len(TextAt(k)) /\ Len(TextAt(k)) \in Nat
        BY <2>1, LineFacts
      <4>3. lines[k].from < end /\ end < TextEnd(k)
        BY <2>1, <4>1, <4>2
      <4> QED BY <2>1, <4>3 DEF Whole
    <3>2. k = n + 1
      <4>1. ~(k <= n)
        BY <2>1, <2>3 DEF BegunTo
      <4>2. ~(k > n + 1)
        <5> SUFFICES ASSUME k > n + 1 PROVE FALSE
          OBVIOUS
        <5>1. n + 1 \in 1 .. Len(lines) /\ n + 1 < k
          BY <1>1, <2>1
        <5>2. lines[n + 1].from < lines[k].from /\ lines[n + 1].from \in Nat
          BY <2>1, <5>1, LinesInOrder, LineFacts
        <5>3. Begun(k, w.at)
          BY <2>1
        <5>4. Begun(n + 1, w.at)
          BY SMTT(20), <1>1, <2>1, <5>2, <5>3 DEF Begun
        <5>5. ~Begun(n + 1, v.at)
          BY <5>1 DEF BegunTo
        <5> QED BY <2>1, <5>1, <5>4, <5>5
      <4> QED BY <2>1, <4>1, <4>2
    <3>3. BegunTo(k, w.at)
      BY <2>1, <3>2 DEF BegunTo
    <3>4. /\ lines[k].place \in 1 .. LinesOf(BatchAt(k)) /\ LinesOf(BatchAt(k)) = Len(BatchAt(k)) + 1
          /\ Len(BatchAt(k)) \in Nat
      BY SMTT(20), <2>1, LineFacts, BatchFacts DEF BatchAt, Laid, LinesOf
    <3>5. CASE PromptLine(k)
      <4>3. Len(TextAt(k)) = 3 /\ lines[k].place \notin 1 .. Len(BatchAt(k))
        BY <2>1, <3>5, PromptText
      <4>4. \A x : Takes(v, w, k, x) => lines[k].place \in 1 .. Len(BatchAt(k))
        BY DEF Takes
      <4>1. j = 3 /\ ~(\E x : Takes(v, w, k, x))
        BY <3>1, <4>3, <4>4
      <4>2. Prompts(v, w, k)
        <5>1. j >= 2 /\ lines[k].place = LinesOf(BatchAt(k))
          BY <3>5, <4>1 DEF PromptLine
        <5> QED BY <1>3, <2>3, <5>1, LookCases
      <4> QED BY <2>1, <3>2, <3>3, <3>5, <4>2
    <3>6. CASE ~PromptLine(k)
      <4>1. lines[k].place \in 1 .. Len(BatchAt(k))
        BY <3>4, <3>6 DEF PromptLine
      <4>2. \/ \E x : Takes(v, w, k, x) /\ Known(BatchAt(k)[lines[k].place])
                      /\ x = BatchAt(k)[lines[k].place]
            \/ Drops(v, w) /\ ~Known(BatchAt(k)[lines[k].place])
        BY <1>3, <2>3, <3>1, <3>6, <4>1, LookCases DEF PromptLine
      <4> QED BY <2>1, <3>2, <3>3, <3>6, <4>2
    <3> QED BY <3>5, <3>6
  <2> QED BY <2>2, <2>3
<1> QED BY <1>1, <1>2, <1>3, RoundCases DEF w

\* A round that retires nothing.
Goes(v, w) ==
  /\ w.retired = v.retired /\ w.state = v.state /\ w.file = v.file
  /\ w.awaited = v.awaited /\ w.number = v.number

\* A round that retires the next batch, as it is meant.
Retires(v, w) ==
  /\ Len(v.retired) + 1 \in 1 .. Len(written)
  /\ OutputsOf(v.po) = Meant(written[Len(v.retired) + 1])
  /\ w = [Retire(v) EXCEPT !.at = w.at]

LEMMA CollectedRound ==
  ASSUME StreamInv, NEW v \in Views, NEW end \in Nat, NEW behind \in Behinds,
         v.at < end, end <= Len(stream), Whole(end),
         NEW n \in 0 .. Len(lines), BegunTo(n, v.at), Collected(v, n)
  PROVE  LET w == Round(v, end, behind) IN
         /\ Goes(v, w) \/ Retires(v, w)
         /\ \E m \in 0 .. Len(lines) : BegunTo(m, w.at) /\ Collected(w, m)
<1> DEFINE w == Round(v, end, behind)
<1>1. Laid /\ w \in Views /\ v.po \in Seq(Takens) /\ v.retired \in Seq(Seq(Takens))
      /\ Len(lines) \in Nat
  BY RoundTypes DEF StreamInv, Views, Laid
<1> HIDE DEF w
<1>2. CASE Drops(v, w) /\ BegunTo(n, w.at)
  <2>1. Goes(v, w) /\ w.po = v.po
    BY <1>2 DEF Drops, Goes, Views
  <2>2. Collected(w, n)
    BY <2>1 DEF Collected, Goes
  <2> QED BY <1>2, <2>1, <2>2 DEF w
<1>3. CASE /\ n + 1 \in 1 .. Len(lines) /\ BegunTo(n + 1, w.at)
           /\ \/ PromptLine(n + 1) /\ Prompts(v, w, n + 1)
              \/ /\ ~PromptLine(n + 1) /\ Known(BatchAt(n + 1)[lines[n + 1].place])
                 /\ Takes(v, w, n + 1, BatchAt(n + 1)[lines[n + 1].place])
              \/ /\ ~PromptLine(n + 1) /\ ~Known(BatchAt(n + 1)[lines[n + 1].place])
                 /\ Drops(v, w)
  <2>1. PICK k : k = n + 1
    OBVIOUS
  <2> DEFINE b == NextBatch(n)
             i == NextPlace(n)
             batch == written[b]
  <2>2. k \in 1 .. Len(lines) /\ k \in 0 .. Len(lines) /\ k # 0 /\ BegunTo(k, w.at)
    BY <1>1, <1>3, <2>1
  <2>3. lines[k].batch = b /\ lines[k].place = i
    BY <1>3, <2>1, NextLine
  <2>4. BatchAt(k) = batch /\ batch \in Batches /\ b \in 1 .. Len(written)
    <3>1. lines[k].batch \in 1 .. Len(written) /\ BatchAt(k) \in Batches
      BY <1>1, <2>2, LineFacts DEF Laid, BatchAt
    <3>2. BatchAt(k) = batch
      BY <2>3 DEF BatchAt
    <3> HIDE DEF b, batch
    <3> QED BY <2>3, <3>1, <3>2
  <2>5. i \in Nat \ {0} /\ i <= LinesOf(batch) /\ LinesOf(batch) = Len(batch) + 1
        /\ Len(batch) \in Nat /\ b \in Nat \ {0}
    <3>1. /\ lines[k].batch \in Nat \ {0} /\ lines[k].place \in Nat \ {0}
          /\ lines[k].place <= LinesOf(BatchAt(k))
      BY <1>1, <2>2, NextFacts
    <3>2. Len(batch) \in 1 .. 2
      BY <2>4, BatchFacts
    <3>3. LinesOf(batch) = Len(batch) + 1
      BY DEF LinesOf
    <3> HIDE DEF b, i, batch
    <3> QED BY <2>3, <2>4, <3>1, <3>2, <3>3
  <2>6. Len(v.retired) = b - 1 /\ OutputsOf(v.po) = MeantTo(batch, i - 1)
        /\ \A c \in 1 .. Len(v.retired) : OutputsOf(v.retired[c]) = Meant(written[c])
    BY DEF Collected
  <2>7. PromptLine(k) <=> i = LinesOf(batch)
    BY <2>3, <2>4 DEF PromptLine
  <2> HIDE DEF b, i, batch
  <2>8. CASE PromptLine(k) /\ Prompts(v, w, k)
    <3>1. i - 1 = Len(batch) /\ OutputsOf(v.po) = Meant(batch)
      BY <2>4, <2>5, <2>6, <2>7, <2>8, MeantFacts
    <3>2. Len(v.retired) + 1 = b
      BY <2>5, <2>6
    <3>3. batch = written[Len(v.retired) + 1]
      BY <3>2 DEF batch
    <3>4. Retires(v, w)
      BY <2>4, <2>8, <3>1, <3>2, <3>3 DEF Retires, Prompts
    <3>5. w.po = << >> /\ w.retired = Append(v.retired, v.po)
      BY <2>8, RetireFacts DEF Prompts, Views
    <3>6. NextBatch(k) = b + 1 /\ NextPlace(k) = 1
      BY <2>2, <2>3, <2>8 DEF NextBatch, NextPlace
    <3>7. OutputsOf(w.po) = MeantTo(written[NextBatch(k)], NextPlace(k) - 1)
      <4>1. OutputsOf(<< >>) = << >>
        BY DEF OutputsOf
      <4>2. NextPlace(k) - 1 = 0
        BY <3>6
      <4> QED BY <3>5, <4>1, <4>2 DEF MeantTo
    <3>8. Len(w.retired) = NextBatch(k) - 1 /\ Len(w.retired) = b
          /\ w.retired[b] = v.po /\ \A c \in 1 .. b - 1 : w.retired[c] = v.retired[c]
      BY <1>1, <2>5, <2>6, <3>2, <3>5, <3>6
    <3>9. ASSUME NEW c \in 1 .. Len(w.retired)
          PROVE  OutputsOf(w.retired[c]) = Meant(written[c])
      <4>1. CASE c = b
        BY <3>1, <3>8, <4>1 DEF batch
      <4>2. CASE c # b
        <5>1. c \in 1 .. b - 1 /\ c \in 1 .. Len(v.retired)
          BY <2>5, <2>6, <3>8, <4>2
        <5> QED BY <2>6, <3>8, <5>1
      <4> QED BY <4>1, <4>2
    <3>10. Collected(w, k)
      BY <3>7, <3>8, <3>9 DEF Collected
    <3> QED BY <2>2, <3>4, <3>10 DEF w
  <2>9. CASE ~PromptLine(k)
    <3>1. NextBatch(k) = b /\ NextPlace(k) - 1 = i /\ i \in 1 .. Len(batch)
          /\ i - 1 \in 0 .. Len(batch) - 1 /\ (i - 1) + 1 = i
      BY <2>2, <2>3, <2>5, <2>7, <2>9 DEF NextBatch, NextPlace
    <3>2. MeantTo(batch, i) = IF Known(batch[i]) THEN Append(MeantTo(batch, i - 1), batch[i])
                              ELSE MeantTo(batch, i - 1)
      BY <2>4, <3>1, MeantFacts
    <3>3. OutputsOf(w.po) = MeantTo(batch, i) /\ Goes(v, w)
      <4>1. CASE Known(batch[i]) /\ Takes(v, w, k, batch[i])
        <5>1. w.po = Append(v.po, Taken(batch[i], lines[k].from)) /\ Goes(v, w)
          BY <4>1 DEF Takes, Goes, Views
        <5>2. OutputsOf(w.po) = Append(OutputsOf(v.po), batch[i])
          <6> DEFINE t == Taken(batch[i], lines[k].from)
          <6>1. t.output = batch[i]
            BY DEF Taken
          <6> HIDE DEF t
          <6>2. /\ Len(v.po) \in Nat /\ DOMAIN v.po = 1 .. Len(v.po)
                /\ DOMAIN w.po = 1 .. Len(v.po) + 1
                /\ w.po[Len(v.po) + 1] = t /\ \A q \in 1 .. Len(v.po) : w.po[q] = v.po[q]
            BY <1>1, <5>1 DEF t
          <6> DEFINE s == OutputsOf(v.po)
          <6>3. s = [q \in 1 .. Len(v.po) |-> v.po[q].output]
            BY <6>2 DEF OutputsOf
          <6>4. Len(s) = Len(v.po) /\ s \in Seq(Hearable)
            <7>1. \A q \in 1 .. Len(v.po) : v.po[q].output \in Hearable
              BY <1>1, OutputsFacts
            <7>2. PICK n1 : n1 = Len(v.po)
              OBVIOUS
            <7>3. n1 \in Nat /\ s \in [1 .. n1 -> Hearable] /\ DOMAIN s = 1 .. n1
              BY <6>2, <6>3, <7>1, <7>2
            <7> HIDE DEF s
            <7>4. s \in Seq(Hearable)
              BY <7>3, SeqDef
            <7>5. Len(s) = n1
              BY <7>3, <7>4
            <7> QED BY <7>2, <7>4, <7>5
          <6>5. Append(s, batch[i]) = [q \in 1 .. Len(v.po) + 1 |->
                                         IF q = Len(v.po) + 1 THEN batch[i] ELSE s[q]]
            BY <6>2, <6>4
          <6>6. OutputsOf(w.po) = [q \in 1 .. Len(v.po) + 1 |-> w.po[q].output]
            BY <6>2 DEF OutputsOf
          <6>7. \A q \in 1 .. Len(v.po) + 1 :
                  w.po[q].output = IF q = Len(v.po) + 1 THEN batch[i] ELSE s[q]
            BY <6>1, <6>2, <6>3
          <6> QED BY <6>5, <6>6, <6>7
        <5> QED BY <2>6, <3>2, <4>1, <5>1, <5>2
      <4>2. CASE ~Known(batch[i]) /\ Drops(v, w)
        <5>1. w.po = v.po /\ Goes(v, w)
          BY <4>2 DEF Drops, Goes, Views
        <5> QED BY <2>6, <3>2, <4>2, <5>1
      <4> QED BY <1>3, <2>1, <2>3, <2>4, <2>9, <4>1, <4>2
    <3>4. Collected(w, k)
      BY <2>6, <3>1, <3>3 DEF Collected, Goes, batch, b
    <3> QED BY <2>2, <3>3, <3>4 DEF w
  <2> QED BY <1>3, <2>1, <2>8, <2>9
<1> QED BY <1>1, <1>2, <1>3, WholeRound DEF w

\* While no line was cut, no chunk cuts one.
WholeInv == cuts = 0 => \A q \in 1 .. Len(queue) : Whole(queue[q])

LEMMA WholeStep ==
  ASSUME TypeInv, WholeInv, [Next]_vars
  PROVE  WholeInv' /\ (cuts' = 0 => cuts = 0)
<1> DEFINE Later(n) == \A k \in 1 .. Len(lines') : ~(lines'[k].from < n /\ n < TextEnd(k)')
<1>1. /\ Len(stream) \in Nat /\ queue \in Seq(Nat) /\ read \in Nat /\ read <= Len(stream)
      /\ \A q \in 1 .. Len(queue) : queue[q] \in Nat /\ queue[q] <= read
      /\ Len(queue) \in Nat /\ cuts \in Nat /\ Laid
  BY DEF TypeInv, QueueInv, StreamInv, Laid, Small
<1>2. \A n \in Nat : n <= Len(stream) /\ Whole(n) => Later(n)
  <2> SUFFICES ASSUME NEW n \in Nat, n <= Len(stream), Whole(n),
                      NEW k \in 1 .. Len(lines'), lines'[k].from < n, n < TextEnd(k)'
               PROVE  FALSE
    BY DEF Whole
  <2>1. k \in 1 .. Len(lines)
    BY <1>1, LinesKept
  <2>2. lines'[k] = lines[k] /\ TextEnd(k)' = TextEnd(k)
    BY <2>1, LinesKept DEF TextEnd, TextAt
  <2> QED BY <2>1, <2>2 DEF Whole
<1>3. CASE Read
  <2>1. PICK n \in read + 1 .. Len(stream) :
          /\ cuts' = IF CutsLine(n) THEN cuts + 1 ELSE cuts
          /\ queue' = Append(queue, n)
    BY <1>3 DEF Read
  <2>2. n \in Nat /\ n <= Len(stream)
    BY <1>1, <2>1
  <2>3. cuts' = 0 => cuts = 0 /\ ~CutsLine(n)
    BY <1>1, <2>1
  <2>4. ASSUME ~CutsLine(n) PROVE Whole(n)
    <3> SUFFICES ASSUME NEW k \in 1 .. Len(lines), lines[k].from < n, n < TextEnd(k)
                 PROVE  FALSE
      BY DEF Whole
    <3>0. lines[k].from < n /\ n < TextEnd(k)
      OBVIOUS
    <3>1. /\ lines[k].from \in Nat /\ TextEnd(k) = lines[k].from + Len(TextAt(k))
          /\ Len(TextAt(k)) \in Nat
          /\ \A p \in 1 .. Len(TextAt(k)) : /\ TextAt(k)[p] \notin {"cr", "lf"}
                                            /\ stream[lines[k].from + p] = TextAt(k)[p]
      BY <1>1, LineFacts
    <3>2. TextEnd(k) + 2 <= Len(stream)
      BY <1>1 DEF Laid, Lies
    <3>8. PICK from : from = lines[k].from
      OBVIOUS
    <3>9. from \in Nat /\ from < n /\ n < from + Len(TextAt(k)) /\ Len(TextAt(k)) \in Nat
      BY <3>0, <3>1, <3>8
    <3>3. PICK p \in 1 .. Len(TextAt(k)) : n = from + p /\ p + 1 \in 1 .. Len(TextAt(k))
      <4>1. n - from \in 1 .. Len(TextAt(k)) /\ n = from + (n - from)
            /\ (n - from) + 1 \in 1 .. Len(TextAt(k))
        BY <2>2, <3>9
      <4> QED BY <4>1
    <3>5. n + 1 = from + (p + 1)
      BY <3>9, <3>3
    <3>10. stream[n] \notin {"cr", "lf"} /\ stream[n + 1] # "cr"
      BY <3>1, <3>3, <3>5, <3>8
    <3>7. n < Len(stream)
      BY <1>1, <2>2, <3>1, <3>2
    <3> QED BY <2>4, <3>7, <3>10 DEF CutsLine
  <2>5. ASSUME cuts' = 0, NEW q \in 1 .. Len(queue') PROVE Later(queue'[q])
    <3> HIDE DEF Later
    <3>1. CASE q \in 1 .. Len(queue)
      <4>1. queue'[q] = queue[q]
        BY <1>1, <2>1, <2>2, <3>1
      <4>2. Whole(queue[q]) /\ queue[q] \in Nat /\ queue[q] <= Len(stream)
        BY <1>1, <2>3, <2>5, <3>1 DEF WholeInv
      <4> QED BY <1>2, <4>1, <4>2
    <3>2. CASE q \notin 1 .. Len(queue)
      <4>1. queue'[q] = n
        BY <1>1, <2>1, <2>2, <2>5, <3>2
      <4> QED BY <1>2, <2>2, <2>3, <2>4, <2>5, <4>1
    <3> QED BY <3>1, <3>2
  <2> QED BY <2>3, <2>5 DEF WholeInv, Whole
<1>4. CASE ~Read
  <2>1. cuts' = cuts /\ (queue' = queue \/ (queue # << >> /\ queue' = Tail(queue)))
    <3>1. GdbReplies \/ GdbStops => UNCHANGED <<readVars, masterVars>>
      BY GdbSays
    <3> QED BY <1>4, <3>1 DEF Next, GdbPrints, HandleDataGdb, Resume, Insert, vars, readVars, masterVars
  <2>2. ASSUME cuts = 0, NEW q \in 1 .. Len(queue') PROVE Later(queue'[q])
    <3> HIDE DEF Later
    <3>1. PICK p \in 1 .. Len(queue) : queue'[q] = queue[p]
      BY <1>1, <2>1, QueueServed
    <3>2. Whole(queue[p])
      BY <2>2 DEF WholeInv
    <3>3. queue[p] \in Nat /\ queue[p] <= Len(stream)
      BY <1>1
    <3> QED BY <1>2, <3>1, <3>2, <3>3
  <2> QED BY <2>1, <2>2 DEF WholeInv, Whole
<1> QED BY <1>3, <1>4

\* When all is handled, every batch is retired.
LEMMA AllRetired ==
  ASSUME TypeInv, ~InFlight, NEW n \in 0 .. Len(lines), BegunTo(n, handled), Collected(view, n)
  PROVE  Len(retired) = Len(written)
<1>1. /\ Laid /\ Ordered /\ handled \in Nat /\ Len(stream) \in Nat /\ handled >= Len(stream)
      /\ Len(lines) \in Nat /\ Len(written) \in Nat /\ AllPrinted
  <2>1. Laid /\ Ordered /\ handled \in Nat
    BY DEF TypeInv, QueueInv, StreamInv
  <2>2. Len(stream) \in Nat /\ Len(lines) \in Nat /\ Len(written) \in Nat
    BY <2>1 DEF Laid
  <2> QED BY <2>1, <2>2 DEF InFlight
<1>2. n = Len(lines)
  <2> SUFFICES ASSUME n < Len(lines) PROVE FALSE
    BY <1>1
  <2>1. n + 1 \in 1 .. Len(lines) /\ ~(n + 1 <= n)
    BY <1>1
  <2>2. PICK k : k = n + 1
    OBVIOUS
  <2>3. k \in 1 .. Len(lines) /\ ~Begun(k, handled)
    BY <2>1, <2>2 DEF BegunTo
  <2>4. /\ TextEnd(k) + 2 <= Len(stream) /\ lines[k].from \in Nat /\ TextEnd(k) \in Nat
        /\ lines[k].from < TextEnd(k)
    BY <1>1, <2>3, LineFacts DEF Laid, Lies
  <2> QED BY <1>1, <2>3, <2>4 DEF Begun
<1>3. Len(retired) = NextBatch(n) - 1
  BY DEF Collected, view
<1>4. CASE written = << >>
  <2>1. n = 0
    <3> SUFFICES ASSUME n # 0 PROVE FALSE
      OBVIOUS
    <3>1. lines[n].batch \in Nat \ {0} /\ lines[n].batch <= Len(written)
      BY <1>1, NextFacts
    <3> QED BY <1>4, <3>1
  <2> QED BY <1>3, <1>4, <2>1 DEF NextBatch
<1>5. CASE written # << >>
  <2> DEFINE b == Len(written)
  <2>1. b \in 1 .. Len(written) /\ written[b] \in Batches
    BY <1>1, <1>5 DEF Laid
  <2>2. LinesOf(written[b]) \in 2 .. 3 /\ printed = LinesOf(written[b])
    BY <1>1, <1>5, <2>1, BatchFacts DEF AllPrinted
  <2>3. LinesOf(written[b]) \in 1 .. LinesOf(written[b]) /\ LinesOf(written[b]) <= printed
    BY <2>2
  <2>4. PICK k \in 1 .. Len(lines) : lines[k].batch = b /\ lines[k].place = LinesOf(written[b])
    BY <1>1, <2>1, <2>3 DEF Ordered
  <2>5. n # 0 /\ n \in 1 .. Len(lines)
    BY <1>1, <1>2, <2>4
  <2>6. k = n
    <3> SUFFICES ASSUME k # n PROVE FALSE
      OBVIOUS
    <3>1. k \in 1 .. n - 1
      BY <1>1, <1>2
    <3>2. b < lines[n].batch \/ (b = lines[n].batch /\ LinesOf(written[b]) < lines[n].place)
      BY <1>1, <2>4, <2>5, <3>1 DEF Ordered
    <3>3. lines[n].batch \in Nat /\ lines[n].batch <= b /\ lines[n].place \in Nat
          /\ lines[n].place <= LinesOf(BatchAt(n))
      BY <1>1, <2>5, NextFacts
    <3>4. lines[n].batch = b
      BY <1>1, <3>2, <3>3
    <3>5. LinesOf(BatchAt(n)) = LinesOf(written[b]) /\ LinesOf(written[b]) \in Nat
      BY <2>2, <3>4 DEF BatchAt
    <3>6. LinesOf(written[b]) < lines[n].place /\ lines[n].place <= LinesOf(written[b])
          /\ lines[n].place \in Nat
      BY <1>1, <3>2, <3>3, <3>4, <3>5
    <3> QED BY <3>5, <3>6
  <2>7. PromptLine(n)
    BY <2>4, <2>6 DEF PromptLine, BatchAt
  <2> QED BY <1>1, <1>3, <2>4, <2>5, <2>6, <2>7 DEF NextBatch
<1> QED BY <1>4, <1>5

CollectedInv ==
  cuts = 0 => \E n \in 0 .. Len(lines) : BegunTo(n, handled) /\ Collected(view, n)

\* What GDB and the user do changes nothing of what was looked at.
LEMMA NextKept ==
  ASSUME TypeInv, [Next]_vars, NEW n \in 0 .. Len(lines)
  PROVE  /\ n \in 0 .. Len(lines') /\ NextBatch(n)' = NextBatch(n)
         /\ NextPlace(n)' = NextPlace(n)
         /\ BegunTo(n, handled) => \A m \in 1 .. Len(lines') : lines'[m].from < handled <=> m <= n
<1>1. Laid /\ Len(lines) \in Nat /\ handled \in Nat /\ Len(stream) \in Nat /\ handled <= Len(stream)
  BY DEF TypeInv, QueueInv, StreamInv, Laid
<1>2. Len(lines') \in Nat /\ n \in 0 .. Len(lines')
  <2>1. CASE n = 0
    BY <1>1, <2>1, LinesKept
  <2>2. CASE n # 0
    <3>1. n \in 1 .. Len(lines)
      BY <1>1, <2>2
    <3> QED BY <1>1, <3>1, LinesKept
  <2> QED BY <2>1, <2>2
<1>3. n # 0 => lines'[n] = lines[n] /\ (PromptLine(n)' <=> PromptLine(n))
  <2> SUFFICES ASSUME n # 0 PROVE lines'[n] = lines[n] /\ (PromptLine(n)' <=> PromptLine(n))
    OBVIOUS
  <2>1. n \in 1 .. Len(lines)
    BY <1>1
  <2> QED BY <2>1, LinesKept DEF PromptLine, BatchAt
<1>4. NextBatch(n)' = NextBatch(n) /\ NextPlace(n)' = NextPlace(n)
  BY <1>3 DEF NextBatch, NextPlace
<1>5. ASSUME BegunTo(n, handled), NEW m \in 1 .. Len(lines')
      PROVE  lines'[m].from < handled <=> m <= n
  <2>1. CASE m \in 1 .. Len(lines)
    BY <1>5, <2>1, LinesKept DEF BegunTo, Begun
  <2>2. CASE m \notin 1 .. Len(lines)
    <3>1. lines'[m].from = Len(stream) /\ m > Len(lines)
      BY <1>1, <2>2, LinesKept
    <3> QED BY <1>1, <3>1
  <2> QED BY <2>1, <2>2
<1> QED BY <1>2, <1>4, <1>5

LEMMA CollectedStep ==
  ASSUME TypeInv, WholeInv, CollectedInv, cuts' = 0, cuts = 0, [Next]_vars
  PROVE  CollectedInv'
<1>1. PICK n \in 0 .. Len(lines) : BegunTo(n, handled) /\ Collected(view, n)
  BY DEF CollectedInv
<1>2. TypeInv' /\ Len(written) \in Nat /\ written \in Seq(Batches)
  BY TypeInvStep DEF TypeInv, StreamInv, Laid
<1>3. ASSUME handled' = handled, po' = po, retired' = retired
      PROVE  CollectedInv'
  <2>1. n \in 0 .. Len(lines') /\ NextBatch(n)' = NextBatch(n) /\ NextPlace(n)' = NextPlace(n)
        /\ BegunTo(n, handled)'
    BY <1>1, <1>3, NextKept DEF BegunTo, Begun
  <2>2. \A b \in 1 .. Len(written) : written'[b] = written[b]
    <3>1. GdbReplies \/ GdbStops => \E batch \in Batches : written' = Append(written, batch)
      BY GdbSays DEF Say
    <3>2. ~(GdbReplies \/ GdbStops) => written' = written
      BY DEF Next, GdbPrints, Read, HandleDataGdb, Resume, Insert, vars, gdbVars
    <3> QED BY <1>2, <3>1, <3>2
  <2>3. Len(retired) = NextBatch(n) - 1 /\ NextBatch(n) - 1 <= Len(written) /\ NextBatch(n) \in Nat \ {0}
    BY <1>1, NextFacts DEF Collected, view, TypeInv, StreamInv
  <2>4. \A b \in 1 .. Len(retired) : written'[b] = written[b]
    BY <1>2, <2>2, <2>3
  <2>5. MeantTo(written'[NextBatch(n)], NextPlace(n) - 1)
          = MeantTo(written[NextBatch(n)], NextPlace(n) - 1)
    <3>1. CASE n = 0 \/ PromptLine(n)
      BY <3>1 DEF NextPlace, MeantTo
    <3>2. CASE ~(n = 0 \/ PromptLine(n))
      <4>1. NextBatch(n) = lines[n].batch /\ lines[n].batch <= Len(written)
            /\ lines[n].batch \in Nat \ {0}
        BY <3>2, NextFacts DEF NextBatch, TypeInv, StreamInv
      <4>2. written'[NextBatch(n)] = written[NextBatch(n)]
        BY <1>2, <2>2, <4>1
      <4> QED BY <4>2
    <3> QED BY <3>1, <3>2
  <2>6. Collected(view, n)'
    BY <1>1, <1>3, <2>1, <2>4, <2>5 DEF Collected, view
  <2> QED BY <2>1, <2>6 DEF CollectedInv
<1>4. GdbReplies \/ GdbStops => UNCHANGED masterVars
  BY GdbSays
<1>5. CASE ~HandleDataGdb
  BY <1>3, <1>4, <1>5 DEF Next, GdbPrints, Read, Resume, Insert, vars, masterVars
<1>6. CASE HandleDataGdb
  <2> DEFINE S == {v \in Views : \E m \in 0 .. Len(lines) : BegunTo(m, v.at) /\ Collected(v, m)}
  <2>1. /\ Head(queue) \in Nat /\ Head(queue) <= Len(stream) /\ StreamInv
        /\ \E i \in 1 .. Len(queue) : Head(queue) = queue[i]
    BY <1>6, HeadFacts DEF TypeInv, HandleDataGdb
  <2>2. Whole(Head(queue)) /\ Laid
    BY <2>1 DEF WholeInv, StreamInv
  <2>3. ASSUME NEW v \in S, NEW behind \in Behinds, v.at < Head(queue)
        PROVE  Round(v, Head(queue), behind) \in S
    <3>1. PICK m \in 0 .. Len(lines) : BegunTo(m, v.at) /\ Collected(v, m)
      OBVIOUS
    <3>2. v \in Views /\ Round(v, Head(queue), behind) \in Views
      BY <2>1, <2>2, <2>3, RoundTypes
    <3> QED BY <2>1, <2>2, <2>3, <3>1, <3>2, CollectedRound
  <2>4. view \in S /\ S \subseteq Views
    BY <1>1 DEF TypeInv, view
  <2>5. view' \in S
    <3> HIDE DEF S
    <3> QED BY <1>6, <2>3, <2>4, HandlerKeeps DEF TypeInv
  <2>6. PICK m \in 0 .. Len(lines) : BegunTo(m, view'.at) /\ Collected(view', m)
    BY <2>5
  <2>7. lines' = lines /\ written' = written /\ view'.at = handled'
    BY <1>6 DEF HandleDataGdb, gdbVars, wireVars, view
  <2>8. NextBatch(m)' = NextBatch(m) /\ NextPlace(m)' = NextPlace(m)
    BY <2>7 DEF NextBatch, NextPlace, PromptLine, BatchAt
  <2>9. BegunTo(m, handled)' /\ Collected(view, m)'
    BY <2>6, <2>7, <2>8 DEF BegunTo, Begun, Collected
  <2> QED BY <2>6, <2>7, <2>9 DEF CollectedInv
<1> QED BY <1>5, <1>6

LEMMA CollectedInit ==
  ASSUME Init
  PROVE  WholeInv /\ CollectedInv
<1>1. po = << >> /\ retired = << >> /\ queue = << >> /\ lines = << >> /\ handled = 0
  BY DEF Init
<1>2. WholeInv
  BY <1>1 DEF WholeInv
<1>3. BegunTo(0, handled) /\ 0 \in 0 .. Len(lines)
  BY <1>1 DEF BegunTo
<1>4. OutputsOf(view.po) = MeantTo(written[NextBatch(0)], NextPlace(0) - 1)
  BY <1>1 DEF view, OutputsOf, MeantTo, NextPlace
<1>5. Collected(view, 0)
  BY <1>1, <1>4 DEF Collected, view, NextBatch
<1> QED BY <1>2, <1>3, <1>5 DEF CollectedInv

\* As long as no read ended inside a line, the batches are retired as GDB meant them, in
\* order, and all of them when all is handled (mi_get_response, mi_retire_response).
THEOREM BatchesRetired == Spec => []BatchesAsPrinted
<1> DEFINE I == TypeInv /\ WholeInv /\ CollectedInv
<1>1. Init => I
  BY TypeInvInit, CollectedInit
<1>2. I /\ [Next]_vars => I'
  <2> SUFFICES ASSUME I, [Next]_vars PROVE I'
    OBVIOUS
  <2>1. TypeInv' /\ WholeInv' /\ (cuts' = 0 => cuts = 0)
    BY TypeInvStep, WholeStep
  <2>2. CollectedInv'
    BY <2>1, CollectedStep DEF CollectedInv
  <2> QED BY <2>1, <2>2
<1>3. I => BatchesAsPrinted
  <2> SUFFICES ASSUME I, cuts = 0 PROVE BatchesAsPrinted
    BY DEF BatchesAsPrinted
  <2>1. PICK n \in 0 .. Len(lines) : BegunTo(n, handled) /\ Collected(view, n)
    BY DEF CollectedInv
  <2>2. NextBatch(n) - 1 <= Len(written)
    BY NextFacts DEF TypeInv, StreamInv
  <2>3. ~InFlight => Len(retired) = Len(written)
    BY <2>1, AllRetired
  <2> QED BY <2>1, <2>2, <2>3 DEF BatchesAsPrinted, Collected, view
<1> QED BY <1>1, <1>2, <1>3, PTL DEF Spec

-----------------------------------------------------------------------------
(* The master catches up *)

\* What a batch tells: what the target does, or the answer to an insertion.
KindOf(batch) ==
  IF Len(batch) = 1 THEN (IF batch[1].class = "done" THEN "done" ELSE "error")
  ELSE IF batch[1].type = "^" THEN "running"
  ELSE IF batch[1].type = "~" THEN "stopped" ELSE "exited"
Telling(batch) == KindOf(batch) \in {"running", "stopped", "exited"}

LEMMA KindFacts ==
  /\ KindOf(RunBatch) = "running" /\ KindOf(StopBatch) = "stopped" /\ KindOf(ExitBatch) = "exited"
  /\ KindOf(ErrorBatch) = "error" /\ \A n \in Numbers : KindOf(DoneBatch(n)) = "done"
<1>1. KindOf(RunBatch) = "running"
  BY DEF RunBatch, KindOf, Output
<1>2. KindOf(StopBatch) = "stopped"
  <2>1. PICK x, y : StopBatch = <<Output("~", "stream", x), y>>
    BY Zenon DEF StopBatch
  <2> QED BY <2>1 DEF KindOf, Output
<1>3. KindOf(ExitBatch) = "exited"
  <2>1. PICK x, y : ExitBatch = <<Output("=", "thread-exited", x), y>>
    BY Zenon DEF ExitBatch
  <2> QED BY <2>1 DEF KindOf, Output
<1>4. KindOf(ErrorBatch) = "error"
  <2>1. PICK x : ErrorBatch = <<Output("^", "error", x)>>
    BY Zenon DEF ErrorBatch
  <2> QED BY <2>1 DEF KindOf, Output
<1>5. ASSUME NEW n \in Numbers PROVE KindOf(DoneBatch(n)) = "done"
  <2>1. PICK x : DoneBatch(n) = <<Output("^", "done", x)>>
    BY Zenon DEF DoneBatch
  <2> QED BY <2>1 DEF KindOf, Output
<1> QED BY <1>1, <1>2, <1>3, <1>4, <1>5

\* Of one output, or of one behind another that is no more than text.
LEMMA OneOutput ==
  ASSUME NEW o, NEW s, s = <<o>> \/ (\E x : s = <<Output("~", "stream", x), o>>)
  PROVE  /\ ChangesState(o) => Changes(s) = {Len(s)} /\ s[Len(s)] = o
         /\ ~ChangesState(o) => Changes(s) = {}
         /\ IsStop(o) => Stops(s) # {} /\ FirstStop(s) = o
         /\ ~IsStop(o) => Stops(s) = {}
         /\ (\E i \in DOMAIN s : IsRunning(s[i])) <=> IsRunning(o)
         /\ o.type = "^" => Replies(s) # {} /\ FirstReply(s) = o
         /\ o.type # "^" => Replies(s) = {}
<1>1. Least({1}) = 1 /\ Least({2}) = 2
  BY DEF Least
<1>2. CASE s = <<o>>
  <2>1. DOMAIN s = {1} /\ s[1] = o /\ Len(s) = 1
    BY <1>2
  <2>2. Changes(s) = IF ChangesState(o) THEN {1} ELSE {}
    BY <2>1 DEF Changes
  <2>3. Stops(s) = IF IsStop(o) THEN {1} ELSE {}
    BY <2>1 DEF Stops
  <2>4. Replies(s) = IF o.type = "^" THEN {1} ELSE {}
    BY <2>1 DEF Replies
  <2> QED BY <1>1, <2>1, <2>2, <2>3, <2>4 DEF FirstStop, FirstReply
<1>3. ASSUME NEW x, s = <<Output("~", "stream", x), o>>
      PROVE  /\ ChangesState(o) => Changes(s) = {Len(s)} /\ s[Len(s)] = o
             /\ ~ChangesState(o) => Changes(s) = {}
             /\ IsStop(o) => Stops(s) # {} /\ FirstStop(s) = o
             /\ ~IsStop(o) => Stops(s) = {}
             /\ (\E i \in DOMAIN s : IsRunning(s[i])) <=> IsRunning(o)
             /\ o.type = "^" => Replies(s) # {} /\ FirstReply(s) = o
             /\ o.type # "^" => Replies(s) = {}
  <2>1. DOMAIN s = {1, 2} /\ s[2] = o /\ Len(s) = 2 /\ s[1] = Output("~", "stream", x)
    BY <1>3
  <2>2. s[1].type = "~" /\ s[1].class = "stream"
    BY <2>1 DEF Output
  <2>3. Changes(s) = IF ChangesState(o) THEN {2} ELSE {}
    BY <2>1, <2>2 DEF Changes, ChangesState
  <2>4. Stops(s) = IF IsStop(o) THEN {2} ELSE {}
    BY <2>1, <2>2 DEF Stops, IsStop
  <2>5. Replies(s) = IF o.type = "^" THEN {2} ELSE {}
    BY <2>1, <2>2 DEF Replies
  <2>6. (\E i \in DOMAIN s : IsRunning(s[i])) <=> IsRunning(o)
    BY <2>1, <2>2 DEF IsRunning
  <2> QED BY <1>1, <2>1, <2>3, <2>4, <2>5, <2>6 DEF FirstStop, FirstReply
<1> QED BY <1>2, <1>3

\* What is meant by each batch.
LEMMA MeantBatches ==
  /\ Meant(RunBatch) = <<Output("^", "running", << >>)>>
  /\ \E x : Meant(ErrorBatch) = <<Output("^", "error", x)>>
  /\ \E x : Meant(StopBatch) = <<Output("~", "stream", x), StopBatch[2]>>
  /\ Meant(ExitBatch) = <<ExitBatch[2]>>
  /\ \A n \in Numbers : Meant(DoneBatch(n)) = DoneBatch(n)
<1>1. RunBatch \in Batches /\ ErrorBatch \in Batches /\ StopBatch \in Batches
      /\ ExitBatch \in Batches /\ \A n \in Numbers : DoneBatch(n) \in Batches
  BY Zenon DEF Batches
<1>2. \A batch \in Batches :
        /\ Len(batch) = 1 => Meant(batch) = One(batch[1])
        /\ Len(batch) = 2 => Meant(batch) = One(batch[1]) \o One(batch[2])
  BY MeantFacts DEF MeantTo
<1>8. \A o : (Known(o) => One(o) = <<o>>) /\ (~Known(o) => One(o) = << >>)
  BY DEF One
<1>9. ASSUME NEW x, NEW y
      PROVE  <<x>> \o << >> = <<x>> /\ << >> \o <<y>> = <<y>> /\ <<x>> \o <<y>> = <<x, y>>
  <2>1. <<x>> \in Seq({x, y}) /\ <<y>> \in Seq({x, y}) /\ << >> \in Seq({x, y})
    OBVIOUS
  <2>2. <<x>> \o << >> = <<x>> /\ << >> \o <<y>> = <<y>>
    BY <2>1
  <2>3. <<x>> \o <<y>> = <<x, y>>
    <3> DEFINE s == <<x>> \o <<y>>
               t == <<x, y>>
    <3>1. s \in Seq({x, y}) /\ Len(s) = 2 /\ s[1] = x /\ s[2] = y
      BY <2>1
    <3>2. t \in Seq({x, y}) /\ Len(t) = 2 /\ t[1] = x /\ t[2] = y
      OBVIOUS
    <3> HIDE DEF s, t
    <3>3. \A i \in 1 .. Len(s) : s[i] = t[i]
      BY <3>1, <3>2
    <3>4. s = t
      BY <3>1, <3>2, <3>3, SeqEqual
    <3> QED BY <3>4 DEF s, t
  <2> QED BY <2>2, <2>3
<1>3. Meant(RunBatch) = <<Output("^", "running", << >>)>>
  <2>1. PICK a, c : a = Output("^", "running", << >>) /\ c = Output("*", "running", << >>)
    OBVIOUS
  <2>2. Known(a) /\ ~Known(c)
    BY <2>1 DEF Known, Output
  <2>3. RunBatch = <<a, c>>
    BY <2>1 DEF RunBatch
  <2>4. Len(RunBatch) = 2 /\ RunBatch[1] = a /\ RunBatch[2] = c
    BY <2>3
  <2>5. Meant(RunBatch) = One(a) \o One(c)
    BY <1>1, <1>2, <2>4
  <2> QED BY <1>8, <1>9, <2>1, <2>2, <2>5
<1>4. \E x : Meant(ErrorBatch) = <<Output("^", "error", x)>>
  <2>1. PICK x : ErrorBatch = <<Output("^", "error", x)>>
    BY Zenon DEF ErrorBatch
  <2>2. Len(ErrorBatch) = 1 /\ ErrorBatch[1] = Output("^", "error", x)
    BY <2>1
  <2>3. Known(ErrorBatch[1])
    BY <2>2 DEF Known, Output
  <2> QED BY <1>1, <1>2, <1>8, <2>2, <2>3
<1>5. \E x : Meant(StopBatch) = <<Output("~", "stream", x), StopBatch[2]>>
  <2>1. PICK x, y : StopBatch = <<Output("~", "stream", x), Output("*", "stopped", y)>>
    BY Zenon DEF StopBatch
  <2>2. Len(StopBatch) = 2 /\ StopBatch[1] = Output("~", "stream", x)
        /\ StopBatch[2] = Output("*", "stopped", y)
    BY <2>1
  <2>3. Known(StopBatch[1]) /\ Known(StopBatch[2])
    BY <2>2 DEF Known, Output
  <2>4. Meant(StopBatch) = One(StopBatch[1]) \o One(StopBatch[2])
    BY <1>1, <1>2, <2>2
  <2>5. Meant(StopBatch) = <<StopBatch[1], StopBatch[2]>>
    BY <1>8, <1>9, <2>3, <2>4
  <2> QED BY <2>2, <2>5
<1>6. Meant(ExitBatch) = <<ExitBatch[2]>>
  <2>1. PICK x, y : ExitBatch = <<Output("=", "thread-exited", x), Output("*", "stopped", y)>>
    BY Zenon DEF ExitBatch
  <2>2. Len(ExitBatch) = 2 /\ ~Known(ExitBatch[1]) /\ Known(ExitBatch[2])
    BY <2>1 DEF Known, Output
  <2>3. Meant(ExitBatch) = One(ExitBatch[1]) \o One(ExitBatch[2])
    BY <1>1, <1>2, <2>2
  <2> QED BY <1>8, <1>9, <2>2, <2>3
<1>7. ASSUME NEW n \in Numbers PROVE Meant(DoneBatch(n)) = DoneBatch(n)
  <2>1. PICK x : DoneBatch(n) = <<Output("^", "done", x)>>
    BY Zenon DEF DoneBatch
  <2>2. Len(DoneBatch(n)) = 1 /\ DoneBatch(n) = <<DoneBatch(n)[1]>> /\ Known(DoneBatch(n)[1])
    BY <2>1 DEF Known, Output
  <2> QED BY <1>1, <1>2, <1>8, <2>2
<1> QED BY <1>3, <1>4, <1>5, <1>6, <1>7

LEMMA OneTold ==
  ASSUME NEW o, NEW s, s = <<o>> \/ (\E x : s = <<Output("~", "stream", x), o>>),
         NEW state, NEW file
  PROVE  /\ LastChange(s, state) = IF ChangesState(o)
                                   THEN IF IsRunning(o) THEN "RUNNING" ELSE "STOPPED"
                                   ELSE state
         /\ FirstStopExited(s) <=> IsStop(o) /\ Exited(o)
         /\ FileAfter(s, file) = IF IsStop(o) /\ HasFile(o) THEN FileNamed(o)
                                 ELSE IF (IsStop(o) /\ Exited(o)) \/ IsRunning(o) THEN "none"
                                 ELSE file
         /\ HasBkpt(s) <=> o.type = "^" /\ NamesBkpt(o)
         /\ o.type = "^" => FirstReply(s) = o
<1>1. /\ ChangesState(o) => Changes(s) = {Len(s)} /\ s[Len(s)] = o
      /\ ~ChangesState(o) => Changes(s) = {}
  BY OneOutput
<1>2. /\ IsStop(o) => Stops(s) # {} /\ FirstStop(s) = o
      /\ ~IsStop(o) => Stops(s) = {}
  BY OneOutput
<1>3. (\E i \in DOMAIN s : IsRunning(s[i])) <=> IsRunning(o)
  BY OneOutput
<1>4. /\ o.type = "^" => Replies(s) # {} /\ FirstReply(s) = o
      /\ o.type # "^" => Replies(s) = {}
  BY OneOutput
<1>5. Len(s) \in Nat
  <2>1. CASE s = <<o>>
    BY <2>1
  <2>2. ASSUME NEW x, s = <<Output("~", "stream", x), o>> PROVE Len(s) \in Nat
    BY <2>2
  <2> QED BY <2>1, <2>2
<1>6. Greatest({Len(s)}) = Len(s)
  BY <1>5 DEF Greatest
<1>7. LastChange(s, state) = IF ChangesState(o) THEN IF IsRunning(o) THEN "RUNNING" ELSE "STOPPED"
                             ELSE state
  BY <1>1, <1>6 DEF LastChange
<1>8. FirstStopExited(s) <=> IsStop(o) /\ Exited(o)
  BY <1>2 DEF FirstStopExited
<1>9. FileAfter(s, file) = IF IsStop(o) /\ HasFile(o) THEN FileNamed(o)
                           ELSE IF (IsStop(o) /\ Exited(o)) \/ IsRunning(o) THEN "none"
                           ELSE file
  BY <1>2, <1>3, <1>8 DEF FileAfter
<1>10. HasBkpt(s) <=> o.type = "^" /\ NamesBkpt(o)
  BY <1>4 DEF HasBkpt
<1> QED BY <1>4, <1>7, <1>8, <1>9, <1>10

\* A result that is a text, alone of its name.
LEMMA OneText ==
  ASSUME NEW results, NEW var, NEW i \in Nat, Named(results, var) = {i},
         "text" \in DOMAIN results[i].value
  PROVE  Consts(results, var) # {} /\ LastText(results, var) = results[i].value.text
<1>1. Consts(results, var) = {i}
  BY DEF Consts
<1>2. Greatest({i}) = i
  BY DEF Greatest
<1> QED BY <1>1, <1>2 DEF LastText

\* Of the stops one is an exit, and the other names a file.
LEMMA StopFacts ==
  /\ StopBatch[2].type = "*" /\ StopBatch[2].class = "stopped"
  /\ HasFile(StopBatch[2]) /\ FileNamed(StopBatch[2]) = "/f" /\ ~Exited(StopBatch[2])
  /\ ExitBatch[2].type = "*" /\ ExitBatch[2].class = "stopped"
  /\ ~HasFile(ExitBatch[2]) /\ Exited(ExitBatch[2])
<1> DEFINE reason == Res("reason", <<"end-stepping-range">>)
           exit == Res("reason", <<"exited-normally">>)
           full == Res("fullname", <<"/f">>)
<1>1. PICK x, args : /\ StopBatch = <<x, Output("*", "stopped", <<reason, Tuple("frame", <<args, full>>)>>)>>
                     /\ args.var = "args"
  <2>1. PICK arg : arg = [var |-> "args", value |-> [list |-> Arguments]]
    OBVIOUS
  <2>2. \E x : StopBatch = <<x, Output("*", "stopped", <<reason, Tuple("frame", <<arg, full>>)>>)>>
    BY Zenon, <2>1 DEF StopBatch, reason, full
  <2>3. arg.var = "args"
    BY <2>1
  <2> HIDE DEF reason, full
  <2> QED BY Zenon, <2>2, <2>3
<1>2. PICK y : ExitBatch = <<y, Output("*", "stopped", <<exit>>)>>
  BY Zenon DEF ExitBatch, exit
<1> DEFINE frame == Tuple("frame", <<args, full>>)
           stop == StopBatch[2]
           exited == ExitBatch[2]
<1>3. stop.type = "*" /\ stop.class = "stopped" /\ stop.results = <<reason, frame>>
  BY <1>1 DEF Output
<1>4. exited.type = "*" /\ exited.class = "stopped" /\ exited.results = <<exit>>
  BY <1>2 DEF Output
<1> HIDE DEF stop, exited
<1>5. /\ reason = [var |-> "reason", value |-> [text |-> <<"end-stepping-range">>]]
      /\ exit = [var |-> "reason", value |-> [text |-> <<"exited-normally">>]]
      /\ full = [var |-> "fullname", value |-> [text |-> <<"/f">>]]
      /\ frame = [var |-> "frame", value |-> [tuple |-> <<args, full>>]]
  BY DEF Res, Tuple
<1> HIDE DEF reason, exit, full, frame
<1>6. HasFile(stop) /\ FileNamed(stop) = "/f" /\ ~Exited(stop)
  <2> DEFINE results == stop.results
             inside == <<args, full>>
  <2>1. DOMAIN results = {1, 2} /\ results[1] = reason /\ results[2] = frame
    BY <1>3
  <2>2. DOMAIN inside = {1, 2} /\ inside[1].var = "args" /\ inside[2] = full
    BY <1>1
  <2>3. results[2].value = [tuple |-> inside]
    BY <1>5, <2>1
  <2> HIDE DEF results, inside
  <2>4. Named(results, "reason") = {1} /\ Named(results, "frame") = {2}
    BY <1>5, <2>1 DEF Named
  <2>5. Named(inside, "fullname") = {2}
    BY <1>5, <2>2 DEF Named
  <2>6. LastText(results, "reason") = <<"end-stepping-range">>
    BY <1>5, <2>1, <2>4, OneText
  <2>7. Consts(inside, "fullname") # {} /\ LastText(inside, "fullname") = <<"/f">>
    BY <1>5, <2>2, <2>5, OneText
  <2>8. Frames(stop) = {2}
    BY <2>3, <2>4 DEF Frames, Tuples, Lists, results
  <2>9. FrameOf(stop) = inside
    <3>1. Greatest({2}) = 2
      BY DEF Greatest
    <3> QED BY <2>3, <2>8, <3>1 DEF FrameOf, results
  <2>10. <<"end-stepping-range">> \notin {<<"exited-signalled">>, <<"exited">>, <<"exited-normally">>}
    OBVIOUS
  <2> QED BY <2>6, <2>7, <2>8, <2>9, <2>10 DEF HasFile, FileNamed, Exited, results
<1>7. ~HasFile(exited) /\ Exited(exited)
  <2> DEFINE results == exited.results
  <2>1. DOMAIN results = {1} /\ results[1] = exit
    BY <1>4
  <2> HIDE DEF results
  <2>2. Named(results, "reason") = {1} /\ Named(results, "frame") = {}
    BY <1>5, <2>1 DEF Named
  <2>3. Consts(results, "reason") # {} /\ LastText(results, "reason") = <<"exited-normally">>
    BY <1>5, <2>1, <2>2, OneText
  <2>4. Frames(exited) = {}
    BY <2>2 DEF Frames, Tuples, Lists, results
  <2> QED BY <2>3, <2>4 DEF HasFile, Exited, results
<1> QED BY <1>3, <1>4, <1>6, <1>7 DEF stop, exited

\* The breakpoint in the answer to an insertion.
LEMMA DoneFacts ==
  ASSUME NEW n \in Numbers
  PROVE  \E o : /\ DoneBatch(n) = <<o>> /\ o.type = "^"
                /\ NamesBkpt(o) /\ NumberIn(o) = n
<1> DEFINE inner == Res("number", <<NumberText[n]>>)
           outer == Tuple("bkpt", <<inner>>)
           o == Output("^", "done", <<outer>>)
<1>1. DoneBatch(n) = <<o>>
  BY Zenon DEF DoneBatch
<1>2. o.type = "^" /\ o.class = "done" /\ o.results = <<outer>>
  BY DEF Output
<1>3. /\ outer = [var |-> "bkpt", value |-> [tuple |-> <<inner>>]]
      /\ inner = [var |-> "number", value |-> [text |-> <<NumberText[n]>>]]
  BY DEF Res, Tuple
<1> HIDE DEF o, outer, inner
<1>4. Named(<<outer>>, "bkpt") = {1} /\ Named(<<inner>>, "number") = {1}
  BY <1>3 DEF Named
<1>5. Least({1}) = 1
  BY DEF Least
<1>6. BkptOf(o) = [tuple |-> <<inner>>]
  BY <1>2, <1>3, <1>4, <1>5 DEF BkptOf
<1>7. Consts(<<inner>>, "number") # {} /\ LastText(<<inner>>, "number") = <<NumberText[n]>>
  <2>1. <<inner>>[1].value = [text |-> <<NumberText[n]>>]
    BY <1>3
  <2>2. "text" \in DOMAIN <<inner>>[1].value /\ <<inner>>[1].value.text = <<NumberText[n]>>
    BY <2>1
  <2> QED BY <1>4, <2>2, OneText
<1>8. NumberIn(o) = n
  BY <1>6, <1>7, NumberOfText DEF NumberIn
<1>9. NamesBkpt(o)
  BY <1>2, <1>4, <1>6 DEF NamesBkpt
<1> QED BY <1>1, <1>2, <1>8, <1>9

FileOf(kind) == IF kind = "stopped" THEN "/f" ELSE "none"

\* What the master knows after a batch that is retired as it is meant.
LEMMA RetireTold ==
  ASSUME NEW v \in Views, NEW batch \in Batches, OutputsOf(v.po) = Meant(batch)
  PROVE  /\ Telling(batch) => /\ Retire(v).state = Shown(KindOf(batch))
                              /\ Retire(v).file = FileOf(KindOf(batch))
         /\ ~Telling(batch) => Retire(v).state = v.state /\ Retire(v).file = v.file
         /\ KindOf(batch) # "done" => Retire(v).number = v.number /\ Retire(v).awaited = v.awaited
         /\ \A n \in Numbers : batch = DoneBatch(n) /\ v.awaited => Retire(v).number = n
<1> DEFINE s == Meant(batch)
<1>1. /\ Retire(v).state = IF FirstStopExited(s) THEN "EXITED" ELSE LastChange(s, v.state)
      /\ Retire(v).file = FileAfter(s, v.file)
      /\ v.awaited /\ HasBkpt(s) => Retire(v).number = BkptNumber(s)
      /\ ~HasBkpt(s) => Retire(v).number = v.number /\ Retire(v).awaited = v.awaited
  <2>1. /\ "state" \in DOMAIN v /\ "file" \in DOMAIN v /\ "number" \in DOMAIN v
        /\ "awaited" \in DOMAIN v /\ v.awaited \in BOOLEAN
    BY DEF Views
  <2>2. Retire(v).state = IF FirstStopExited(s) THEN "EXITED" ELSE LastChange(s, v.state)
    BY <2>1 DEF Retire
  <2>3. Retire(v).file = FileAfter(s, v.file)
    BY <2>1 DEF Retire
  <2>4. v.awaited /\ HasBkpt(s) => Retire(v).number = BkptNumber(s)
    BY <2>1 DEF Retire
  <2>5. ~HasBkpt(s) => Retire(v).number = v.number /\ Retire(v).awaited = v.awaited
    BY <2>1 DEF Retire
  <2> QED BY <2>2, <2>3, <2>4, <2>5
<1> HIDE DEF s
\* The output that tells of it, o, and what follows from what o is.
<1>2. ASSUME NEW o, s = <<o>> \/ (\E x : s = <<Output("~", "stream", x), o>>)
      PROVE  /\ Retire(v).state = IF IsStop(o) /\ Exited(o) THEN "EXITED"
                                  ELSE IF ChangesState(o)
                                  THEN IF IsRunning(o) THEN "RUNNING" ELSE "STOPPED"
                                  ELSE v.state
             /\ Retire(v).file = IF IsStop(o) /\ HasFile(o) THEN FileNamed(o)
                                 ELSE IF (IsStop(o) /\ Exited(o)) \/ IsRunning(o) THEN "none"
                                 ELSE v.file
             /\ HasBkpt(s) <=> o.type = "^" /\ NamesBkpt(o)
             /\ o.type = "^" => FirstReply(s) = o
  BY <1>1, <1>2, OneTold
<1>3. CASE batch = RunBatch
  <2> DEFINE o == Output("^", "running", << >>)
  <2>1. s = <<o>>
    BY <1>3, MeantBatches DEF s
  <2>2. o.type = "^" /\ o.class = "running"
    BY DEF Output
  <2> HIDE DEF o
  <2>3. ~IsStop(o) /\ ChangesState(o) /\ IsRunning(o) /\ ~NamesBkpt(o)
    BY <2>2 DEF IsStop, ChangesState, IsRunning, NamesBkpt
  <2>4. Retire(v).state = "RUNNING" /\ Retire(v).file = "none" /\ ~HasBkpt(s)
    BY <1>2, <2>1, <2>2, <2>3
  <2>5. KindOf(batch) = "running" /\ \A n \in Numbers : batch # DoneBatch(n)
    BY <1>3, KindFacts
  <2> QED BY <1>1, <2>4, <2>5 DEF Telling, Shown, FileOf
<1>4. CASE batch = ErrorBatch
  <2>1. PICK x : s = <<Output("^", "error", x)>>
    BY <1>4, MeantBatches DEF s
  <2> DEFINE o == Output("^", "error", x)
  <2>2. o.type = "^" /\ o.class = "error"
    BY DEF Output
  <2> HIDE DEF o
  <2>3. ~IsStop(o) /\ ~ChangesState(o) /\ ~IsRunning(o) /\ ~NamesBkpt(o)
    BY <2>2 DEF IsStop, ChangesState, IsRunning, NamesBkpt
  <2>4. s = <<o>>
    BY <2>1 DEF o
  <2>5. Retire(v).state = v.state /\ Retire(v).file = v.file /\ ~HasBkpt(s)
    BY <1>2, <2>2, <2>3, <2>4
  <2>6. KindOf(batch) = "error" /\ \A n \in Numbers : batch # DoneBatch(n)
    BY <1>4, KindFacts
  <2> QED BY <1>1, <2>5, <2>6 DEF Telling
<1>5. CASE batch = StopBatch
  <2> DEFINE o == StopBatch[2]
  <2>1. \E x : s = <<Output("~", "stream", x), o>>
    BY <1>5, MeantBatches DEF s
  <2>2. /\ o.type = "*" /\ o.class = "stopped"
        /\ HasFile(o) /\ FileNamed(o) = "/f" /\ ~Exited(o)
    BY StopFacts
  <2> HIDE DEF o
  <2>3. IsStop(o) /\ ChangesState(o) /\ ~IsRunning(o)
    BY <2>2 DEF IsStop, ChangesState, IsRunning
  <2>4. Retire(v).state = "STOPPED" /\ Retire(v).file = "/f" /\ ~HasBkpt(s)
    BY <1>2, <2>1, <2>2, <2>3
  <2>5. KindOf(batch) = "stopped" /\ \A n \in Numbers : batch # DoneBatch(n)
    BY <1>5, KindFacts
  <2> QED BY <1>1, <2>4, <2>5 DEF Telling, Shown, FileOf
<1>6. CASE batch = ExitBatch
  <2> DEFINE o == ExitBatch[2]
  <2>1. s = <<o>>
    BY <1>6, MeantBatches DEF s
  <2>2. o.type = "*" /\ o.class = "stopped" /\ ~HasFile(o) /\ Exited(o)
    BY StopFacts
  <2> HIDE DEF o
  <2>3. IsStop(o) /\ ChangesState(o) /\ ~IsRunning(o)
    BY <2>2 DEF IsStop, ChangesState, IsRunning
  <2>4. Retire(v).state = "EXITED" /\ Retire(v).file = "none" /\ ~HasBkpt(s)
    BY <1>2, <2>1, <2>2, <2>3
  <2>5. KindOf(batch) = "exited" /\ \A n \in Numbers : batch # DoneBatch(n)
    BY <1>6, KindFacts
  <2> QED BY <1>1, <2>4, <2>5 DEF Telling, Shown, FileOf
<1>7. ASSUME NEW n \in Numbers, batch = DoneBatch(n)
      PROVE  /\ Telling(batch) => /\ Retire(v).state = Shown(KindOf(batch))
                                  /\ Retire(v).file = FileOf(KindOf(batch))
             /\ ~Telling(batch) => Retire(v).state = v.state /\ Retire(v).file = v.file
             /\ KindOf(batch) # "done" => Retire(v).number = v.number
                                          /\ Retire(v).awaited = v.awaited
             /\ \A m \in Numbers : batch = DoneBatch(m) /\ v.awaited => Retire(v).number = m
  <2>1. PICK o : DoneBatch(n) = <<o>> /\ o.type = "^" /\ NamesBkpt(o) /\ NumberIn(o) = n
    BY DoneFacts
  <2>2. s = <<o>>
    BY <1>7, <2>1, MeantBatches DEF s
  <2>3. ~IsStop(o) /\ ~ChangesState(o) /\ ~IsRunning(o)
    BY <2>1 DEF NamesBkpt, IsStop, ChangesState, IsRunning
  <2>4. /\ Retire(v).state = v.state /\ Retire(v).file = v.file /\ HasBkpt(s)
        /\ FirstReply(s) = o
    BY <1>2, <2>1, <2>2, <2>3
  <2>5. BkptNumber(s) = n
    BY <2>1, <2>4 DEF BkptNumber
  <2>6. KindOf(batch) = "done"
    BY <1>7, KindFacts
  <2>7. \A m \in Numbers : batch = DoneBatch(m) => m = n
    <3> SUFFICES ASSUME NEW m \in Numbers, batch = DoneBatch(m) PROVE m = n
      OBVIOUS
    <3>1. PICK q : DoneBatch(m) = <<q>> /\ NumberIn(q) = m
      BY DoneFacts
    <3>2. q = o
      <4>1. <<q>> = <<o>>
        BY Zenon, <1>7, <2>1, <3>1
      <4> QED BY <4>1
    <3> QED BY <2>1, <3>1, <3>2
  <2> QED BY <1>1, <2>4, <2>5, <2>6, <2>7 DEF Telling
<1> QED BY <1>3, <1>4, <1>5, <1>6, <1>7 DEF Batches

\* Batch b is the last of the first n that tells what the target does.
LastTelling(b, n) ==
  b \in 1 .. n /\ Telling(written[b]) /\ \A c \in b + 1 .. n : ~Telling(written[c])

\* GDB has told what the target does.
GdbInv ==
  /\ written = << >> => gdb = "running"
  /\ written # << >> => \E b \in 1 .. Len(written) : LastTelling(b, Len(written))
                                                     /\ gdb = KindOf(written[b])

\* The master knows what the batches retired have told.
TellInv(v) ==
  /\ Len(v.retired) = 0 => v.state = "UNKNOWN"
  /\ \A b \in 1 .. Len(v.retired) : LastTelling(b, Len(v.retired)) =>
       v.state = Shown(KindOf(written[b])) /\ v.file = FileOf(KindOf(written[b]))

\* It knows the last number given, or the one answer not retired will tell it.
NoneDone(n, but) == \A c \in n + 1 .. Len(written) : c # but => KindOf(written[c]) # "done"
NumberInv(v) ==
  ~hasty =>
    \/ NoneDone(Len(v.retired), 0) /\ v.number = given
    \/ /\ v.awaited /\ given \in Numbers
       /\ \E c \in Len(v.retired) + 1 .. Len(written) :
            written[c] = DoneBatch(given) /\ NoneDone(Len(v.retired), c)

KnowsInv(v) == TellInv(v) /\ NumberInv(v)

LEMMA KnowsRound ==
  ASSUME written \in Seq(Batches), NEW v \in Views, NEW w \in Views, KnowsInv(v),
         Goes(v, w) \/ Retires(v, w)
  PROVE  KnowsInv(w)
<1> DEFINE n == Len(v.retired) + 1
<1>0. Len(v.retired) \in Nat /\ Len(written) \in Nat
  BY DEF Views
<1>1. CASE Goes(v, w)
  BY <1>1 DEF Goes, KnowsInv, TellInv, NumberInv
<1>2. CASE Retires(v, w)
  <2>1. /\ n \in 1 .. Len(written) /\ OutputsOf(v.po) = Meant(written[n])
        /\ w = [Retire(v) EXCEPT !.at = w.at]
    BY <1>2 DEF Retires
  <2>2. written[n] \in Batches
    BY <2>1
  <2>3. /\ w.retired = Append(v.retired, v.po) /\ w.state = Retire(v).state
        /\ w.file = Retire(v).file /\ w.awaited = Retire(v).awaited
        /\ w.number = Retire(v).number
    BY <2>1, RetireFacts DEF Views
  <2>4. Len(w.retired) = n
    BY <1>0, <2>3 DEF Views
  <2>5. /\ Telling(written[n]) => /\ w.state = Shown(KindOf(written[n]))
                                  /\ w.file = FileOf(KindOf(written[n]))
        /\ ~Telling(written[n]) => w.state = v.state /\ w.file = v.file
        /\ KindOf(written[n]) # "done" => w.number = v.number /\ w.awaited = v.awaited
        /\ \A m \in Numbers : written[n] = DoneBatch(m) /\ v.awaited => w.number = m
    BY <2>1, <2>2, <2>3, RetireTold
  <2>6. n # 0 /\ n \in Nat /\ n - 1 = Len(v.retired)
    BY <1>0
  <2> HIDE DEF n
  <2>7. ASSUME NEW b \in 1 .. n, LastTelling(b, n)
        PROVE  w.state = Shown(KindOf(written[b])) /\ w.file = FileOf(KindOf(written[b]))
    <3>1. CASE b = n
      BY <2>5, <2>7, <3>1 DEF LastTelling
    <3>2. CASE b # n
      <4>1. b \in 1 .. n - 1 /\ n \in b + 1 .. n /\ \A c \in b + 1 .. n - 1 : c \in b + 1 .. n
        BY <2>6, <3>2
      <4>2. ~Telling(written[n]) /\ LastTelling(b, n - 1)
        BY <2>7, <4>1 DEF LastTelling
      <4>3. v.state = Shown(KindOf(written[b])) /\ v.file = FileOf(KindOf(written[b]))
        BY <2>6, <4>1, <4>2 DEF KnowsInv, TellInv
      <4> QED BY <2>5, <4>2, <4>3
    <3> QED BY <3>1, <3>2
  <2>8. TellInv(w)
    BY <2>4, <2>6, <2>7 DEF TellInv
  <2>9. \A but : NoneDone(n - 1, but) => NoneDone(n, but)
    <3>1. \A c \in n + 1 .. Len(written) : c \in (n - 1) + 1 .. Len(written)
      BY <1>0, <2>6
    <3> QED BY <3>1 DEF NoneDone
  <2>10. \A but : NoneDone(n - 1, but) /\ n # but => KindOf(written[n]) # "done"
    <3>1. n \in (n - 1) + 1 .. Len(written)
      BY <1>0, <2>1, <2>6
    <3> QED BY <3>1 DEF NoneDone
  <2>11. ASSUME ~hasty, NoneDone(n - 1, 0), v.number = given
         PROVE  NoneDone(n, 0) /\ w.number = given
    BY <2>5, <2>6, <2>9, <2>10, <2>11
  <2>12. ASSUME ~hasty, v.awaited, given \in Numbers, NEW c \in (n - 1) + 1 .. Len(written),
                written[c] = DoneBatch(given), NoneDone(n - 1, c)
         PROVE  \/ NoneDone(n, 0) /\ w.number = given
                \/ /\ w.awaited
                   /\ \E d \in n + 1 .. Len(written) :
                        written[d] = DoneBatch(given) /\ NoneDone(n, d)
    <3>1. CASE c = n
      <4>1. w.number = given
        BY <2>5, <2>12, <3>1
      <4>2. NoneDone(n, 0)
        <5>1. \A d \in n + 1 .. Len(written) : d \in (n - 1) + 1 .. Len(written) /\ d # n
          BY <1>0, <2>6
        <5> QED BY <2>12, <3>1, <5>1 DEF NoneDone
      <4> QED BY <4>1, <4>2
    <3>2. CASE c # n
      <4>1. KindOf(written[n]) # "done"
        BY <2>10, <2>12, <3>2
      <4>2. c \in n + 1 .. Len(written)
        BY <1>0, <2>6, <3>2
      <4> QED BY <2>5, <2>9, <2>12, <4>1, <4>2
    <3> QED BY <3>1, <3>2
  <2>13. NumberInv(w)
    <3>1. ~hasty =>
            \/ NoneDone(n - 1, 0) /\ v.number = given
            \/ /\ v.awaited /\ given \in Numbers
               /\ \E c \in (n - 1) + 1 .. Len(written) :
                    written[c] = DoneBatch(given) /\ NoneDone(n - 1, c)
      BY <2>6 DEF KnowsInv, NumberInv
    <3> QED BY <2>4, <2>11, <2>12, <3>1 DEF NumberInv
  <2> QED BY <2>8, <2>13 DEF KnowsInv
<1> QED BY <1>1, <1>2

\* A batch that tells what the target does sets it; another leaves it, and GDB has
\* answered a command then, so that its target does not run.
LEMMA SaidTold ==
  ASSUME written \in Seq(Batches), GdbInv, NEW batch \in Batches,
         written' = Append(written, batch),
         IF Telling(batch) THEN gdb' = KindOf(batch) ELSE gdb' = gdb /\ gdb # "running"
  PROVE  GdbInv'
<1>1. /\ Len(written) \in Nat /\ Len(written') = Len(written) + 1 /\ written' # << >>
      /\ written'[Len(written) + 1] = batch
      /\ \A c \in 1 .. Len(written) : written'[c] = written[c]
  OBVIOUS
<1>2. CASE Telling(batch)
  <2>1. /\ Len(written') \in 1 .. Len(written') /\ written'[Len(written')] = batch
        /\ \A c \in Len(written') + 1 .. Len(written') : FALSE
    BY <1>1
  <2>2. LastTelling(Len(written), Len(written))'
    BY <1>2, <2>1 DEF LastTelling
  <2> QED BY <1>1, <1>2, <2>1, <2>2 DEF GdbInv
<1>3. CASE ~Telling(batch)
  <2>1. PICK b \in 1 .. Len(written) : LastTelling(b, Len(written)) /\ gdb = KindOf(written[b])
    BY <1>3 DEF GdbInv
  <2>2. b \in 1 .. Len(written) + 1 /\ written'[b] = written[b] /\ Telling(written[b])
    BY <1>1, <2>1 DEF LastTelling
  <2>3. ASSUME NEW c \in b + 1 .. Len(written) + 1 PROVE ~Telling(written'[c])
    <3>1. CASE c = Len(written) + 1
      BY <1>1, <1>3, <3>1
    <3>2. CASE c # Len(written) + 1
      <4>1. c \in b + 1 .. Len(written) /\ c \in 1 .. Len(written)
        BY <1>1, <3>2
      <4> QED BY <1>1, <2>1, <4>1 DEF LastTelling
    <3> QED BY <3>1, <3>2
  <2>4. (b \in 1 .. Len(written) /\ LastTelling(b, Len(written)))'
    BY <1>1, <2>2, <2>3 DEF LastTelling
  <2> QED BY <1>1, <1>3, <2>1, <2>2, <2>4 DEF GdbInv
<1> QED BY <1>2, <1>3

\* What GDB does when it says something.
LEMMA GdbTells ==
  ASSUME GdbReplies \/ GdbStops
  PROVE  \E batch \in Batches :
           /\ Say(batch)
           /\ IF Telling(batch) THEN gdb' = KindOf(batch) ELSE gdb' = gdb /\ gdb # "running"
           /\ IF KindOf(batch) = "done"
              THEN given' \in Numbers /\ batch = DoneBatch(given') /\ cmd = "insert"
              ELSE given' = given
<1>1. RunBatch \in Batches /\ ErrorBatch \in Batches /\ StopBatch \in Batches
      /\ ExitBatch \in Batches /\ \A n \in Numbers : DoneBatch(n) \in Batches
  BY Zenon DEF Batches
<1>2. /\ Telling(RunBatch) /\ Telling(StopBatch) /\ Telling(ExitBatch) /\ ~Telling(ErrorBatch)
      /\ \A n \in Numbers : ~Telling(DoneBatch(n))
  BY KindFacts DEF Telling
<1>3. CASE GdbReplies
  <2>1. CASE gdb' = "running" /\ Say(RunBatch) /\ UNCHANGED given
    BY <1>1, <1>2, <2>1, KindFacts
  <2>2. CASE /\ cmd = "insert" /\ gdb' = gdb /\ gdb # "running"
             /\ given' \in Numbers /\ Say(DoneBatch(given'))
    BY <1>1, <1>2, <2>2, KindFacts
  <2>3. CASE Say(ErrorBatch) /\ gdb' = gdb /\ gdb # "running" /\ UNCHANGED given
    BY <1>1, <1>2, <2>3, KindFacts
  <2> QED BY <1>3, <2>1, <2>2, <2>3 DEF GdbReplies
<1>4. CASE GdbStops
  <2>1. CASE gdb' = "stopped" /\ Say(StopBatch) /\ UNCHANGED given
    BY <1>1, <1>2, <2>1, KindFacts
  <2>2. CASE gdb' = "exited" /\ Say(ExitBatch) /\ UNCHANGED given
    BY <1>1, <1>2, <2>2, KindFacts
  <2> QED BY <1>4, <2>1, <2>2 DEF GdbStops
<1> QED BY <1>3, <1>4

LEMMA GdbStep ==
  ASSUME TypeInv, GdbInv, [Next]_vars
  PROVE  GdbInv'
<1>1. written \in Seq(Batches)
  BY DEF TypeInv, StreamInv, Laid
<1>2. CASE GdbReplies \/ GdbStops
  BY <1>1, <1>2, GdbTells, SaidTold DEF Say
<1>3. CASE ~(GdbReplies \/ GdbStops)
  <2>1. written' = written /\ gdb' = gdb
    BY <1>3 DEF Next, GdbPrints, Read, HandleDataGdb, Resume, Insert, vars, gdbVars
  <2> QED BY <2>1 DEF GdbInv, LastTelling
<1> QED BY <1>2, <1>3

\* An insertion that is not hasty is sent when all was handled, and until GDB answers
\* it nothing else happens: the answer finds the breakpoint awaited.
CmdInv == cmd = "insert" /\ ~hasty => awaited /\ ~InFlight /\ gdb # "running"

LEMMA CmdStep ==
  ASSUME TypeInv, GdbInv, KnowsInv(view), CmdInv, [Next]_vars,
         ~InFlight => Len(retired) = Len(written)
  PROVE  CmdInv'
<1>1. /\ Len(stream) \in Nat /\ read \in Nat /\ read <= Len(stream) /\ handled \in Nat
      /\ handled <= read /\ queue \in Seq(Nat) /\ hasty \in BOOLEAN
      /\ \A i \in 1 .. Len(queue) : handled < queue[i] /\ queue[i] <= read
  BY DEF TypeInv, QueueInv, StreamInv, Laid, Small
<1>2. CASE GdbReplies
  BY <1>2 DEF GdbReplies, CmdInv
<1>3. CASE Resume
  BY <1>3 DEF Resume, CmdInv
<1>4. CASE Insert
  <2> SUFFICES ASSUME ~hasty' PROVE CmdInv'
    BY DEF CmdInv
  <2>1. /\ awaited' = TRUE /\ ~InFlight /\ target_state = "STOPPED" /\ gdb' = gdb
        /\ UNCHANGED <<written, printed, handled, stream>>
    BY <1>1, <1>4 DEF Insert, wireVars
  <2>2. ~InFlight'
    BY <2>1 DEF InFlight, AllPrinted
  <2>3. Len(retired) # 0 /\ written # << >> /\ Len(retired) = Len(written)
    BY <2>1 DEF KnowsInv, TellInv, view
  <2>4. PICK b \in 1 .. Len(written) : LastTelling(b, Len(written)) /\ gdb = KindOf(written[b])
    BY <2>3 DEF GdbInv
  <2>5. target_state = Shown(gdb)
    BY <2>3, <2>4 DEF KnowsInv, TellInv, view
  <2>6. gdb # "running"
    BY <2>1, <2>5 DEF Shown
  <2> QED BY <2>1, <2>2, <2>6 DEF CmdInv
<1>5. CASE GdbStops \/ GdbPrints \/ Read \/ HandleDataGdb
  <2>1. cmd' = cmd /\ hasty' = hasty
    BY <1>5 DEF GdbStops, GdbPrints, Read, HandleDataGdb, gdbVars, masterVars
  <2> SUFFICES ASSUME cmd = "insert", ~hasty PROVE FALSE
    BY <2>1 DEF CmdInv
  <2>2. awaited /\ AllPrinted /\ gdb # "running" /\ handled >= Len(stream)
    BY <1>1 DEF CmdInv, InFlight
  <2>3. queue = << >>
    BY <1>1, <2>2
  <2>4. ~Read
    <3>1. read + 1 .. Len(stream) = {}
      BY <1>1, <2>2
    <3> QED BY <3>1 DEF Read
  <2> QED BY <1>5, <2>2, <2>3, <2>4 DEF GdbStops, GdbPrints, HandleDataGdb
<1>6. CASE UNCHANGED vars
  BY <1>6 DEF CmdInv, InFlight, AllPrinted, vars, gdbVars, wireVars, masterVars
<1> QED BY <1>2, <1>3, <1>4, <1>5, <1>6 DEF Next

LEMMA SaidKnown ==
  ASSUME TypeInv, KnowsInv(view), CmdInv, ~InFlight => Len(retired) = Len(written),
         Len(retired) <= Len(written), GdbReplies \/ GdbStops
  PROVE  KnowsInv(view)'
<1>1. PICK batch \in Batches :
        /\ Say(batch)
        /\ IF KindOf(batch) = "done"
           THEN given' \in Numbers /\ batch = DoneBatch(given') /\ cmd = "insert"
           ELSE given' = given
  BY GdbTells
<1>2. UNCHANGED <<hasty, retired, awaited, number>> /\ view' = view
  BY GdbSays DEF masterVars, view
<1>3. /\ written \in Seq(Batches) /\ Len(written) \in Nat /\ written' = Append(written, batch)
      /\ Len(written') = Len(written) + 1 /\ written'[Len(written) + 1] = batch
      /\ \A c \in 1 .. Len(written) : written'[c] = written[c]
      /\ Len(retired) \in Nat
  BY <1>1 DEF TypeInv, StreamInv, Laid, Say, Views, view
<1>4. /\ view.retired = retired /\ view.awaited = awaited /\ view.number = number
      /\ view'.retired = retired /\ view'.awaited = awaited /\ view'.number = number
  BY <1>2 DEF view
<1>5. TellInv(view)'
  <2>1. \A b \in 1 .. Len(retired) :
          written'[b] = written[b] /\ \A c \in b + 1 .. Len(retired) : written'[c] = written[c]
    BY <1>3
  <2>2. \A b \in 1 .. Len(retired) :
          LastTelling(b, Len(retired))' => LastTelling(b, Len(retired))
    BY <1>2, <2>1 DEF LastTelling
  <2> QED BY <1>2, <1>4, <2>1, <2>2 DEF KnowsInv, TellInv
<1>6. \A n \in Nat : \A but : NoneDone(n, but) /\ KindOf(batch) # "done" =>
          \A c \in n + 1 .. Len(written') : c # but => KindOf(written'[c]) # "done"
  <2> SUFFICES ASSUME NEW n \in Nat, NEW but, NoneDone(n, but), KindOf(batch) # "done",
                      NEW c \in n + 1 .. Len(written'), c # but
               PROVE  KindOf(written'[c]) # "done"
    OBVIOUS
  <2>1. CASE c = Len(written) + 1
    BY <1>3, <2>1
  <2>2. CASE c # Len(written) + 1
    <3>1. c \in n + 1 .. Len(written) /\ c \in 1 .. Len(written)
      BY <1>3, <2>2
    <3> QED BY <1>3, <3>1 DEF NoneDone
  <2> QED BY <2>1, <2>2
<1>7. NumberInv(view)'
  <2> SUFFICES ASSUME ~hasty PROVE NumberInv(view)'
    BY <1>2 DEF NumberInv
  <2>1. CASE KindOf(batch) # "done"
    <3>1. given' = given
      BY <1>1, <2>1
    <3>2. CASE NoneDone(Len(retired), 0) /\ number = given
      BY <1>3, <1>4, <1>6, <2>1, <3>1, <3>2 DEF NumberInv, NoneDone
    <3>3. CASE /\ awaited /\ given \in Numbers
               /\ \E c \in Len(retired) + 1 .. Len(written) :
                    written[c] = DoneBatch(given) /\ NoneDone(Len(retired), c)
      <4>1. PICK c \in Len(retired) + 1 .. Len(written) :
              written[c] = DoneBatch(given) /\ NoneDone(Len(retired), c)
        BY <3>3
      <4>2. c \in Len(retired) + 1 .. Len(written') /\ written'[c] = written[c]
        BY <1>3
      <4>3. \A d \in Len(retired) + 1 .. Len(written') : d # c => KindOf(written'[d]) # "done"
        BY <1>3, <1>6, <2>1, <4>1
      <4> QED BY <1>4, <3>1, <3>3, <4>1, <4>2, <4>3 DEF NumberInv, NoneDone
    <3> QED BY <1>4, <3>2, <3>3 DEF KnowsInv, NumberInv
  <2>2. CASE KindOf(batch) = "done"
    <3>1. given' \in Numbers /\ batch = DoneBatch(given') /\ cmd = "insert"
      BY <1>1, <2>2
    <3>2. awaited /\ Len(retired) = Len(written)
      BY <3>1 DEF CmdInv
    <3>3. PICK c : c = Len(written) + 1
      OBVIOUS
    <3>4. c \in Len(retired) + 1 .. Len(written') /\ written'[c] = DoneBatch(given')
          /\ \A d \in Len(retired) + 1 .. Len(written') : d = c
      BY <1>3, <3>1, <3>2, <3>3
    <3> QED BY <1>4, <3>1, <3>2, <3>4 DEF NumberInv, NoneDone
  <2> QED BY <2>1, <2>2
<1> QED BY <1>5, <1>7 DEF KnowsInv

LEMMA KnowsStep ==
  ASSUME TypeInv, WholeInv, CollectedInv, KnowsInv(view), CmdInv, cuts = 0,
         ~InFlight => Len(retired) = Len(written), Len(retired) <= Len(written), [Next]_vars
  PROVE  KnowsInv(view)'
<1>1. CASE GdbReplies \/ GdbStops
  BY <1>1, SaidKnown
<1>2. CASE HandleDataGdb
  <2> DEFINE S == {v \in Views : /\ \E m \in 0 .. Len(lines) : BegunTo(m, v.at) /\ Collected(v, m)
                                 /\ KnowsInv(v)}
  <2>1. /\ Head(queue) \in Nat /\ Head(queue) <= Len(stream) /\ StreamInv
        /\ \E i \in 1 .. Len(queue) : Head(queue) = queue[i]
    BY <1>2, HeadFacts DEF TypeInv, HandleDataGdb
  <2>2. Whole(Head(queue)) /\ Laid /\ written \in Seq(Batches)
    BY <2>1 DEF WholeInv, StreamInv, Laid
  <2>3. ASSUME NEW v \in S, NEW behind \in Behinds, v.at < Head(queue)
        PROVE  Round(v, Head(queue), behind) \in S
    <3> DEFINE w == Round(v, Head(queue), behind)
    <3>1. PICK m \in 0 .. Len(lines) : BegunTo(m, v.at) /\ Collected(v, m)
      OBVIOUS
    <3>2. v \in Views /\ w \in Views
      BY <2>1, <2>2, <2>3, RoundTypes
    <3>3. /\ Goes(v, w) \/ Retires(v, w)
          /\ \E k \in 0 .. Len(lines) : BegunTo(k, w.at) /\ Collected(w, k)
      BY <2>1, <2>2, <2>3, <3>1, <3>2, CollectedRound
    <3>4. KnowsInv(v)
      OBVIOUS
    <3> HIDE DEF w
    <3>5. KnowsInv(w)
      BY <2>2, <3>2, <3>3, <3>4, KnowsRound
    <3> QED BY <3>2, <3>3, <3>5 DEF w
  <2>4. view \in S /\ S \subseteq Views
    BY DEF TypeInv, CollectedInv, view
  <2>5. view' \in S
    <3> HIDE DEF S
    <3> QED BY <1>2, <2>3, <2>4, HandlerKeeps DEF TypeInv
  <2>6. KnowsInv(view')
    BY <2>5
  <2>7. UNCHANGED <<hasty, given, written>>
    BY <1>2 DEF HandleDataGdb, gdbVars
  <2> QED BY <2>6, <2>7 DEF KnowsInv, TellInv, NumberInv, NoneDone, LastTelling
<1>3. CASE Insert
  <2>1. /\ UNCHANGED <<given, written, retired, target_state, current_file, number>>
        /\ awaited' = TRUE /\ hasty' = (hasty \/ InFlight)
    BY <1>3 DEF Insert
  <2>2. TellInv(view)'
    BY <2>1 DEF KnowsInv, TellInv, LastTelling, view
  <2>3. NumberInv(view)'
    <3>1. /\ view.retired = retired /\ view.number = number
          /\ view'.retired = retired /\ view'.number = number /\ view'.awaited
      BY <2>1 DEF view
    <3>2. hasty \in BOOLEAN /\ (~hasty' => ~hasty)
      BY <2>1 DEF TypeInv, Small
    <3>3. NumberInv(view)
      BY DEF KnowsInv
    <3> QED BY <2>1, <3>1, <3>2, <3>3 DEF NumberInv, NoneDone
  <2> QED BY <2>2, <2>3 DEF KnowsInv
<1>4. CASE GdbPrints \/ Read \/ Resume \/ UNCHANGED vars
  <2>1. UNCHANGED <<hasty, given, written>> /\ view' = view
    BY <1>4 DEF GdbPrints, Read, Resume, vars, gdbVars, masterVars, view
  <2> QED BY <2>1 DEF KnowsInv, TellInv, NumberInv, NoneDone, LastTelling
<1> QED BY <1>1, <1>2, <1>3, <1>4 DEF Next

\* What CaughtUp is induced from.
CaughtInv == GdbInv /\ (cuts = 0 => KnowsInv(view) /\ CmdInv)

LEMMA RetiredOf ==
  ASSUME TypeInv, CollectedInv, cuts = 0
  PROVE  /\ Len(retired) <= Len(written)
         /\ ~InFlight => Len(retired) = Len(written)
<1>1. PICK n \in 0 .. Len(lines) : BegunTo(n, handled) /\ Collected(view, n)
  BY DEF CollectedInv
<1>2. NextBatch(n) - 1 <= Len(written)
  BY NextFacts DEF TypeInv, StreamInv
<1> QED BY <1>1, <1>2, AllRetired DEF Collected, view

\* When all is handled and no read ended inside a line, the master knows the state of the
\* target, the file it is in and, unless a second breakpoint was asked for too early, the
\* number of the last one (parse_target_state, parse_stop_record, parse_breakpoint).
THEOREM CatchesUp == Spec => []CaughtUp
<1> DEFINE I == TypeInv /\ WholeInv /\ CollectedInv /\ CaughtInv
<1>1. Init => I
  <2> SUFFICES ASSUME Init PROVE I
    OBVIOUS
  <2>1. WholeInv /\ CollectedInv
    BY CollectedInit
  <2>2. GdbInv
    BY DEF Init, GdbInv
  <2>3. TellInv(view) /\ NumberInv(view)
    BY DEF Init, TellInv, NumberInv, NoneDone, view
  <2>4. CmdInv
    BY DEF Init, CmdInv
  <2> QED BY <2>1, <2>2, <2>3, <2>4, TypeInvInit DEF CaughtInv, KnowsInv
<1>2. I /\ [Next]_vars => I'
  <2> SUFFICES ASSUME I, [Next]_vars PROVE I'
    OBVIOUS
  <2>1. TypeInv' /\ WholeInv' /\ (cuts' = 0 => cuts = 0)
    BY TypeInvStep, WholeStep
  <2>2. CollectedInv'
    BY <2>1, CollectedStep DEF CollectedInv
  <2>3. GdbInv'
    BY GdbStep DEF CaughtInv
  <2>4. cuts' = 0 => KnowsInv(view)' /\ CmdInv'
    BY <2>1, RetiredOf, KnowsStep, CmdStep DEF CaughtInv
  <2> QED BY <2>1, <2>2, <2>3, <2>4 DEF CaughtInv
<1>3. I => CaughtUp
  <2> SUFFICES ASSUME I, cuts = 0, ~InFlight, written # << >>
               PROVE  /\ target_state = Shown(gdb) /\ current_file = FileOf(gdb)
                      /\ ~hasty => number = given
    BY DEF CaughtUp, FileOf
  <2>1. Len(retired) = Len(written)
    BY RetiredOf
  <2>2. PICK b \in 1 .. Len(written) : LastTelling(b, Len(written)) /\ gdb = KindOf(written[b])
    BY DEF CaughtInv, GdbInv
  <2>3. target_state = Shown(gdb) /\ current_file = FileOf(gdb)
    BY <2>1, <2>2 DEF CaughtInv, KnowsInv, TellInv, view
  <2>4. Len(written) \in Nat
    BY DEF TypeInv, StreamInv, Laid
  <2>5. ~hasty => number = given
    BY <2>1, <2>4 DEF CaughtInv, KnowsInv, NumberInv, view
  <2> QED BY <2>3, <2>5
<1> QED BY <1>1, <1>2, <1>3, PTL DEF Spec
=============================================================================
