--------------------------- MODULE SourceTabsProofs ---------------------------
(***************************************************************************)
(* Theorems about SourceTabs, for any processes, files, lines and number   *)
(* of colors: the maps agree with the notebook and the grid, what is used  *)
(* stays open, and the labels and their colors tell the truth.             *)
(***************************************************************************)
EXTENDS SourceTabs, FiniteSetTheorems, SequenceTheorems, WellFoundedInduction, TLAPS

-----------------------------------------------------------------------------
(* Numbers, sequences and maps *)

LEMMA LeastNumber ==
  ASSUME NEW T, T \subseteq Nat, T # {}
  PROVE  \E n \in T : \A m \in T : n <= m
<1>1. PICK n \in T : \A m \in T : ~(<<m, n>> \in OpToRel(<, Nat))
  BY NatLessThanWellFounded, WFMin
<1>2. \A m \in T : ~(m < n)
  BY <1>1 DEF OpToRel
<1> QED BY <1>2

\* Every row of the grid is that of a page, or the separator above one.
LEMMA RowKinds ==
  ASSUME NEW n \in Nat, NEW k \in 1 .. 2 * n
  PROVE  \E i \in 1 .. n : k = 2 * i \/ k = 2 * i - 1
<1>1. /\ (k + 1) \div 2 \in 1 .. n
      /\ k = 2 * ((k + 1) \div 2) \/ k = 2 * ((k + 1) \div 2) - 1
  OBVIOUS
<1> QED BY <1>1

LEMMA RemoveAtFacts ==
  ASSUME NEW S, NEW s \in Seq(S), NEW i \in 1 .. Len(s)
  PROVE  /\ RemoveAt(s, i) \in Seq(S)
         /\ Len(RemoveAt(s, i)) = Len(s) - 1
         /\ \A j \in 1 .. Len(s) - 1 :
              RemoveAt(s, i)[j] = IF j < i THEN s[j] ELSE s[j + 1]
<1> DEFINE front == SubSeq(s, 1, i - 1)
           back == SubSeq(s, i + 1, Len(s))
<1>1. /\ front \in Seq(S) /\ Len(front) = i - 1
      /\ \A j \in 1 .. i - 1 : front[j] = s[j]
  OBVIOUS
<1>2. /\ back \in Seq(S) /\ Len(back) = Len(s) - i
      /\ \A j \in 1 .. Len(s) - i : back[j] = s[j + i]
  OBVIOUS
<1>3. RemoveAt(s, i) = front \o back
  BY DEF RemoveAt
<1> HIDE DEF front, back
<1>4. Len(front \o back) = Len(s) - 1 /\ front \o back \in Seq(S)
  BY <1>1, <1>2
<1>5. ASSUME NEW j \in 1 .. Len(s) - 1
      PROVE  (front \o back)[j] = IF j < i THEN s[j] ELSE s[j + 1]
  <2>1. CASE j < i
    BY <2>1, <1>1, <1>2
  <2>2. CASE ~(j < i)
    <3>1. (front \o back)[j] = back[j - Len(front)]
      BY <2>2, <1>1, <1>2
    <3>2. j - (i - 1) \in 1 .. Len(s) - i /\ (j - (i - 1)) + i = j + 1
      BY <2>2
    <3> QED BY <3>1, <3>2, <1>1, <1>2, <2>2
  <2> QED BY <2>1, <2>2
<1> QED BY <1>3, <1>4, <1>5

LEMMA WithFacts ==
  ASSUME NEW map, NEW key, NEW value
  PROVE  /\ DOMAIN With(map, key, value) = DOMAIN map \cup {key}
         /\ With(map, key, value)[key] = value
         /\ \A k \in DOMAIN map : k # key => With(map, key, value)[k] = map[k]
BY DEF With

-----------------------------------------------------------------------------
(* The grid *)

GridRows == [path : Files \cup {NoFile}, text : [Ranks -> Lines \cup {Blank}],
             color : [Ranks -> Int]]

\* Each page once, and in the grid, for each page in turn, an empty separator and
\* the row of the page's file.
Laid(pgs, grid) ==
  /\ pgs \in Seq(Files) /\ grid \in Seq(GridRows)
  /\ Len(grid) = 2 * Len(pgs)
  /\ \A i, j \in 1 .. Len(pgs) : pgs[i] = pgs[j] => i = j
  /\ \A i \in 1 .. Len(pgs) :
       /\ grid[2 * i].path = pgs[i]
       /\ grid[2 * i - 1].path = NoFile
       /\ \A r \in Ranks : grid[2 * i - 1].text[r] = Blank

RowsMapped(map, pgs) ==
  /\ DOMAIN map = {pgs[i] : i \in 1 .. Len(pgs)}
  /\ \A i \in 1 .. Len(pgs) : map[pgs[i]] = 2 * i - 1

\* Every row shows the processes that are in its page's file; one that is nowhere may
\* still have a label, but one only.
Labelled(pgs, grid, file, line) ==
  /\ \A i \in 1 .. Len(pgs), r \in Ranks :
       /\ grid[2 * i].text[r] \in {Blank, line[r]}
       /\ pgs[i] = file[r] => grid[2 * i].text[r] = line[r]
       /\ file[r] \notin {pgs[i], NoFile} => grid[2 * i].text[r] = Blank
  /\ \A i, j \in 1 .. Len(pgs), r \in Ranks :
       file[r] = NoFile /\ grid[2 * i].text[r] # Blank /\ grid[2 * j].text[r] # Blank => i = j

\* Rank r is shown nowhere.
NoLabel(pgs, grid, r) == \A i \in 1 .. Len(pgs) : grid[2 * i].text[r] = Blank

LEMMA RowOf ==
  ASSUME NEW pgs, NEW grid, NEW map, Laid(pgs, grid), RowsMapped(map, pgs),
         NEW i \in 1 .. Len(pgs)
  PROVE  /\ \A p : IsRowOf(map, p, 2 * i) <=> p = pgs[i]
         /\ \A p : ~IsRowOf(map, p, 2 * i - 1)
<1>1. Len(pgs) \in Nat /\ i \in Nat
  BY DEF Laid
<1>2. \A p \in DOMAIN map : \E j \in 1 .. Len(pgs) : p = pgs[j] /\ map[p] = 2 * j - 1
  BY DEF RowsMapped
<1>3. pgs[i] \in DOMAIN map /\ map[pgs[i]] = 2 * i - 1
  BY DEF RowsMapped
<1>4. ASSUME NEW p, IsRowOf(map, p, 2 * i) PROVE p = pgs[i]
  <2>1. p \in DOMAIN map /\ map[p] + 1 = 2 * i
    BY <1>4 DEF IsRowOf
  <2>2. PICK j \in 1 .. Len(pgs) : p = pgs[j] /\ map[p] = 2 * j - 1
    BY <1>2, <2>1
  <2>3. j = i
    BY <1>1, <2>1, <2>2
  <2> QED BY <2>2, <2>3
<1>5. IsRowOf(map, pgs[i], 2 * i)
  BY <1>1, <1>3 DEF IsRowOf
<1>6. ASSUME NEW p, IsRowOf(map, p, 2 * i - 1) PROVE FALSE
  <2>1. p \in DOMAIN map /\ map[p] + 1 = 2 * i - 1
    BY <1>6 DEF IsRowOf
  <2>2. PICK j \in 1 .. Len(pgs) : p = pgs[j] /\ map[p] = 2 * j - 1
    BY <1>2, <2>1
  <2> QED BY <1>1, <2>1, <2>2
<1> QED BY <1>4, <1>5, <1>6

\* A grid relabeled or colored, page rows only, is laid out as it was.
LEMMA LaidAgain ==
  ASSUME NEW pgs, NEW grid, Laid(pgs, grid), NEW new, Len(new) = Len(grid),
         DOMAIN new = 1 .. Len(grid), new = [k \in DOMAIN new |-> new[k]],
         \A i \in 1 .. Len(pgs) : /\ new[2 * i] \in GridRows
                                  /\ new[2 * i].path = grid[2 * i].path
                                  /\ new[2 * i - 1] = grid[2 * i - 1]
  PROVE  Laid(pgs, new)
<1>1. Len(pgs) \in Nat /\ Len(grid) = 2 * Len(pgs) /\ grid \in Seq(GridRows)
  BY DEF Laid
<1>2. \A k \in 1 .. Len(grid) : new[k] \in GridRows
  <2> SUFFICES ASSUME NEW k \in 1 .. Len(grid) PROVE new[k] \in GridRows
    OBVIOUS
  <2>1. PICK i \in 1 .. Len(pgs) : k = 2 * i \/ k = 2 * i - 1
    BY <1>1, RowKinds
  <2>2. grid[k] \in GridRows
    BY <1>1
  <2> QED BY <2>1, <2>2
<1>3. new \in [1 .. Len(grid) -> GridRows]
  BY <1>2
<1>4. new \in Seq(GridRows)
  BY <1>1, <1>3, SeqDef
<1> QED BY <1>1, <1>4 DEF Laid

\* The places of rank r's labels after it has moved to line l of file f, or nowhere.
LEMMA RelabeledFacts ==
  ASSUME NEW grid, Laid(pages, grid), RowsMapped(path_2_row, pages),
         NEW r \in Ranks, NEW f, NEW l \in Lines \cup {Blank}
  PROVE  LET new == Relabeled(grid, r, f, l) IN
         /\ Laid(pages, new)
         /\ Len(new) = Len(grid)
         /\ \A i \in 1 .. Len(pages) :
              /\ new[2 * i].text[r] = IF pages[i] = f THEN l ELSE Blank
              /\ \A q \in Ranks \ {r} : new[2 * i].text[q] = grid[2 * i].text[q]
              /\ new[2 * i].color = grid[2 * i].color
<1> DEFINE new == Relabeled(grid, r, f, l)
<1>1. /\ Len(pages) \in Nat /\ Len(grid) = 2 * Len(pages) /\ grid \in Seq(GridRows)
  BY DEF Laid
<1>2. new = [i \in 1 .. Len(grid) |->
               IF \E p \in DOMAIN path_2_row : IsRowOf(path_2_row, p, i)
               THEN [grid[i] EXCEPT !.text[r] = IF IsRowOf(path_2_row, f, i) THEN l ELSE Blank]
               ELSE grid[i]]
  BY DEF Relabeled
<1>3. Len(new) = Len(grid) /\ DOMAIN new = 1 .. Len(grid)
      /\ new = [k \in DOMAIN new |-> new[k]]
  BY <1>1, <1>2
<1>4. ASSUME NEW i \in 1 .. Len(pages)
      PROVE  /\ new[2 * i] \in GridRows
             /\ new[2 * i].path = grid[2 * i].path
             /\ new[2 * i - 1] = grid[2 * i - 1]
             /\ new[2 * i].text[r] = IF pages[i] = f THEN l ELSE Blank
             /\ \A q \in Ranks \ {r} : new[2 * i].text[q] = grid[2 * i].text[q]
             /\ new[2 * i].color = grid[2 * i].color
  <2>1. 2 * i \in 1 .. Len(grid) /\ 2 * i - 1 \in 1 .. Len(grid)
    BY <1>1
  <2>2. /\ \A p : IsRowOf(path_2_row, p, 2 * i) <=> p = pages[i]
        /\ \A p : ~IsRowOf(path_2_row, p, 2 * i - 1)
    BY RowOf
  <2>3. pages[i] \in DOMAIN path_2_row
    BY DEF RowsMapped
  <2>4. new[2 * i - 1] = grid[2 * i - 1]
    BY <1>2, <2>1, <2>2
  <2>5. \E p \in DOMAIN path_2_row : IsRowOf(path_2_row, p, 2 * i)
    BY <2>2, <2>3
  <2>6. IsRowOf(path_2_row, f, 2 * i) <=> pages[i] = f
    BY <2>2
  <2>7. new[2 * i] = [grid[2 * i] EXCEPT !.text[r] = IF pages[i] = f THEN l ELSE Blank]
    BY <1>2, <2>1, <2>5, <2>6
  <2>8. grid[2 * i] \in GridRows
    BY <1>1, <2>1
  <2> HIDE DEF new
  <2>9. /\ new[2 * i].path = grid[2 * i].path /\ new[2 * i].color = grid[2 * i].color
        /\ new[2 * i].text = [grid[2 * i].text EXCEPT ![r] = IF pages[i] = f THEN l ELSE Blank]
        /\ new[2 * i] \in GridRows
    <3> DEFINE row == grid[2 * i]
               v == IF pages[i] = f THEN l ELSE Blank
    <3>1. row.text \in [Ranks -> Lines \cup {Blank}] /\ v \in Lines \cup {Blank}
      BY <2>8 DEF GridRows
    <3>2. [row.text EXCEPT ![r] = v] \in [Ranks -> Lines \cup {Blank}]
      BY <3>1
    <3> HIDE DEF v
    <3>3. row = [path |-> row.path, text |-> row.text, color |-> row.color]
      BY <2>8 DEF GridRows
    <3>4. new[2 * i] = [row EXCEPT !.text = [row.text EXCEPT ![r] = v]]
      BY <2>7, <3>3 DEF v
    <3>5. new[2 * i] = [path |-> row.path, text |-> [row.text EXCEPT ![r] = v],
                        color |-> row.color]
      BY <3>3, <3>4
    <3>6. new[2 * i] \in GridRows
      BY <2>8, <3>2, <3>5 DEF GridRows
    <3> QED BY <3>5, <3>6 DEF v
  <2>10. grid[2 * i].text \in [Ranks -> Lines \cup {Blank}]
    BY <2>8 DEF GridRows
  <2> QED BY <2>4, <2>9, <2>10
<1> HIDE DEF new
<1>5. Laid(pages, new)
  BY <1>3, <1>4, LaidAgain
<1> QED BY <1>3, <1>4, <1>5 DEF new

LEMMA OffsetType ==
  ASSUME NEW p, NEW r \in Ranks, NEW file, NEW line, file[r] = p
  PROVE  \E first \in 0 .. r :
           /\ file[first] = p /\ line[first] = line[r]
           /\ \A s \in 0 .. first - 1 : file[s] = p => line[s] # line[r]
           /\ Offset(p, r, file, line) = Cardinality(LinesMet(p, first - 1, file, line))
<1> DEFINE There == {q \in 0 .. r : file[q] = p /\ line[q] = line[r]}
<1>1. r \in Nat
  BY DEF Ranks
<1>2. There \subseteq Nat /\ r \in There
  BY <1>1
<1> HIDE DEF There
<1>3. PICK q \in There : \A s \in There : q <= s
  BY <1>2, LeastNumber
<1>4. /\ q \in 0 .. r /\ file[q] = p /\ line[q] = line[r]
      /\ \A s \in 0 .. q - 1 : file[s] = p => line[s] # line[r]
  <2>1. q \in 0 .. r /\ file[q] = p /\ line[q] = line[r]
    BY <1>3 DEF There
  <2>2. ASSUME NEW s \in 0 .. q - 1, file[s] = p, line[s] = line[r] PROVE FALSE
    <3>1. s \in There
      BY <2>1, <2>2, <1>1 DEF There
    <3> QED BY <3>1, <1>3, <2>1, <1>1
  <2> QED BY <2>1, <2>2
<1> DEFINE first == CHOOSE x \in 0 .. r :
                      /\ file[x] = p /\ line[x] = line[r]
                      /\ \A s \in 0 .. x - 1 : file[s] = p => line[s] # line[r]
<1>5. /\ first \in 0 .. r /\ file[first] = p /\ line[first] = line[r]
      /\ \A s \in 0 .. first - 1 : file[s] = p => line[s] # line[r]
  BY <1>4
<1>6. Offset(p, r, file, line) = Cardinality(LinesMet(p, first - 1, file, line))
  BY DEF Offset
<1> HIDE DEF first
<1> QED BY <1>5, <1>6

LEMMA LinesMetFinite ==
  ASSUME NEW p, NEW r \in Int, NEW file, NEW line
  PROVE  /\ IsFiniteSet(LinesMet(p, r, file, line))
         /\ Cardinality(LinesMet(p, r, file, line)) \in Nat
<1> DEFINE Q == {q \in 0 .. r : file[q] = p}
<1>1. IsFiniteSet(0 .. r)
  BY FS_Interval
<1>2. IsFiniteSet(Q)
  BY <1>1, FS_Subset
<1>3. IsFiniteSet({line[q] : q \in Q})
  <2> DEFINE f == [q \in Q |-> line[q]]
             T == {line[q] : q \in Q}
  <2>1. f \in Surjection(Q, T)
    BY DEF Surjection
  <2> HIDE DEF f, T, Q
  <2>2. IsFiniteSet(T)
    BY <1>2, <2>1, FS_Surjection
  <2> QED BY <2>2 DEF T
<1> QED BY <1>3, FS_CardinalityType DEF LinesMet

\* Two processes in one file have the same offset just when they are in the same line.
LEMMA OffsetsTell ==
  ASSUME NEW p, NEW file, NEW line, NEW q \in Ranks, NEW r \in Ranks,
         file[q] = p, file[r] = p
  PROVE  /\ Offset(p, q, file, line) \in Nat
         /\ Offset(p, q, file, line) = Offset(p, r, file, line) <=> line[q] = line[r]
<1>1. q \in Nat /\ r \in Nat
  BY DEF Ranks
<1> DEFINE Met(n) == LinesMet(p, n, file, line)
<1>2. PICK a \in 0 .. q :
        /\ file[a] = p /\ line[a] = line[q]
        /\ \A s \in 0 .. a - 1 : file[s] = p => line[s] # line[q]
        /\ Offset(p, q, file, line) = Cardinality(Met(a - 1))
  BY OffsetType
<1>3. PICK b \in 0 .. r :
        /\ file[b] = p /\ line[b] = line[r]
        /\ \A s \in 0 .. b - 1 : file[s] = p => line[s] # line[r]
        /\ Offset(p, r, file, line) = Cardinality(Met(b - 1))
  BY OffsetType
<1>4. a \in Nat /\ b \in Nat
  BY <1>1
<1>5. Cardinality(Met(a - 1)) \in Nat
  BY <1>4, LinesMetFinite
<1>6. ASSUME line[q] = line[r] PROVE a = b
  <2>1. ~(a < b)
    BY <1>2, <1>3, <1>4, <1>6
  <2>2. ~(b < a)
    BY <1>2, <1>3, <1>4, <1>6
  <2> QED BY <2>1, <2>2, <1>4
<1>7. ASSUME NEW c \in Nat, NEW d \in Nat, c < d, file[c] = p,
             \A s \in 0 .. d - 1 : file[s] = p => line[s] # line[d],
             \A s \in 0 .. c - 1 : file[s] = p => line[s] # line[c]
      PROVE  Cardinality(Met(c - 1)) < Cardinality(Met(d - 1))
  <2>1. Met(c - 1) \subseteq Met(d - 1)
    BY <1>7 DEF LinesMet
  <2>2. line[c] \in Met(d - 1)
    BY <1>7 DEF LinesMet
  <2>3. line[c] \notin Met(c - 1)
    BY <1>7 DEF LinesMet
  <2>4. IsFiniteSet(Met(d - 1)) /\ Cardinality(Met(d - 1)) \in Nat
        /\ Cardinality(Met(c - 1)) \in Nat
    BY LinesMetFinite
  <2> HIDE DEF Met
  <2>5. Cardinality(Met(c - 1)) <= Cardinality(Met(d - 1))
        /\ (Cardinality(Met(d - 1)) = Cardinality(Met(c - 1)) => Met(d - 1) = Met(c - 1))
    BY <2>1, <2>4, FS_Subset
  <2> QED BY <2>2, <2>3, <2>4, <2>5
<1>8. ASSUME line[q] # line[r] PROVE Cardinality(Met(a - 1)) # Cardinality(Met(b - 1))
  <2>1. a # b
    BY <1>2, <1>3, <1>8
  <2>2. CASE a < b
    <3>1. Cardinality(Met(a - 1)) < Cardinality(Met(b - 1))
      BY <1>2, <1>3, <1>4, <1>7, <2>2
    <3> QED BY <3>1, <1>4, LinesMetFinite
  <2>3. CASE b < a
    <3>1. Cardinality(Met(b - 1)) < Cardinality(Met(a - 1))
      BY <1>2, <1>3, <1>4, <1>7, <2>3
    <3> QED BY <3>1, <1>4, LinesMetFinite
  <2> QED BY <2>1, <2>2, <2>3, <1>4
<1> QED BY <1>2, <1>3, <1>5, <1>6, <1>8

\* Every page's row gets its colors, nothing else changes.
LEMMA ColoredFacts ==
  ASSUME NEW pgs, NEW grid, Laid(pgs, grid), NEW map, RowsMapped(map, pgs),
         NEW file, NEW line
  PROVE  LET new == Colored(grid, map, file, line) IN
         /\ Laid(pgs, new)
         /\ Len(new) = Len(grid)
         /\ \A i \in 1 .. Len(pgs) :
              /\ new[2 * i].text = grid[2 * i].text
              /\ \A r \in Ranks : new[2 * i].color[r] = ColorOf(pgs[i], r, file, line)
<1> DEFINE new == Colored(grid, map, file, line)
<1>1. Len(pgs) \in Nat /\ Len(grid) = 2 * Len(pgs) /\ grid \in Seq(GridRows)
  BY DEF Laid
<1>2. new = [i \in 1 .. Len(grid) |->
               IF \E p \in DOMAIN map : IsRowOf(map, p, i)
               THEN LET p == CHOOSE p \in DOMAIN map : IsRowOf(map, p, i) IN
                    [grid[i] EXCEPT !.color = [r \in Ranks |-> ColorOf(p, r, file, line)]]
               ELSE grid[i]]
  BY DEF Colored
<1>3. Len(new) = Len(grid) /\ DOMAIN new = 1 .. Len(grid)
      /\ new = [k \in DOMAIN new |-> new[k]]
  BY <1>1, <1>2
<1>4. ASSUME NEW i \in 1 .. Len(pgs)
      PROVE  /\ new[2 * i] \in GridRows
             /\ new[2 * i].path = grid[2 * i].path
             /\ new[2 * i - 1] = grid[2 * i - 1]
             /\ new[2 * i].text = grid[2 * i].text
             /\ \A r \in Ranks : new[2 * i].color[r] = ColorOf(pgs[i], r, file, line)
  <2> DEFINE row == grid[2 * i]
             colors == [r \in Ranks |-> ColorOf(pgs[i], r, file, line)]
  <2>1. 2 * i \in 1 .. Len(grid) /\ 2 * i - 1 \in 1 .. Len(grid)
    BY <1>1
  <2>2. /\ \A p : IsRowOf(map, p, 2 * i) <=> p = pgs[i]
        /\ \A p : ~IsRowOf(map, p, 2 * i - 1)
    BY RowOf
  <2>3. pgs[i] \in DOMAIN map
    BY DEF RowsMapped
  <2>4. new[2 * i - 1] = grid[2 * i - 1]
    BY <1>2, <2>1, <2>2
  <2>5. (CHOOSE p \in DOMAIN map : IsRowOf(map, p, 2 * i)) = pgs[i]
    BY <2>2, <2>3
  <2>6. \E p \in DOMAIN map : IsRowOf(map, p, 2 * i)
    BY <2>2, <2>3
  <2>7. new[2 * i] = [row EXCEPT !.color = colors]
    BY <1>2, <2>1, <2>5, <2>6
  <2>8. row \in GridRows
    BY <1>1, <2>1
  <2>9. colors \in [Ranks -> Int]
    <3> SUFFICES ASSUME NEW r \in Ranks PROVE ColorOf(pgs[i], r, file, line) \in Int
      OBVIOUS
    <3>1. CASE file[r] = pgs[i]
      <4>1. Offset(pgs[i], r, file, line) \in Nat
        BY <3>1, OffsetsTell
      <4> QED BY <4>1 DEF ColorOf, NoColor
    <3>2. CASE file[r] # pgs[i]
      BY <3>2 DEF ColorOf, NoColor
    <3> QED BY <3>1, <3>2
  <2>10. \A r \in Ranks : colors[r] = ColorOf(pgs[i], r, file, line)
    OBVIOUS
  <2> HIDE DEF new, colors
  <2>11. row = [path |-> row.path, text |-> row.text, color |-> row.color]
    BY <2>8 DEF GridRows
  <2>12. new[2 * i] = [path |-> row.path, text |-> row.text, color |-> colors]
    BY <2>7, <2>11
  <2>13. new[2 * i] \in GridRows
    BY <2>8, <2>9, <2>12 DEF GridRows
  <2> QED BY <2>4, <2>10, <2>12, <2>13
<1> HIDE DEF new
<1>5. Laid(pgs, new)
  BY <1>3, <1>4, LaidAgain
<1> QED BY <1>3, <1>4, <1>5 DEF new

Positioned(file, line) ==
  /\ file \in [Ranks -> Files \cup {NoFile}]
  /\ line \in [Ranks -> Lines \cup {Blank}]
  /\ \A r \in Ranks : file[r] # NoFile => line[r] \in Lines

\* ColorsAgree for any grid.
ColorsTell(grid) ==
  \A i \in 1 .. Len(grid), q, r \in Ranks :
    /\ grid[i].text[q] # Blank /\ grid[i].color[q] # NoColor
    /\ grid[i].text[r] # Blank /\ grid[i].color[r] # NoColor
    => ((grid[i].text[q] = grid[i].text[r]) <=> (grid[i].color[q] = grid[i].color[r]))

\* A grid just colored from the positions its labels show.
LEMMA ColoredTells ==
  ASSUME NEW pgs, NEW grid, Laid(pgs, grid), NEW file, NEW line,
         Labelled(pgs, grid, file, line),
         \A i \in 1 .. Len(pgs), r \in Ranks :
           grid[2 * i].color[r] = ColorOf(pgs[i], r, file, line)
  PROVE  ColorsTell(grid)
<1> SUFFICES ASSUME NEW k \in 1 .. Len(grid), NEW q \in Ranks, NEW r \in Ranks,
                    grid[k].text[q] # Blank, grid[k].color[q] # NoColor,
                    grid[k].text[r] # Blank, grid[k].color[r] # NoColor
             PROVE  (grid[k].text[q] = grid[k].text[r])
                    <=> (grid[k].color[q] = grid[k].color[r])
  BY DEF ColorsTell
<1>1. Len(pgs) \in Nat /\ Len(grid) = 2 * Len(pgs)
  BY DEF Laid
<1>2. PICK i \in 1 .. Len(pgs) : k = 2 * i \/ k = 2 * i - 1
  BY <1>1, RowKinds
<1>3. k = 2 * i
  <2>1. grid[2 * i - 1].text[q] = Blank
    BY DEF Laid
  <2> QED BY <1>2, <2>1
<1>4. /\ pgs[i] = file[q] /\ grid[k].text[q] = line[q]
      /\ pgs[i] = file[r] /\ grid[k].text[r] = line[r]
  <2>1. pgs[i] = file[q] /\ pgs[i] = file[r]
    BY <1>3 DEF ColorOf
  <2> QED BY <1>3, <2>1 DEF Labelled
<1>5. /\ grid[k].color[q] = Offset(pgs[i], q, file, line)
      /\ grid[k].color[r] = Offset(pgs[i], r, file, line)
  BY <1>3 DEF ColorOf
<1>6. Offset(pgs[i], q, file, line) = Offset(pgs[i], r, file, line) <=> line[q] = line[r]
  <2> DEFINE p == pgs[i]
  <2>1. file[q] = p /\ file[r] = p
    BY <1>4
  <2> HIDE DEF p
  <2>2. Offset(p, q, file, line) = Offset(p, r, file, line) <=> line[q] = line[r]
    BY <2>1, OffsetsTell
  <2> QED BY <2>2 DEF p
<1> QED BY <1>4, <1>5, <1>6

-----------------------------------------------------------------------------
(* The inductive invariant *)

\* The maps are those of the notebook, and of a grid that may just be changing.
MapsFit(grid) ==
  /\ Laid(pages, grid)
  /\ last_row = Len(grid)
  /\ views = {pages[i] : i \in 1 .. Len(pages)}
  /\ RowsMapped(path_2_row, pages)
  /\ DOMAIN pagenum_2_path = 0 .. Len(pages) - 1
  /\ DOMAIN path_2_pagenum = views
  /\ \A i \in 1 .. Len(pages) : /\ pagenum_2_path[i - 1] = pages[i]
                                /\ path_2_pagenum[pages[i]] = i - 1

\* A file in use has its page.
UsedOpen ==
  /\ \A r \in Ranks : current_file[r] # NoFile => current_file[r] \in views
  /\ marks \subseteq views

Messages ==
  {m \in [kind : {"stopped", "running", "exited", "scroll"}, rank : Ranks,
          file : Files \cup {NoFile}, line : Lines \cup {Blank}, first : BOOLEAN] :
     /\ m.file # NoFile => m.line \in Lines
     /\ m.kind = "scroll" => m.first}

\* The batches of a chunk are of one rank.
Queued(queue) ==
  /\ queue \in Seq(Messages)
  /\ \A i, j \in 1 .. Len(queue) :
       i < j /\ (\A k \in i + 1 .. j : ~queue[k].first) => queue[i].rank = queue[j].rank

\* A process with a position is stopped; one that is not has no label, or is in the
\* middle of its chunk.
StatesShown ==
  /\ target_state \in [Ranks -> {"unknown", "running", "stopped", "exited"}]
  /\ \A r \in Ranks : current_file[r] # NoFile => target_state[r] = "stopped"
  /\ \A r \in Ranks :
       target_state[r] # "stopped" /\ ~(InChunk /\ Head(idle).rank = r) => NoLabel(pages, rows, r)

TabsInv ==
  /\ Queued(idle)
  /\ Positioned(current_file, current_line)
  /\ MapsFit(rows)
  /\ UsedOpen
  /\ Labelled(pages, rows, current_file, current_line)
  /\ StatesShown
  /\ ColorsTell(rows)

\* The queue after its head is handled, and after a batch or a deferred scroll came in.
LEMMA TailQueued ==
  ASSUME NEW queue, Queued(queue), queue # << >>
  PROVE  Queued(Tail(queue)) /\ Head(queue) \in Messages
<1>1. /\ queue \in Seq(Messages) /\ Len(queue) \in Nat /\ Tail(queue) \in Seq(Messages)
      /\ Len(Tail(queue)) = Len(queue) - 1 /\ Head(queue) \in Messages
      /\ \A k \in 1 .. Len(queue) - 1 : Tail(queue)[k] = queue[k + 1]
  BY DEF Queued
<1>2. ASSUME NEW i \in 1 .. Len(queue) - 1, NEW j \in 1 .. Len(queue) - 1, i < j,
             \A k \in i + 1 .. j : ~Tail(queue)[k].first
      PROVE  Tail(queue)[i].rank = Tail(queue)[j].rank
  <2>1. /\ i + 1 \in 1 .. Len(queue) /\ j + 1 \in 1 .. Len(queue) /\ i + 1 < j + 1
        /\ \A k \in (i + 1) + 1 .. j + 1 : k - 1 \in i + 1 .. j /\ k - 1 \in 1 .. Len(queue) - 1
                                          /\ (k - 1) + 1 = k
    BY <1>1, <1>2
  <2>2. \A k \in (i + 1) + 1 .. j + 1 : ~queue[k].first
    BY <1>1, <1>2, <2>1
  <2>3. queue[i + 1].rank = queue[j + 1].rank
    BY <2>1, <2>2 DEF Queued
  <2> QED BY <1>1, <2>3
<1> QED BY <1>1, <1>2 DEF Queued

LEMMA AppendQueued ==
  ASSUME NEW queue, Queued(queue), NEW m \in Messages,
         m.first \/ \E i \in 1 .. Len(queue) :
                      /\ queue[i].first /\ queue[i].rank = m.rank
                      /\ \A k \in i + 1 .. Len(queue) : ~queue[k].first
  PROVE  Queued(Append(queue, m))
<1> DEFINE longer == Append(queue, m)
           N == Len(queue)
<1>1. /\ queue \in Seq(Messages) /\ N \in Nat /\ longer \in Seq(Messages)
      /\ Len(longer) = N + 1 /\ longer[N + 1] = m
      /\ \A k \in 1 .. N : longer[k] = queue[k]
  BY DEF Queued
<1> HIDE DEF longer
<1>2. ASSUME NEW i \in 1 .. N + 1, NEW j \in 1 .. N + 1, i < j,
             \A k \in i + 1 .. j : ~longer[k].first
      PROVE  longer[i].rank = longer[j].rank
  <2>1. i \in 1 .. N /\ longer[i] = queue[i]
    BY <1>1, <1>2
  <2>2. CASE j \in 1 .. N
    <3>1. \A k \in i + 1 .. j : k \in 1 .. N
      BY <1>1, <2>2
    <3>2. \A k \in i + 1 .. j : ~queue[k].first
      BY <1>1, <1>2, <3>1
    <3> QED BY <1>1, <1>2, <2>1, <2>2, <3>2 DEF Queued
  <2>3. CASE j = N + 1
    <3>1. ~m.first
      BY <1>1, <1>2, <2>3
    <3>2. PICK b \in 1 .. N : /\ queue[b].first /\ queue[b].rank = m.rank
                              /\ \A k \in b + 1 .. N : ~queue[k].first
      BY <3>1
    <3>3. ~(i < b)
      <4> SUFFICES ASSUME i < b PROVE FALSE
        OBVIOUS
      <4>1. b \in i + 1 .. j /\ longer[b] = queue[b]
        BY <1>1, <2>1, <2>3
      <4> QED BY <1>2, <3>2, <4>1
    <3>4. queue[b].rank = queue[i].rank
      <4>1. CASE b = i
        BY <4>1
      <4>2. CASE b # i
        <5>1. b < i /\ \A k \in b + 1 .. i : k \in b + 1 .. N
          BY <1>1, <2>1, <3>3, <4>2
        <5>2. \A k \in b + 1 .. i : ~queue[k].first
          BY <3>2, <5>1
        <5> QED BY <2>1, <5>1, <5>2 DEF Queued
      <4> QED BY <4>1, <4>2
    <3> QED BY <1>1, <2>1, <2>3, <3>2, <3>4
  <2> QED BY <1>1, <2>2, <2>3
<1>3. Queued(longer)
  BY <1>1, <1>2 DEF Queued
<1> QED BY <1>3 DEF longer

\* The page and the row a new file gets.
LEMMA AppendFits ==
  ASSUME NEW grid, MapsFit(grid), NEW f \in Files, NEW file, NEW line,
         Positioned(file, line), Labelled(pages, grid, file, line), ColorsTell(grid),
         AppendSourceFile(f, grid, file, line)
  PROVE  /\ MapsFit(rows)' /\ views' = views \cup {f}
         /\ Labelled(pages', rows', file, line) /\ ColorsTell(rows')
         /\ \A r \in Ranks : file[r] = NoFile /\ NoLabel(pages, grid, r)
                              => NoLabel(pages', rows', r)
<1>1. CASE f \in views
  <2>1. /\ rows' = grid /\ pages' = pages /\ last_row' = last_row /\ views' = views
        /\ path_2_pagenum' = path_2_pagenum /\ pagenum_2_path' = pagenum_2_path
        /\ path_2_row' = path_2_row
    BY <1>1 DEF AppendSourceFile, maps
  <2> QED BY <1>1, <2>1 DEF MapsFit
<1>2. CASE f \notin views
  <2> DEFINE N == Len(pages)
             longer == grid \o <<Separator, NewRow(f, file, line)>>
  <2>1. /\ pages' = Append(pages, f)
        /\ path_2_row' = With(path_2_row, f, last_row + 1)
        /\ rows' = Colored(longer, path_2_row', file, line)
        /\ last_row' = last_row + 2
        /\ path_2_pagenum' = With(path_2_pagenum, f, N)
        /\ pagenum_2_path' = With(pagenum_2_path, N, f)
        /\ views' = views \cup {f}
    BY <1>2 DEF AppendSourceFile
  <2>2. /\ N \in Nat /\ pages \in Seq(Files) /\ grid \in Seq(GridRows)
        /\ Len(grid) = 2 * N /\ last_row = 2 * N
    BY DEF MapsFit, Laid
  <2>3. /\ pages' \in Seq(Files) /\ Len(pages') = N + 1 /\ pages'[N + 1] = f
        /\ \A i \in 1 .. N : pages'[i] = pages[i]
    BY <2>1, <2>2
  <2>4. \A i \in 1 .. N : pages[i] \in views /\ pages[i] # f /\ pages[i] \in Files
    BY <1>2, <2>2 DEF MapsFit
  <2>5. Separator \in GridRows /\ NewRow(f, file, line) \in GridRows
    BY DEF Separator, NewRow, GridRows, Positioned, NoColor
  <2>6. /\ longer \in Seq(GridRows) /\ Len(longer) = 2 * (N + 1)
        /\ \A k \in 1 .. 2 * N : longer[k] = grid[k]
        /\ longer[2 * (N + 1) - 1] = Separator
        /\ longer[2 * (N + 1)] = NewRow(f, file, line)
    BY <2>2, <2>5
  <2> HIDE DEF N, longer
  <2>7. \A i \in 1 .. N + 1 : i \in 1 .. N \/ i = N + 1
    BY <2>2
  <2>8. ASSUME NEW i \in 1 .. N + 1
        PROVE  /\ longer[2 * i].path = pages'[i]
               /\ longer[2 * i - 1].path = NoFile
               /\ \A r \in Ranks :
                    /\ longer[2 * i - 1].text[r] = Blank
                    /\ longer[2 * i].text[r] \in {Blank, line[r]}
                    /\ pages'[i] = file[r] => longer[2 * i].text[r] = line[r]
                    /\ file[r] \notin {pages'[i], NoFile} => longer[2 * i].text[r] = Blank
                    /\ i \in 1 .. N => longer[2 * i].text[r] = grid[2 * i].text[r]
                    /\ file[r] = NoFile /\ i = N + 1 => longer[2 * i].text[r] = Blank
    <3>1. CASE i \in 1 .. N
      <4>1. 2 * i \in 1 .. 2 * N /\ 2 * i - 1 \in 1 .. 2 * N
        BY <3>1, <2>2
      <4>2. longer[2 * i] = grid[2 * i] /\ longer[2 * i - 1] = grid[2 * i - 1]
        BY <4>1, <2>6
      <4>3. i # N + 1 /\ pages'[i] = pages[i]
        BY <3>1, <2>2, <2>3
      <4>4. grid[2 * i].path = pages[i] /\ grid[2 * i - 1].path = NoFile
        BY <3>1 DEF MapsFit, Laid, N
      <4>5. ASSUME NEW r \in Ranks
            PROVE  /\ grid[2 * i - 1].text[r] = Blank
                   /\ grid[2 * i].text[r] \in {Blank, line[r]}
                   /\ pages[i] = file[r] => grid[2 * i].text[r] = line[r]
                   /\ file[r] \notin {pages[i], NoFile} => grid[2 * i].text[r] = Blank
        BY <3>1 DEF MapsFit, Laid, Labelled, N
      <4> QED BY <4>2, <4>3, <4>4, <4>5
    <3>2. CASE i = N + 1
      <4>1. i \notin 1 .. N /\ NoFile # f
        BY <3>2, <2>2, TabsAssumption
      <4> QED BY <3>2, <4>1, <2>3, <2>6 DEF Separator, NewRow
    <3> QED BY <3>1, <3>2, <2>7
  <2>9. \A i, j \in 1 .. N + 1 : pages'[i] = pages'[j] => i = j
    BY <2>2, <2>3, <2>4, <2>7 DEF MapsFit, Laid, N
  <2>10. Laid(pages', longer)
    BY <2>2, <2>3, <2>6, <2>8, <2>9 DEF Laid
  <2>11. {pages'[i] : i \in 1 .. N + 1} = views'
    BY <2>1, <2>2, <2>3, <2>7 DEF MapsFit, N
  <2>12. RowsMapped(path_2_row', pages')
    <3>1. DOMAIN path_2_row' = views'
      BY <2>1, WithFacts, ZenonT(30) DEF MapsFit, RowsMapped
    <3>2. path_2_row'[f] = 2 * (N + 1) - 1
      BY <2>1, <2>2 DEF With
    <3>3. \A i \in 1 .. N : path_2_row'[pages[i]] = 2 * i - 1
      BY <2>1, <2>4 DEF MapsFit, RowsMapped, N, With
    <3> QED BY <3>1, <3>2, <3>3, <2>3, <2>7, <2>11 DEF RowsMapped
  <2>13. /\ Laid(pages', rows') /\ Len(rows') = 2 * (N + 1)
         /\ \A i \in 1 .. N + 1 :
              /\ rows'[2 * i].text = longer[2 * i].text
              /\ \A r \in Ranks : rows'[2 * i].color[r] = ColorOf(pages'[i], r, file, line)
    <3> DEFINE new == Colored(longer, path_2_row', file, line)
    <3>1. /\ Laid(pages', new) /\ Len(new) = Len(longer)
          /\ \A i \in 1 .. Len(pages') :
               /\ new[2 * i].text = longer[2 * i].text
               /\ \A r \in Ranks : new[2 * i].color[r] = ColorOf(pages'[i], r, file, line)
      BY <2>10, <2>12, ColoredFacts
    <3>2. rows' = new
      BY <2>1
    <3> HIDE DEF new
    <3> QED BY <3>1, <3>2, <2>3, <2>6
  <2>14. Labelled(pages', rows', file, line)
    <3>1. \A i \in 1 .. N + 1, r \in Ranks :
            /\ rows'[2 * i].text[r] \in {Blank, line[r]}
            /\ pages'[i] = file[r] => rows'[2 * i].text[r] = line[r]
            /\ file[r] \notin {pages'[i], NoFile} => rows'[2 * i].text[r] = Blank
      BY <2>8, <2>13
    <3>2. ASSUME NEW i \in 1 .. N + 1, NEW j \in 1 .. N + 1, NEW r \in Ranks,
                 file[r] = NoFile, rows'[2 * i].text[r] # Blank, rows'[2 * j].text[r] # Blank
          PROVE  i = j
      <4>1. i # N + 1 /\ j # N + 1
        BY <3>2, <2>8, <2>13
      <4>2. i \in 1 .. N /\ j \in 1 .. N
        BY <4>1, <2>7
      <4>3. grid[2 * i].text[r] # Blank /\ grid[2 * j].text[r] # Blank
        BY <3>2, <4>2, <2>8, <2>13
      <4> QED BY <3>2, <4>2, <4>3 DEF Labelled, N
    <3> QED BY <3>1, <3>2, <2>3 DEF Labelled
  <2>15. ColorsTell(rows')
    BY <2>3, <2>13, <2>14, ColoredTells
  <2>16. DOMAIN pagenum_2_path' = 0 .. Len(pages') - 1
    <3>1. DOMAIN pagenum_2_path' = 0 .. N - 1 \cup {N}
      BY <2>1, WithFacts DEF MapsFit, N
    <3> QED BY <3>1, <2>2, <2>3
  <2>17. DOMAIN path_2_pagenum' = views'
    BY <2>1, WithFacts DEF MapsFit
  <2>18. ASSUME NEW i \in 1 .. N + 1
         PROVE  pagenum_2_path'[i - 1] = pages'[i] /\ path_2_pagenum'[pages'[i]] = i - 1
    <3>1. CASE i \in 1 .. N
      <4>1. pagenum_2_path[i - 1] = pages[i] /\ path_2_pagenum[pages[i]] = i - 1
        BY <3>1 DEF MapsFit, N
      <4>2. i - 1 \in DOMAIN pagenum_2_path /\ i - 1 # N
        BY <3>1, <2>2 DEF MapsFit, N
      <4>3. pages[i] \in DOMAIN path_2_pagenum /\ pages[i] # f
        BY <3>1, <2>4 DEF MapsFit
      <4>4. pagenum_2_path'[i - 1] = pagenum_2_path[i - 1]
        BY <4>2, <2>1 DEF With
      <4>5. path_2_pagenum'[pages[i]] = path_2_pagenum[pages[i]]
        BY <4>3, <2>1 DEF With
      <4> QED BY <3>1, <4>1, <4>4, <4>5, <2>3
    <3>2. CASE i = N + 1
      <4>1. pagenum_2_path'[N] = f /\ path_2_pagenum'[f] = N
        BY <2>1 DEF With
      <4> QED BY <3>2, <4>1, <2>2, <2>3
    <3> QED BY <3>1, <3>2, <2>7
  <2>19. last_row' = Len(rows')
    BY <2>1, <2>2, <2>13
  <2>20. MapsFit(rows)'
    BY <2>3, <2>11, <2>12, <2>13, <2>16, <2>17, <2>18, <2>19 DEF MapsFit
  <2>21. ASSUME NEW r \in Ranks, file[r] = NoFile, NoLabel(pages, grid, r)
         PROVE  NoLabel(pages', rows', r)
    <3>1. \A i \in 1 .. N : grid[2 * i].text[r] = Blank
      BY <2>21 DEF NoLabel, N
    <3>2. \A i \in 1 .. N + 1 : rows'[2 * i].text[r] = Blank
      BY <2>7, <2>8, <2>13, <2>21, <3>1
    <3> QED BY <3>2, <2>3 DEF NoLabel
  <2> QED BY <2>1, <2>14, <2>15, <2>20, <2>21
<1> QED BY <1>1, <1>2

-----------------------------------------------------------------------------
(* The steps *)

\* The batch behind the head of a chunk that goes on.
LEMMA SameChunk ==
  ASSUME Queued(idle), idle # << >>, ~EndsChunk
  PROVE  /\ Tail(idle) # << >> /\ ~Head(Tail(idle)).first
         /\ Head(Tail(idle)).rank = Head(idle).rank
<1>1. idle \in Seq(Messages) /\ Len(idle) \in Nat /\ Len(idle) # 0 /\ Head(idle) = idle[1]
  <2>1. idle \in Seq(Messages)
    BY DEF Queued
  <2>2. Len(idle) # 0
    BY <2>1, EmptySeq
  <2> QED BY <2>1, <2>2
<1>2. Len(idle) > 1 /\ ~idle[2].first
  <2>1. Len(idle) # 1 /\ ~idle[2].first
    BY Zenon DEF EndsChunk
  <2>2. Len(idle) > 1
    <3>1. Len(idle) \in Nat /\ Len(idle) # 0 /\ Len(idle) # 1
      BY <1>1, <2>1, Zenon
    <3> DEFINE n == Len(idle)
    <3> HIDE DEF n
    <3>2. n \in Nat /\ n # 0 /\ n # 1
      BY <3>1, Zenon DEF n
    <3>3. n > 1
      BY <3>2
    <3> QED BY <3>3 DEF n
  <2> QED BY <2>1, <2>2, Zenon
<1>3. Tail(idle) # << >> /\ Head(Tail(idle)) = idle[2]
  <2>1. Tail(idle) \in Seq(Messages) /\ Len(Tail(idle)) = Len(idle) - 1 /\ Tail(idle)[1] = idle[2]
    BY <1>1, <1>2
  <2>2. Len(Tail(idle)) # 0
    BY <1>1, <1>2, <2>1
  <2>3. Tail(idle) # << >>
    BY <2>2, EmptySeq
  <2>4. Head(Tail(idle)) = Tail(idle)[1]
    BY <2>1, <2>2
  <2> QED BY <2>1, <2>3, <2>4, Zenon
<1>4. /\ 1 \in 1 .. Len(idle) /\ 2 \in 1 .. Len(idle) /\ 1 < 2
      /\ \A k \in 1 + 1 .. 2 : k = 2
  BY <1>1, <1>2
<1>5. \A k \in 1 + 1 .. 2 : ~idle[k].first
  BY <1>2, <1>4
<1>6. idle[1].rank = idle[2].rank
  BY <1>4, <1>5 DEF Queued
<1> QED BY <1>1, <1>2, <1>3, <1>6

\* A process that runs again or has exited; its labels go now, or at the end of its chunk.
LEMMA LeavesTabs ==
  ASSUME TabsInv, idle # << >>, NEW state \in {"running", "exited"},
         target_state' = [target_state EXCEPT ![Head(idle).rank] = state],
         current_file' = [current_file EXCEPT ![Head(idle).rank] = NoFile],
         rows' = Relabeled(rows, Head(idle).rank, NoFile, Blank) \/ (rows' = rows /\ ~EndsChunk),
         idle' = Tail(idle),
         UNCHANGED <<current_line, pages, last_row, maps, marks>>
  PROVE  TabsInv'
<1> DEFINE r == Head(idle).rank
<1>1. Queued(idle') /\ Head(idle) \in Messages
  BY TailQueued DEF TabsInv
<1>2. r \in Ranks
  BY <1>1 DEF Messages
<1>3. /\ target_state' = [target_state EXCEPT ![r] = state]
      /\ current_file' = [current_file EXCEPT ![r] = NoFile]
      /\ rows' = Relabeled(rows, r, NoFile, Blank) \/ (rows' = rows /\ ~EndsChunk)
      /\ current_line' = current_line /\ pages' = pages /\ last_row' = last_row
      /\ path_2_pagenum' = path_2_pagenum /\ pagenum_2_path' = pagenum_2_path
      /\ path_2_row' = path_2_row /\ views' = views /\ marks' = marks
  BY DEF maps
<1>4. /\ Laid(pages, rows) /\ RowsMapped(path_2_row, pages) /\ Len(pages) \in Nat
      /\ Len(rows) = 2 * Len(pages) /\ pages \in Seq(Files)
      /\ \A i \in 1 .. Len(pages) : pages[i] # NoFile
  BY TabsAssumption DEF TabsInv, MapsFit, Laid
<1>5. ~EndsChunk => InChunk' /\ Head(idle').rank = r
  BY SameChunk DEF TabsInv, InChunk
<1> HIDE DEF r
<1>6. /\ Laid(pages, rows') /\ Len(rows') = Len(rows)
      /\ \A i \in 1 .. Len(pages) :
           /\ rows'[2 * i].text[r] \in {Blank, rows[2 * i].text[r]}
           /\ EndsChunk => rows'[2 * i].text[r] = Blank
           /\ \A q \in Ranks \ {r} : rows'[2 * i].text[q] = rows[2 * i].text[q]
           /\ rows'[2 * i].color = rows[2 * i].color
  <2>1. CASE rows' = Relabeled(rows, r, NoFile, Blank)
    <3>1. /\ Laid(pages, rows') /\ Len(rows') = Len(rows)
          /\ \A i \in 1 .. Len(pages) :
               /\ rows'[2 * i].text[r] = IF pages[i] = NoFile THEN Blank ELSE Blank
               /\ \A q \in Ranks \ {r} : rows'[2 * i].text[q] = rows[2 * i].text[q]
               /\ rows'[2 * i].color = rows[2 * i].color
      BY <1>2, <2>1, <1>4, RelabeledFacts
    <3> QED BY <3>1
  <2>2. CASE rows' = rows /\ ~EndsChunk
    BY <2>2, <1>4
  <2> QED BY <1>3, <2>1, <2>2
<1>7. MapsFit(rows)'
  <2>1. MapsFit(rows)
    BY DEF TabsInv
  <2>2. last_row' = Len(rows') /\ Laid(pages', rows')
    BY <1>3, <1>6, <2>1 DEF MapsFit
  <2> QED BY <1>3, <2>1, <2>2 DEF MapsFit
<1>8. /\ current_file \in [Ranks -> Files \cup {NoFile}]
      /\ current_file'[r] = NoFile
      /\ \A q \in Ranks \ {r} : current_file'[q] = current_file[q]
  BY <1>2, <1>3 DEF TabsInv, Positioned
<1>9. Positioned(current_file, current_line)' /\ UsedOpen'
  BY <1>2, <1>3, <1>8 DEF TabsInv, Positioned, UsedOpen
<1>10. Labelled(pages, rows, current_file, current_line)'
  <2>1. ASSUME NEW i \in 1 .. Len(pages), NEW q \in Ranks
        PROVE  /\ rows'[2 * i].text[q] \in {Blank, current_line[q]}
               /\ pages[i] = current_file'[q] => rows'[2 * i].text[q] = current_line[q]
               /\ current_file'[q] \notin {pages[i], NoFile} => rows'[2 * i].text[q] = Blank
    <3>1. /\ rows[2 * i].text[q] \in {Blank, current_line[q]}
          /\ pages[i] = current_file[q] => rows[2 * i].text[q] = current_line[q]
          /\ current_file[q] \notin {pages[i], NoFile} => rows[2 * i].text[q] = Blank
      BY DEF TabsInv, Labelled
    <3>2. CASE q = r
      BY <3>1, <3>2, <1>4, <1>6, <1>8
    <3>3. CASE q # r
      BY <3>1, <3>3, <1>6, <1>8
    <3> QED BY <3>2, <3>3
  <2>2. ASSUME NEW i \in 1 .. Len(pages), NEW j \in 1 .. Len(pages), NEW q \in Ranks,
               current_file'[q] = NoFile,
               rows'[2 * i].text[q] # Blank, rows'[2 * j].text[q] # Blank
        PROVE  i = j
    <3>1. rows[2 * i].text[q] # Blank /\ rows[2 * j].text[q] # Blank
      BY <2>2, <1>6
    <3>2. CASE current_file[q] = NoFile
      BY <3>1, <3>2 DEF TabsInv, Labelled
    <3>3. CASE current_file[q] # NoFile
      <4>1. pages[i] = current_file[q] /\ pages[j] = current_file[q]
        BY <3>1, <3>3 DEF TabsInv, Labelled
      <4> QED BY <4>1, <1>4 DEF Laid
    <3> QED BY <3>2, <3>3
  <2> QED BY <1>3, <2>1, <2>2 DEF Labelled
<1>11. StatesShown'
  <2>1. /\ target_state'[r] = state
        /\ \A q \in Ranks \ {r} : target_state'[q] = target_state[q]
        /\ target_state' \in [Ranks -> {"unknown", "running", "stopped", "exited"}]
    BY <1>2, <1>3 DEF TabsInv, StatesShown
  <2>2. \A q \in Ranks : current_file'[q] # NoFile => target_state'[q] = "stopped"
    BY <1>8, <2>1 DEF TabsInv, StatesShown
  <2>3. ASSUME NEW q \in Ranks, target_state'[q] # "stopped",
               ~(InChunk' /\ Head(idle').rank = q)
        PROVE  NoLabel(pages', rows', q)
    <3>1. CASE q = r
      <4>1. EndsChunk
        BY <2>3, <3>1, <1>5
      <4> QED BY <3>1, <4>1, <1>3, <1>6 DEF NoLabel
    <3>2. CASE q # r
      <4>1. NoLabel(pages, rows, q)
        BY <2>1, <2>3, <3>2 DEF TabsInv, StatesShown, r
      <4> QED BY <3>2, <4>1, <1>3, <1>6 DEF NoLabel
    <3> QED BY <3>1, <3>2
  <2> QED BY <2>1, <2>2, <2>3 DEF StatesShown
<1>12. ColorsTell(rows')
  <2> SUFFICES ASSUME NEW k \in 1 .. Len(rows), NEW q \in Ranks, NEW s \in Ranks,
                      rows'[k].text[q] # Blank, rows'[k].color[q] # NoColor,
                      rows'[k].text[s] # Blank, rows'[k].color[s] # NoColor
               PROVE  (rows'[k].text[q] = rows'[k].text[s])
                      <=> (rows'[k].color[q] = rows'[k].color[s])
    BY <1>6 DEF ColorsTell
  <2>1. PICK i \in 1 .. Len(pages) : k = 2 * i \/ k = 2 * i - 1
    BY <1>4, RowKinds
  <2>2. k = 2 * i
    <3>1. rows'[2 * i - 1].text[q] = Blank
      BY <1>6 DEF Laid
    <3> QED BY <2>1, <3>1
  <2>3. /\ rows'[k].text[q] = rows[k].text[q] /\ rows'[k].text[s] = rows[k].text[s]
        /\ rows'[k].color = rows[k].color
    BY <1>6, <2>2
  <2> QED BY <2>3 DEF TabsInv, ColorsTell
<1> QED BY <1>1, <1>7, <1>9, <1>10, <1>11, <1>12 DEF TabsInv

LEMMA HandleRunningTabs ==
  ASSUME TabsInv, HandleRunning
  PROVE  TabsInv'
BY LeavesTabs DEF HandleRunning, LabelsOfRunning, Blank

LEMMA HandleExitedTabs ==
  ASSUME TabsInv, HandleExited
  PROVE  TabsInv'
BY LeavesTabs DEF HandleExited, Blank

LEMMA HandleStopTabs ==
  ASSUME TabsInv, HandleStop
  PROVE  TabsInv'
<1> DEFINE r == Head(idle).rank
           f == Head(idle).file
           l == Head(idle).line
           labeled == Relabeled(rows, r, f, l)
           grid == Colored(labeled, path_2_row, current_file', current_line')
<1>1. /\ Queued(Tail(idle)) /\ Head(idle) \in Messages
      /\ Head(idle).file # NoFile
  BY TailQueued DEF HandleStop, TabsInv
<1>2. r \in Ranks /\ f \in Files /\ f # NoFile /\ l \in Lines /\ l \in Lines \cup {Blank}
  BY <1>1 DEF Messages
<1>3. /\ current_file' = [current_file EXCEPT ![r] = f]
      /\ current_line' = [current_line EXCEPT ![r] = l]
      /\ AppendSourceFile(f, grid, current_file', current_line')
      /\ idle' = Append(Tail(idle), Scroll(r)) \/ idle' = Tail(idle)
      /\ marks' = marks /\ target_state' = [target_state EXCEPT ![r] = "stopped"]
  BY DEF HandleStop
<1> HIDE DEF r, f, l
<1>4. /\ Laid(pages, rows) /\ RowsMapped(path_2_row, pages) /\ Len(pages) \in Nat
      /\ Len(rows) = 2 * Len(pages) /\ last_row = Len(rows)
  BY DEF TabsInv, MapsFit, Laid
<1>5. /\ Laid(pages, labeled) /\ Len(labeled) = Len(rows)
      /\ \A i \in 1 .. Len(pages) :
           /\ labeled[2 * i].text[r] = IF pages[i] = f THEN l ELSE Blank
           /\ \A q \in Ranks \ {r} : labeled[2 * i].text[q] = rows[2 * i].text[q]
  BY <1>2, <1>4, RelabeledFacts
<1> HIDE DEF labeled
<1>6. /\ Laid(pages, grid) /\ Len(grid) = Len(labeled)
      /\ \A i \in 1 .. Len(pages) :
           /\ grid[2 * i].text = labeled[2 * i].text
           /\ \A q \in Ranks :
                grid[2 * i].color[q] = ColorOf(pages[i], q, current_file', current_line')
  BY <1>4, <1>5, ColoredFacts
<1> HIDE DEF grid
<1>7. /\ current_file'[r] = f /\ current_line'[r] = l
      /\ \A q \in Ranks \ {r} : /\ current_file'[q] = current_file[q]
                                /\ current_line'[q] = current_line[q]
      /\ Positioned(current_file', current_line')
  BY <1>2, <1>3 DEF TabsInv, Positioned
<1>8. Labelled(pages, grid, current_file', current_line')
  <2>1. ASSUME NEW i \in 1 .. Len(pages), NEW q \in Ranks
        PROVE  /\ grid[2 * i].text[q] \in {Blank, current_line'[q]}
               /\ pages[i] = current_file'[q] => grid[2 * i].text[q] = current_line'[q]
               /\ current_file'[q] \notin {pages[i], NoFile} => grid[2 * i].text[q] = Blank
    <3>1. CASE q = r
      BY <3>1, <1>5, <1>6, <1>7
    <3>2. CASE q # r
      BY <3>2, <1>5, <1>6, <1>7 DEF TabsInv, Labelled
    <3> QED BY <3>1, <3>2
  <2>2. ASSUME NEW i \in 1 .. Len(pages), NEW j \in 1 .. Len(pages), NEW q \in Ranks,
               current_file'[q] = NoFile, grid[2 * i].text[q] # Blank, grid[2 * j].text[q] # Blank
        PROVE  i = j
    <3>1. q # r
      BY <2>2, <1>2, <1>7
    <3>2. /\ rows[2 * i].text[q] # Blank /\ rows[2 * j].text[q] # Blank
          /\ current_file[q] = NoFile
      BY <2>2, <3>1, <1>5, <1>6, <1>7
    <3> QED BY <3>2 DEF TabsInv, Labelled
  <2> QED BY <2>1, <2>2 DEF Labelled
<1>9. ColorsTell(grid)
  BY <1>6, <1>8, ColoredTells
<1>10. MapsFit(grid)
  BY <1>4, <1>5, <1>6 DEF TabsInv, MapsFit
<1>11. /\ MapsFit(rows)' /\ views' = views \cup {f}
       /\ Labelled(pages', rows', current_file', current_line') /\ ColorsTell(rows')
       /\ \A q \in Ranks : current_file'[q] = NoFile /\ NoLabel(pages, grid, q)
                            => NoLabel(pages', rows', q)
  BY <1>2, <1>3, <1>7, <1>8, <1>9, <1>10, AppendFits
<1>12. UsedOpen'
  BY <1>3, <1>7, <1>11 DEF TabsInv, UsedOpen
<1>13. Queued(idle')
  <2>1. Scroll(r) \in Messages /\ Scroll(r).first
    BY <1>2 DEF Scroll, Messages, Blank
  <2> QED BY <1>1, <1>3, <2>1, AppendQueued
<1>14. StatesShown'
  <2>1. /\ target_state'[r] = "stopped"
        /\ \A q \in Ranks \ {r} : target_state'[q] = target_state[q]
        /\ target_state' \in [Ranks -> {"unknown", "running", "stopped", "exited"}]
    BY <1>2, <1>3 DEF TabsInv, StatesShown
  <2>2. \A q \in Ranks : current_file'[q] # NoFile => target_state'[q] = "stopped"
    BY <1>7, <2>1 DEF TabsInv, StatesShown
  <2>3. ASSUME NEW q \in Ranks, target_state'[q] # "stopped"
        PROVE  NoLabel(pages', rows', q)
    <3>1. q # r /\ target_state[q] # "stopped" /\ current_file[q] = NoFile
      BY <2>1, <2>3 DEF TabsInv, StatesShown
    <3>2. NoLabel(pages, rows, q)
      BY <3>1 DEF TabsInv, StatesShown, r
    <3>3. NoLabel(pages, grid, q)
      BY <3>1, <3>2, <1>5, <1>6 DEF NoLabel
    <3> QED BY <3>1, <3>3, <1>7, <1>11
  <2> QED BY <2>1, <2>2, <2>3 DEF StatesShown
<1> QED BY <1>7, <1>11, <1>12, <1>13, <1>14 DEF TabsInv

LEMMA OpenFileTabs ==
  ASSUME TabsInv, NEW f \in Files, OpenFile(f)
  PROVE  TabsInv'
<1>1. /\ AppendSourceFile(f, rows, current_file, current_line)
      /\ idle' = idle /\ marks' = marks /\ target_state' = target_state
      /\ current_file' = current_file /\ current_line' = current_line
  BY DEF OpenFile, positions
<1>2. /\ MapsFit(rows)' /\ views' = views \cup {f}
      /\ Labelled(pages', rows', current_file, current_line) /\ ColorsTell(rows')
      /\ \A r \in Ranks : current_file[r] = NoFile /\ NoLabel(pages, rows, r)
                           => NoLabel(pages', rows', r)
  BY <1>1, AppendFits DEF TabsInv
<1>3. StatesShown'
  BY <1>1, <1>2 DEF TabsInv, StatesShown, InChunk
<1> QED BY <1>1, <1>2, <1>3 DEF TabsInv, UsedOpen

LEMMA OpenMissingTabs ==
  ASSUME TabsInv, NEW f \in Files, OpenMissing(f)
  PROVE  TabsInv'
<1> DEFINE texts(i) == [r \in Ranks |-> IF IsRowOf(path_2_row, current_file[r], i)
                                        THEN current_line[r] ELSE Blank]
           labeled == [i \in 1 .. Len(rows) |->
                         IF \E p \in DOMAIN path_2_row : IsRowOf(path_2_row, p, i)
                         THEN [rows[i] EXCEPT !.text = texts(i)]
                         ELSE rows[i]]
<1>1. /\ rows' = Colored(labeled, path_2_row, current_file, current_line)
      /\ idle' = idle /\ marks' = marks /\ target_state' = target_state
      /\ current_file' = current_file /\ current_line' = current_line
      /\ pages' = pages /\ last_row' = last_row /\ path_2_pagenum' = path_2_pagenum
      /\ pagenum_2_path' = pagenum_2_path /\ path_2_row' = path_2_row /\ views' = views
  BY DEF OpenMissing, positions, maps
<1>2. /\ Laid(pages, rows) /\ RowsMapped(path_2_row, pages) /\ Len(pages) \in Nat
      /\ Len(rows) = 2 * Len(pages) /\ rows \in Seq(GridRows)
  BY DEF TabsInv, MapsFit, Laid
<1>3. Len(labeled) = Len(rows) /\ DOMAIN labeled = 1 .. Len(rows)
      /\ labeled = [k \in DOMAIN labeled |-> labeled[k]]
  BY <1>2
<1>4. ASSUME NEW i \in 1 .. Len(pages)
      PROVE  /\ labeled[2 * i] \in GridRows
             /\ labeled[2 * i].path = rows[2 * i].path
             /\ labeled[2 * i - 1] = rows[2 * i - 1]
             /\ \A r \in Ranks : labeled[2 * i].text[r] =
                  IF pages[i] = current_file[r] THEN current_line[r] ELSE Blank
  <2> DEFINE row == rows[2 * i]
             text == texts(2 * i)
  <2>1. 2 * i \in 1 .. Len(rows) /\ 2 * i - 1 \in 1 .. Len(rows)
    BY <1>2
  <2>2. /\ \A p : IsRowOf(path_2_row, p, 2 * i) <=> p = pages[i]
        /\ \A p : ~IsRowOf(path_2_row, p, 2 * i - 1)
    BY <1>2, RowOf
  <2>3. pages[i] \in DOMAIN path_2_row
    BY <1>2 DEF RowsMapped
  <2>4. labeled[2 * i - 1] = rows[2 * i - 1]
    BY <2>1, <2>2
  <2>5. \E p \in DOMAIN path_2_row : IsRowOf(path_2_row, p, 2 * i)
    BY <2>2, <2>3
  <2>6. labeled[2 * i] = [row EXCEPT !.text = text]
    BY <2>1, <2>5
  <2>7. row \in GridRows
    BY <1>2, <2>1
  <2>8. \A r \in Ranks :
          text[r] = IF pages[i] = current_file[r] THEN current_line[r] ELSE Blank
    BY <2>2
  <2>9. text \in [Ranks -> Lines \cup {Blank}]
    BY DEF TabsInv, Positioned
  <2> HIDE DEF labeled, text
  <2>10. row = [path |-> row.path, text |-> row.text, color |-> row.color]
    BY <2>7 DEF GridRows
  <2>11. labeled[2 * i] = [path |-> row.path, text |-> text, color |-> row.color]
    BY <2>6, <2>10
  <2>12. labeled[2 * i] \in GridRows
    BY <2>7, <2>9, <2>11 DEF GridRows
  <2> QED BY <2>4, <2>8, <2>11, <2>12
<1> HIDE DEF labeled, texts
<1>5. Laid(pages, labeled)
  <2>1. \A i \in 1 .. Len(pages) : /\ labeled[2 * i] \in GridRows
                                   /\ labeled[2 * i].path = rows[2 * i].path
                                   /\ labeled[2 * i - 1] = rows[2 * i - 1]
    BY <1>4
  <2>2. Laid(pages, rows)
    BY <1>2
  <2> QED BY <1>3, <2>1, <2>2, LaidAgain
<1>6. /\ Laid(pages, rows') /\ Len(rows') = Len(labeled)
      /\ \A i \in 1 .. Len(pages) :
           /\ rows'[2 * i].text = labeled[2 * i].text
           /\ \A q \in Ranks :
                rows'[2 * i].color[q] = ColorOf(pages[i], q, current_file, current_line)
  BY <1>1, <1>2, <1>5, ColoredFacts
<1>7. Labelled(pages, rows', current_file, current_line)
  <2>1. \A i \in 1 .. Len(pages) : pages[i] # NoFile
    BY <1>2, TabsAssumption DEF Laid
  <2>2. \A r \in Ranks : current_file[r] = NoFile => \A i \in 1 .. Len(pages) :
          rows'[2 * i].text[r] = Blank
    BY <1>4, <1>6, <2>1
  <2>3. ASSUME NEW i \in 1 .. Len(pages), NEW r \in Ranks
        PROVE  /\ rows'[2 * i].text[r] \in {Blank, current_line[r]}
               /\ pages[i] = current_file[r] => rows'[2 * i].text[r] = current_line[r]
               /\ current_file[r] \notin {pages[i], NoFile} => rows'[2 * i].text[r] = Blank
    BY <1>4, <1>6
  <2> QED BY <2>2, <2>3 DEF Labelled
<1>8. ColorsTell(rows')
  BY <1>6, <1>7, ColoredTells
<1>9. MapsFit(rows)'
  BY <1>1, <1>3, <1>6 DEF TabsInv, MapsFit
<1>10. StatesShown'
  <2>1. ASSUME NEW r \in Ranks, target_state[r] # "stopped" PROVE NoLabel(pages, rows', r)
    <3>1. current_file[r] = NoFile
      BY <2>1 DEF TabsInv, StatesShown
    <3>2. \A i \in 1 .. Len(pages) : pages[i] # NoFile
      BY <1>2, TabsAssumption DEF Laid
    <3> QED BY <3>1, <3>2, <1>4, <1>6 DEF NoLabel
  <2> QED BY <1>1, <2>1 DEF TabsInv, StatesShown
<1> QED BY <1>1, <1>7, <1>8, <1>9, <1>10 DEF TabsInv, UsedOpen

\* The other steps leave the notebook and the grid alone.
LEMMA QuietTabs ==
  ASSUME TabsInv, UNCHANGED <<positions, pages, rows, last_row, maps>>,
         Queued(idle'), marks' \subseteq views, StatesShown'
  PROVE  TabsInv'
BY DEF TabsInv, positions, maps, MapsFit, UsedOpen

\* What the user does leaves the queue and the states alone.
LEMMA UserTabs ==
  ASSUME TabsInv, UNCHANGED <<idle, target_state, positions, pages, rows, last_row, maps>>,
         marks' \subseteq views
  PROVE  TabsInv'
<1>1. Queued(idle') /\ StatesShown'
  BY DEF TabsInv, StatesShown, InChunk, positions
<1> QED BY <1>1, QuietTabs

LEMMA GdbSaysTabs ==
  ASSUME TabsInv, NEW r \in Ranks, GdbSays(r)
  PROVE  TabsInv'
<1>1. PICK batch \in Batches(r) : /\ batch.first \/ GoesOn(r)
                                 /\ idle' = Append(idle, batch)
  BY DEF GdbSays
<1>2. batch \in Messages /\ batch.rank = r
  <2>1. CASE \E p \in Places, b \in BOOLEAN :
               batch = [kind |-> "stopped", rank |-> r, file |-> p[1], line |-> p[2], first |-> b]
    <3>1. PICK p \in Places, b \in BOOLEAN :
            batch = [kind |-> "stopped", rank |-> r, file |-> p[1], line |-> p[2], first |-> b]
      BY <2>1
    <3>2. p[1] \in Files /\ p[2] \in Lines
      BY TabsAssumption
    <3> QED BY <3>1, <3>2 DEF Messages
  <2>2. CASE batch \in [kind : {"stopped", "exited", "running"}, rank : {r}, file : {NoFile},
                        line : {0}, first : BOOLEAN]
    BY <2>2 DEF Messages, Blank
  <2> QED BY <1>1, <2>1, <2>2 DEF Batches
<1>3. idle \in Seq(Messages) /\ Len(idle) \in Nat
  BY DEF TabsInv, Queued
<1>4. Queued(idle')
  BY <1>1, <1>2, AppendQueued DEF GoesOn, TabsInv
<1>5. InChunk' <=> InChunk
  <2>1. CASE idle = << >>
    <3>1. batch.first
      BY <1>1, <2>1 DEF GoesOn
    <3>2. Head(idle') = batch
      BY <1>1, <1>2, <1>3, <2>1
    <3> QED BY <2>1, <3>1, <3>2 DEF InChunk
  <2>2. CASE idle # << >>
    <3>1. idle' # << >> /\ Head(idle') = Head(idle)
      BY <1>1, <1>2, <1>3, <2>2
    <3> QED BY <2>2, <3>1 DEF InChunk
  <2> QED BY <2>1, <2>2
<1>6. InChunk => Head(idle') = Head(idle)
  BY <1>1, <1>2, <1>3 DEF InChunk
<1>7. StatesShown'
  BY <1>5, <1>6 DEF GdbSays, positions, TabsInv, StatesShown
<1> QED BY <1>4, <1>7, QuietTabs DEF GdbSays, TabsInv, UsedOpen

LEMMA HandleStopNowhereTabs ==
  ASSUME TabsInv, HandleStopNowhere
  PROVE  TabsInv'
<1> DEFINE r == Head(idle).rank
<1>1. Queued(idle') /\ Head(idle) \in Messages
  BY TailQueued DEF HandleStopNowhere, TabsInv
<1>2. r \in Ranks /\ target_state' = [target_state EXCEPT ![r] = "stopped"]
  BY <1>1 DEF HandleStopNowhere, Messages
<1>3. /\ target_state'[r] = "stopped"
      /\ \A q \in Ranks \ {r} : target_state'[q] = target_state[q]
      /\ target_state' \in [Ranks -> {"unknown", "running", "stopped", "exited"}]
  BY <1>2 DEF TabsInv, StatesShown
<1>4. StatesShown'
  BY <1>3 DEF HandleStopNowhere, positions, TabsInv, StatesShown
<1> QED BY <1>1, <1>4, QuietTabs DEF HandleStopNowhere, TabsInv, UsedOpen

LEMMA DoScrollTabs ==
  ASSUME TabsInv, DoScroll
  PROVE  TabsInv'
<1>1. Queued(idle') /\ Head(idle) \in Messages
  BY TailQueued DEF DoScroll, TabsInv
<1>2. ~InChunk
  BY <1>1 DEF DoScroll, InChunk, Messages
<1>3. StatesShown'
  BY <1>2 DEF DoScroll, positions, TabsInv, StatesShown
<1> QED BY <1>1, <1>3, QuietTabs DEF DoScroll, TabsInv, UsedOpen

-----------------------------------------------------------------------------
(* Closing the unused tabs *)

Untouched == [pages |-> pages, rows |-> rows, last_row |-> last_row]

\* What the k-th page looked at leaves of what was left.
LookedAt(left, k) ==
  LET n == FromLast(k)
      row == path_2_row[pagenum_2_path[n]] IN
  IF n \in Closing
  THEN [pages |-> Without(left.pages, n),
        rows |-> Without(Without(left.rows, row), row - 1),
        last_row |-> left.last_row - 2]
  ELSE left

\* f tells what is left after each of the first n pages.
Tells(f, n) ==
  f = [k \in 0 .. n |-> IF k = 0 THEN Untouched ELSE LookedAt(f[k - 1], k)]

\* The recursion of Closed defines a function.
LEMMA ClosedTells ==
  ASSUME Len(pages) \in Nat
  PROVE  Tells(Closed, Len(pages))
<1> DEFINE Not == {n \in Nat : ~\E f : Tells(f, n)}
<1>1. Not = {}
  <2> SUFFICES ASSUME Not # {} PROVE FALSE
    OBVIOUS
  <2>1. Not \subseteq Nat
    OBVIOUS
  <2>2. PICK n \in Not : \A m \in Not : n <= m
    <3> HIDE DEF Not
    <3> QED BY <2>1, LeastNumber
  <2>3. CASE n = 0
    <3> DEFINE f == [k \in 0 .. 0 |-> Untouched]
    <3>1. \A k \in 0 .. 0 : k = 0
      OBVIOUS
    <3>2. Tells(f, 0)
      BY <3>1 DEF Tells
    <3> QED BY <2>2, <2>3, <3>2
  <2>4. CASE n # 0
    <3>1. n \in Nat /\ n - 1 \in Nat /\ n - 1 < n
      BY <2>2, <2>4
    <3>2. PICK f : Tells(f, n - 1)
      BY <2>2, <3>1
    <3> DEFINE g == [k \in 0 .. n |-> IF k = n THEN LookedAt(f[n - 1], n) ELSE f[k]]
    <3>3. \A k \in 0 .. n : /\ k = n \/ k \in 0 .. n - 1
                            /\ k # 0 => k - 1 \in 0 .. n - 1 /\ k - 1 \in 0 .. n /\ k - 1 # n
      BY <3>1
    <3>4. \A k \in 0 .. n - 1 :
            f[k] = IF k = 0 THEN Untouched ELSE LookedAt(f[k - 1], k)
      BY <3>2 DEF Tells
    <3>5. \A k \in 0 .. n - 1 : g[k] = f[k]
      BY <3>1
    <3>6. ASSUME NEW k \in 0 .. n
          PROVE  g[k] = IF k = 0 THEN Untouched ELSE LookedAt(g[k - 1], k)
      <4>1. CASE k = n
        <5>1. g[k] = LookedAt(f[n - 1], n)
          BY <4>1
        <5>2. g[k - 1] = f[n - 1]
          BY <4>1, <3>1, <3>5
        <5> QED BY <4>1, <5>1, <5>2, <2>4
      <4>2. CASE k # n
        <5>1. k \in 0 .. n - 1 /\ g[k] = f[k]
          BY <4>2, <3>3, <3>5
        <5>2. k # 0 => g[k - 1] = f[k - 1]
          BY <3>3, <3>5
        <5> QED BY <5>1, <5>2, <3>4
      <4> QED BY <4>1, <4>2
    <3>7. DOMAIN g = 0 .. n /\ g = [k \in DOMAIN g |-> g[k]]
      OBVIOUS
    <3> HIDE DEF g
    <3>8. g = [k \in 0 .. n |-> IF k = 0 THEN Untouched ELSE LookedAt(g[k - 1], k)]
      BY <3>6, <3>7
    <3>9. Tells(g, n)
      BY <3>8 DEF Tells
    <3> QED BY <2>2, <3>9
  <2> QED BY <2>3, <2>4
<1>2. \E f : Tells(f, Len(pages))
  BY <1>1
<1>3. Closed = CHOOSE f : Tells(f, Len(pages))
  BY DEF Closed, Tells, LookedAt, Untouched
<1> QED BY <1>2, <1>3

\* A page goes with its row and the separator above it.
LEMMA DropPage ==
  ASSUME NEW pgs, NEW grid, Laid(pgs, grid), NEW N \in 1 .. Len(pgs)
  PROVE  LET fewer == Without(pgs, N - 1)
             less == Without(Without(grid, 2 * N - 1), 2 * N - 2) IN
         /\ Laid(fewer, less)
         /\ Len(fewer) = Len(pgs) - 1 /\ Len(less) = Len(grid) - 2
         /\ \A j \in 1 .. Len(fewer) :
              LET i == IF j < N THEN j ELSE j + 1 IN
              i \in 1 .. Len(pgs) /\ fewer[j] = pgs[i] /\ less[2 * j] = grid[2 * i]
<1> DEFINE fewer == Without(pgs, N - 1)
           once == Without(grid, 2 * N - 1)
           less == Without(once, 2 * N - 2)
<1>1. /\ pgs \in Seq(Files) /\ grid \in Seq(GridRows) /\ Len(pgs) \in Nat \ {0}
      /\ Len(grid) = 2 * Len(pgs) /\ N \in Nat /\ N <= Len(pgs) /\ 1 <= N
  BY DEF Laid
<1>2. fewer = RemoveAt(pgs, N)
  BY <1>1 DEF Without
<1>3. /\ fewer \in Seq(Files) /\ Len(fewer) = Len(pgs) - 1
      /\ \A j \in 1 .. Len(pgs) - 1 : fewer[j] = IF j < N THEN pgs[j] ELSE pgs[j + 1]
  BY <1>1, <1>2, RemoveAtFacts
<1>4. 2 * N \in 1 .. Len(grid) /\ (2 * N - 1) + 1 = 2 * N
  BY <1>1
<1>5. once = RemoveAt(grid, 2 * N)
  BY <1>1, <1>4 DEF Without
<1>6. /\ once \in Seq(GridRows) /\ Len(once) = Len(grid) - 1
      /\ \A j \in 1 .. Len(grid) - 1 : once[j] = IF j < 2 * N THEN grid[j] ELSE grid[j + 1]
  BY <1>1, <1>4, <1>5, RemoveAtFacts
<1>7. 2 * N - 1 \in 1 .. Len(once) /\ (2 * N - 2) + 1 = 2 * N - 1
  BY <1>1, <1>6
<1> HIDE DEF once
<1>8. less = RemoveAt(once, 2 * N - 1)
  BY <1>6, <1>7 DEF Without
<1>9. /\ less \in Seq(GridRows) /\ Len(less) = Len(once) - 1
      /\ \A j \in 1 .. Len(once) - 1 :
           less[j] = IF j < 2 * N - 1 THEN once[j] ELSE once[j + 1]
  BY <1>6, <1>7, <1>8, RemoveAtFacts
<1> HIDE DEF fewer, less
<1>10. ASSUME NEW j \in 1 .. Len(grid) - 2
       PROVE  less[j] = IF j < 2 * N - 1 THEN grid[j] ELSE grid[j + 2]
  <2>1. CASE j < 2 * N - 1
    <3>1. less[j] = once[j]
      BY <2>1, <1>1, <1>6, <1>9
    <3>2. j \in 1 .. Len(grid) - 1 /\ j < 2 * N
      BY <2>1, <1>1
    <3>3. once[j] = grid[j]
      BY <3>2, <1>6
    <3> QED BY <2>1, <3>1, <3>3
  <2>2. CASE ~(j < 2 * N - 1)
    <3>1. less[j] = once[j + 1]
      BY <2>2, <1>1, <1>6, <1>9
    <3>2. j + 1 \in 1 .. Len(grid) - 1 /\ ~(j + 1 < 2 * N) /\ (j + 1) + 1 = j + 2
      BY <2>2, <1>1
    <3>3. once[j + 1] = grid[(j + 1) + 1]
      BY <3>2, <1>6
    <3> QED BY <2>2, <3>1, <3>2, <3>3
  <2> QED BY <2>1, <2>2
<1>11. ASSUME NEW j \in 1 .. Len(fewer)
       PROVE  LET i == IF j < N THEN j ELSE j + 1 IN
              /\ i \in 1 .. Len(pgs) /\ fewer[j] = pgs[i]
              /\ less[2 * j] = grid[2 * i] /\ less[2 * j - 1] = grid[2 * i - 1]
  <2>1. 2 * j \in 1 .. Len(grid) - 2 /\ 2 * j - 1 \in 1 .. Len(grid) - 2
    BY <1>1, <1>3
  <2>2. CASE j < N
    BY <2>1, <2>2, <1>1, <1>3, <1>10
  <2>3. CASE ~(j < N)
    <3>1. 2 * j + 2 = 2 * (j + 1) /\ (2 * j - 1) + 2 = 2 * (j + 1) - 1
      BY <1>1
    <3>2. ~(2 * j < 2 * N - 1) /\ ~(2 * j - 1 < 2 * N - 1)
      BY <2>3, <1>1
    <3>3. less[2 * j] = grid[2 * j + 2] /\ less[2 * j - 1] = grid[(2 * j - 1) + 2]
      BY <2>1, <3>2, <1>10
    <3>4. fewer[j] = pgs[j + 1] /\ j + 1 \in 1 .. Len(pgs)
      BY <2>3, <1>1, <1>3
    <3> QED BY <2>3, <3>1, <3>3, <3>4
  <2> QED BY <2>2, <2>3
<1>12. Len(less) = 2 * Len(fewer) /\ Len(less) = Len(grid) - 2
  BY <1>1, <1>3, <1>6, <1>9
<1>13. \A i, j \in 1 .. Len(fewer) : fewer[i] = fewer[j] => i = j
  <2> SUFFICES ASSUME NEW i \in 1 .. Len(fewer), NEW j \in 1 .. Len(fewer),
                      fewer[i] = fewer[j]
               PROVE  i = j
    OBVIOUS
  <2> DEFINE a == IF i < N THEN i ELSE i + 1
             b == IF j < N THEN j ELSE j + 1
  <2>1. a \in 1 .. Len(pgs) /\ b \in 1 .. Len(pgs) /\ pgs[a] = pgs[b]
    BY <1>11
  <2>2. a = b
    BY <2>1 DEF Laid
  <2> QED BY <2>2, <1>1, <1>3
<1>14. ASSUME NEW j \in 1 .. Len(fewer)
       PROVE  /\ less[2 * j].path = fewer[j]
              /\ less[2 * j - 1].path = NoFile
              /\ \A r \in Ranks : less[2 * j - 1].text[r] = Blank
  <2> DEFINE i == IF j < N THEN j ELSE j + 1
  <2>1. /\ i \in 1 .. Len(pgs) /\ fewer[j] = pgs[i]
        /\ less[2 * j] = grid[2 * i] /\ less[2 * j - 1] = grid[2 * i - 1]
    BY <1>11
  <2> HIDE DEF i
  <2> QED BY <2>1 DEF Laid
<1>15. Laid(fewer, less)
  BY <1>3, <1>9, <1>12, <1>13, <1>14 DEF Laid
<1> QED BY <1>3, <1>11, <1>12, <1>15 DEF fewer, less, once

\* After k pages: the others are untouched, each page left has the row it had, and
\* no page that is to stay is gone.
Kept(left, k) ==
  /\ Laid(left.pages, left.rows)
  /\ left.last_row = Len(left.rows)
  /\ Len(pages) - k <= Len(left.pages)
  /\ \A i \in 1 .. Len(pages) - k : left.pages[i] = pages[i]
  /\ \A j \in 1 .. Len(left.pages) : \E i \in 1 .. Len(pages) :
       left.pages[j] = pages[i] /\ left.rows[2 * j] = rows[2 * i]
  /\ \A i \in 1 .. Len(pages) : i - 1 \notin Closing =>
       \E j \in 1 .. Len(left.pages) : left.pages[j] = pages[i]

LEMMA KeptStep ==
  ASSUME MapsFit(rows), NEW k \in 1 .. Len(pages), NEW left, Kept(left, k - 1)
  PROVE  Kept(LookedAt(left, k), k)
<1> DEFINE n == FromLast(k)
           N == n + 1
           row == path_2_row[pagenum_2_path[n]]
           new == LookedAt(left, k)
<1>1. /\ Len(pages) \in Nat /\ n \in Nat /\ N = Len(pages) - (k - 1)
      /\ N \in 1 .. Len(pages) /\ n = N - 1 /\ Len(pages) - k = n /\ N \in Nat
  BY DEF MapsFit, Laid, FromLast
<1> HIDE DEF N
<1>2. row = 2 * N - 1
  <2>1. pagenum_2_path[N - 1] = pages[N]
    BY <1>1 DEF MapsFit
  <2>2. path_2_row[pages[N]] = 2 * N - 1
    BY <1>1 DEF MapsFit, RowsMapped
  <2> QED BY <1>1, <2>1, <2>2
<1>3. /\ Laid(left.pages, left.rows) /\ left.last_row = Len(left.rows)
      /\ N <= Len(left.pages)
      /\ \A i \in 1 .. N : left.pages[i] = pages[i]
      /\ \A j \in 1 .. Len(left.pages) : \E i \in 1 .. Len(pages) :
           left.pages[j] = pages[i] /\ left.rows[2 * j] = rows[2 * i]
      /\ \A i \in 1 .. Len(pages) : i - 1 \notin Closing =>
           \E j \in 1 .. Len(left.pages) : left.pages[j] = pages[i]
      /\ Len(left.pages) \in Nat
  <2>1. /\ Laid(left.pages, left.rows) /\ left.last_row = Len(left.rows)
        /\ Len(pages) - (k - 1) <= Len(left.pages)
        /\ \A i \in 1 .. Len(pages) - (k - 1) : left.pages[i] = pages[i]
        /\ \A j \in 1 .. Len(left.pages) : \E i \in 1 .. Len(pages) :
             left.pages[j] = pages[i] /\ left.rows[2 * j] = rows[2 * i]
        /\ \A i \in 1 .. Len(pages) : i - 1 \notin Closing =>
             \E j \in 1 .. Len(left.pages) : left.pages[j] = pages[i]
    BY DEF Kept
  <2>2. Len(left.pages) \in Nat
    BY <2>1 DEF Laid
  <2>3. N = Len(pages) - (k - 1)
    BY <1>1
  <2> QED BY <2>1, <2>2, <2>3
<1>4. CASE n \notin Closing
  <2>1. new = left
    BY <1>4 DEF LookedAt
  <2>2. n <= Len(left.pages) /\ \A i \in 1 .. n : left.pages[i] = pages[i]
    <3>1. n <= Len(left.pages) /\ \A i \in 1 .. n : i \in 1 .. N
      BY <1>1, <1>3
    <3> QED BY <3>1, <1>3
  <2> QED BY <1>1, <1>3, <2>1, <2>2 DEF Kept
<1>5. CASE n \in Closing
  <2> DEFINE fewer == Without(left.pages, N - 1)
             less == Without(Without(left.rows, 2 * N - 1), 2 * N - 2)
  <2>1. /\ new.pages = fewer /\ new.rows = less /\ new.last_row = left.last_row - 2
    <3>1. row - 1 = 2 * N - 2
      BY <1>1, <1>2
    <3>2. new = [pages |-> Without(left.pages, n),
                 rows |-> Without(Without(left.rows, row), row - 1),
                 last_row |-> left.last_row - 2]
      BY <1>5 DEF LookedAt
    <3> HIDE DEF new, row
    <3>3. /\ new.pages = Without(left.pages, n) /\ new.last_row = left.last_row - 2
          /\ new.rows = Without(Without(left.rows, row), row - 1)
      BY <3>2
    <3> QED BY <1>1, <1>2, <3>1, <3>3
  <2>2. N \in 1 .. Len(left.pages)
    BY <1>1, <1>3
  <2>3. /\ Laid(fewer, less)
        /\ Len(fewer) = Len(left.pages) - 1 /\ Len(less) = Len(left.rows) - 2
        /\ \A j \in 1 .. Len(fewer) :
             LET i == IF j < N THEN j ELSE j + 1 IN
             /\ i \in 1 .. Len(left.pages) /\ fewer[j] = left.pages[i]
             /\ less[2 * j] = left.rows[2 * i]
    <3> DEFINE pgs == left.pages
               grid == left.rows
    <3>1. Laid(pgs, grid) /\ N \in 1 .. Len(pgs)
      BY <1>3, <2>2
    <3> HIDE DEF pgs, grid
    <3>2. LET thinner == Without(pgs, N - 1)
              shorter == Without(Without(grid, 2 * N - 1), 2 * N - 2) IN
          /\ Laid(thinner, shorter)
          /\ Len(thinner) = Len(pgs) - 1 /\ Len(shorter) = Len(grid) - 2
          /\ \A j \in 1 .. Len(thinner) :
               LET i == IF j < N THEN j ELSE j + 1 IN
               i \in 1 .. Len(pgs) /\ thinner[j] = pgs[i] /\ shorter[2 * j] = grid[2 * i]
      BY <3>1, DropPage
    <3> QED BY <3>2 DEF pgs, grid
  <2> HIDE DEF fewer, less, new
  <2>4. n <= Len(fewer) /\ \A i \in 1 .. n : fewer[i] = pages[i]
    <3>1. n <= Len(fewer)
      BY <1>1, <1>3, <2>3
    <3>2. ASSUME NEW i \in 1 .. n PROVE fewer[i] = pages[i]
      <4>1. i < N /\ i \in 1 .. N /\ i \in 1 .. Len(fewer)
        BY <1>1, <1>3, <3>1, <2>3
      <4>2. fewer[i] = left.pages[i]
        BY <4>1, <2>3
      <4> QED BY <4>1, <4>2, <1>3
    <3> QED BY <3>1, <3>2
  <2>5. \A j \in 1 .. Len(fewer) : \E i \in 1 .. Len(pages) :
          fewer[j] = pages[i] /\ less[2 * j] = rows[2 * i]
    <3> SUFFICES ASSUME NEW j \in 1 .. Len(fewer)
                 PROVE  \E i \in 1 .. Len(pages) :
                          fewer[j] = pages[i] /\ less[2 * j] = rows[2 * i]
      OBVIOUS
    <3> DEFINE a == IF j < N THEN j ELSE j + 1
    <3>1. /\ a \in 1 .. Len(left.pages) /\ fewer[j] = left.pages[a]
          /\ less[2 * j] = left.rows[2 * a]
      BY <2>3
    <3> HIDE DEF a
    <3> QED BY <3>1, <1>3
  <2>6. \A i \in 1 .. Len(pages) : i - 1 \notin Closing =>
          \E j \in 1 .. Len(fewer) : fewer[j] = pages[i]
    <3> SUFFICES ASSUME NEW i \in 1 .. Len(pages), i - 1 \notin Closing
                 PROVE  \E j \in 1 .. Len(fewer) : fewer[j] = pages[i]
      OBVIOUS
    <3>1. PICK a \in 1 .. Len(left.pages) : left.pages[a] = pages[i]
      BY <1>3
    <3>2. i # N
      BY <1>1, <1>5
    <3>3. a # N
      <4>1. pages[i] # pages[N]
        BY <3>2, <1>1 DEF MapsFit, Laid
      <4>2. left.pages[N] = pages[N]
        BY <1>1, <1>3
      <4> QED BY <4>1, <4>2, <3>1
    <3>4. CASE a < N
      <4>1. a \in 1 .. Len(fewer)
        BY <3>4, <1>1, <1>3, <2>3
      <4>2. fewer[a] = left.pages[a]
        BY <4>1, <3>4, <2>3
      <4> QED BY <4>1, <4>2, <3>1
    <3>5. CASE a > N
      <4>1. a - 1 \in 1 .. Len(fewer) /\ ~(a - 1 < N) /\ (a - 1) + 1 = a
        BY <3>5, <1>1, <1>3, <2>3
      <4>2. fewer[a - 1] = left.pages[a]
        BY <4>1, <2>3
      <4> QED BY <4>1, <4>2, <3>1
    <3> QED BY <3>3, <3>4, <3>5, <1>1
  <2>7. left.last_row - 2 = Len(less)
    BY <1>3, <2>3
  <2> QED BY <1>1, <2>1, <2>3, <2>4, <2>5, <2>6, <2>7 DEF Kept, new
<1> QED BY <1>4, <1>5

\* All the pages are looked at in turn.
LEMMA ClosedKept ==
  ASSUME MapsFit(rows)
  PROVE  Kept(Closed[Len(pages)], Len(pages))
<1>1. Len(pages) \in Nat
  BY DEF MapsFit, Laid
<1>2. Tells(Closed, Len(pages))
  BY <1>1, ClosedTells
<1>3. \A k \in 0 .. Len(pages) :
        Closed[k] = IF k = 0 THEN Untouched ELSE LookedAt(Closed[k - 1], k)
  BY <1>2 DEF Tells
<1> DEFINE Not == {k \in 0 .. Len(pages) : ~Kept(Closed[k], k)}
<1>4. Not = {}
  <2> SUFFICES ASSUME Not # {} PROVE FALSE
    OBVIOUS
  <2>1. Not \subseteq Nat
    BY <1>1
  <2>2. PICK k \in Not : \A m \in Not : k <= m
    <3> HIDE DEF Not
    <3> QED BY <2>1, LeastNumber
  <2>3. CASE k = 0
    <3>1. Closed[0] = Untouched
      BY <1>1, <1>3
    <3>2. /\ Untouched.pages = pages /\ Untouched.rows = rows
          /\ Untouched.last_row = last_row
      BY DEF Untouched
    <3>3. Kept(Untouched, 0)
      <4>1. Len(pages) - 0 = Len(pages)
        BY <1>1
      <4> QED BY <1>1, <3>2, <4>1 DEF Kept, MapsFit
    <3> QED BY <2>2, <2>3, <3>1, <3>3
  <2>4. CASE k # 0
    <3>1. k \in 1 .. Len(pages) /\ k - 1 \in 0 .. Len(pages) /\ k - 1 < k
      BY <2>2, <2>4, <1>1
    <3>2. Kept(Closed[k - 1], k - 1)
      BY <2>2, <3>1
    <3>3. Closed[k] = LookedAt(Closed[k - 1], k)
      BY <1>3, <2>2, <2>4
    <3>4. Kept(Closed[k], k)
      BY <3>1, <3>2, <3>3, KeptStep
    <3> QED BY <2>2, <3>4
  <2> QED BY <2>3, <2>4
<1> QED BY <1>1, <1>4

LEMMA CloseUnusedTabsTabs ==
  ASSUME TabsInv, CloseUnusedTabs
  PROVE  TabsInv'
<1> DEFINE left == Closed[Len(pages)]
<1>1. /\ pages' = left.pages /\ rows' = left.rows /\ last_row' = left.last_row
      /\ views' = Range(pages')
      /\ pagenum_2_path' = [n \in 0 .. Len(pages') - 1 |-> pages'[n + 1]]
      /\ path_2_pagenum' = [f \in views' |->
                              CHOOSE n \in 0 .. Len(pages') - 1 : pages'[n + 1] = f]
      /\ path_2_row' = [f \in views' |-> 2 * path_2_pagenum'[f] + 1]
      /\ idle' = idle /\ marks' = marks /\ target_state' = target_state
      /\ current_file' = current_file /\ current_line' = current_line
  BY DEF CloseUnusedTabs, positions
<1>2. Kept(left, Len(pages)) /\ Len(pages) \in Nat
  BY ClosedKept DEF TabsInv, MapsFit, Laid
<1> HIDE DEF left
<1>3. /\ Laid(pages', rows') /\ last_row' = Len(rows')
      /\ \A j \in 1 .. Len(pages') : \E i \in 1 .. Len(pages) :
           pages'[j] = pages[i] /\ rows'[2 * j] = rows[2 * i]
      /\ \A i \in 1 .. Len(pages) : i - 1 \notin Closing =>
           \E j \in 1 .. Len(pages') : pages'[j] = pages[i]
  BY <1>1, <1>2 DEF Kept
<1>4. /\ pages' \in Seq(Files) /\ Len(pages') \in Nat /\ Len(rows') = 2 * Len(pages')
      /\ DOMAIN pages' = 1 .. Len(pages')
      /\ \A i, j \in 1 .. Len(pages') : pages'[i] = pages'[j] => i = j
  BY <1>3 DEF Laid
<1>5. views' = {pages'[i] : i \in 1 .. Len(pages')}
  BY <1>1, <1>4 DEF Range
<1>6. \A i \in 1 .. Len(pages') : path_2_pagenum'[pages'[i]] = i - 1
  <2> SUFFICES ASSUME NEW i \in 1 .. Len(pages') PROVE path_2_pagenum'[pages'[i]] = i - 1
    OBVIOUS
  <2> DEFINE n == CHOOSE n \in 0 .. Len(pages') - 1 : pages'[n + 1] = pages'[i]
  <2>1. path_2_pagenum'[pages'[i]] = n
    BY <1>1, <1>5
  <2>2. i - 1 \in 0 .. Len(pages') - 1 /\ (i - 1) + 1 = i
    BY <1>4
  <2>3. n \in 0 .. Len(pages') - 1 /\ pages'[n + 1] = pages'[i]
    BY <2>2
  <2> HIDE DEF n
  <2>4. n + 1 \in 1 .. Len(pages')
    BY <2>3, <1>4
  <2>5. n + 1 = i
    BY <2>3, <2>4, <1>4
  <2> QED BY <2>1, <2>3, <2>5
<1>7. \A i \in 1 .. Len(pages') : path_2_row'[pages'[i]] = 2 * i - 1
  <2> SUFFICES ASSUME NEW i \in 1 .. Len(pages') PROVE path_2_row'[pages'[i]] = 2 * i - 1
    OBVIOUS
  <2>1. path_2_row'[pages'[i]] = 2 * path_2_pagenum'[pages'[i]] + 1
    BY <1>1, <1>5
  <2> QED BY <2>1, <1>4, <1>6
<1>8. \A i \in 1 .. Len(pages') : pagenum_2_path'[i - 1] = pages'[i]
  <2> SUFFICES ASSUME NEW i \in 1 .. Len(pages') PROVE pagenum_2_path'[i - 1] = pages'[i]
    OBVIOUS
  <2>1. i - 1 \in 0 .. Len(pages') - 1 /\ (i - 1) + 1 = i
    BY <1>4
  <2> QED BY <2>1, <1>1
<1>9. /\ DOMAIN pagenum_2_path' = 0 .. Len(pages') - 1
      /\ DOMAIN path_2_pagenum' = views' /\ DOMAIN path_2_row' = views'
  BY <1>1
<1>10. RowsMapped(path_2_row', pages')
  BY <1>5, <1>7, <1>9 DEF RowsMapped
<1>11. MapsFit(rows)'
  BY <1>3, <1>5, <1>6, <1>8, <1>9, <1>10 DEF MapsFit
<1>12. ASSUME NEW f \in views, IsUsed(f) PROVE f \in views'
  <2>1. PICK i \in 1 .. Len(pages) : f = pages[i]
    BY <1>12 DEF TabsInv, MapsFit
  <2>2. pagenum_2_path[i - 1] = f
    BY <2>1 DEF TabsInv, MapsFit
  <2>3. i - 1 \notin Closing
    BY <1>12, <2>2 DEF Closing
  <2> QED BY <2>1, <2>3, <1>3, <1>5
<1>13. UsedOpen'
  <2>1. ASSUME NEW r \in Ranks, current_file[r] # NoFile PROVE current_file[r] \in views'
    BY <2>1, <1>12 DEF TabsInv, UsedOpen, IsUsed
  <2>2. ASSUME NEW f \in marks PROVE f \in views'
    BY <2>2, <1>12 DEF TabsInv, UsedOpen, IsUsed
  <2> QED BY <1>1, <2>1, <2>2 DEF UsedOpen
<1>14. Labelled(pages, rows, current_file, current_line)'
  <2>1. ASSUME NEW j \in 1 .. Len(pages'), NEW r \in Ranks
        PROVE  /\ rows'[2 * j].text[r] \in {Blank, current_line[r]}
               /\ pages'[j] = current_file[r] => rows'[2 * j].text[r] = current_line[r]
               /\ current_file[r] \notin {pages'[j], NoFile} => rows'[2 * j].text[r] = Blank
    <3>1. PICK i \in 1 .. Len(pages) : pages'[j] = pages[i] /\ rows'[2 * j] = rows[2 * i]
      BY <1>3
    <3> QED BY <3>1 DEF TabsInv, Labelled
  <2>2. ASSUME NEW j \in 1 .. Len(pages'), NEW k \in 1 .. Len(pages'), NEW r \in Ranks,
               current_file[r] = NoFile, rows'[2 * j].text[r] # Blank, rows'[2 * k].text[r] # Blank
        PROVE  j = k
    <3>1. PICK i \in 1 .. Len(pages) : pages'[j] = pages[i] /\ rows'[2 * j] = rows[2 * i]
      BY <1>3
    <3>2. PICK h \in 1 .. Len(pages) : pages'[k] = pages[h] /\ rows'[2 * k] = rows[2 * h]
      BY <1>3
    <3>3. i = h
      BY <2>2, <3>1, <3>2 DEF TabsInv, Labelled
    <3> QED BY <3>1, <3>2, <3>3, <1>4
  <2> QED BY <1>1, <2>1, <2>2 DEF Labelled
<1>15. ColorsTell(rows')
  <2> SUFFICES ASSUME NEW k \in 1 .. Len(rows'), NEW q \in Ranks, NEW s \in Ranks,
                      rows'[k].text[q] # Blank, rows'[k].color[q] # NoColor,
                      rows'[k].text[s] # Blank, rows'[k].color[s] # NoColor
               PROVE  (rows'[k].text[q] = rows'[k].text[s])
                      <=> (rows'[k].color[q] = rows'[k].color[s])
    BY DEF ColorsTell
  <2>1. PICK j \in 1 .. Len(pages') : k = 2 * j \/ k = 2 * j - 1
    BY <1>4, RowKinds
  <2>2. k = 2 * j
    <3>1. rows'[2 * j - 1].text[q] = Blank
      BY <1>3 DEF Laid
    <3> QED BY <2>1, <3>1
  <2>3. PICK i \in 1 .. Len(pages) : rows'[2 * j] = rows[2 * i]
    BY <1>3
  <2>4. 2 * i \in 1 .. Len(rows)
    BY <1>2 DEF TabsInv, MapsFit, Laid
  <2>5. rows'[k] = rows[2 * i]
    BY <2>2, <2>3
  <2> QED BY <2>4, <2>5 DEF TabsInv, ColorsTell
<1>16. StatesShown'
  <2>1. ASSUME NEW r \in Ranks, NoLabel(pages, rows, r) PROVE NoLabel(pages', rows', r)
    BY <2>1, <1>3 DEF NoLabel
  <2> QED BY <1>1, <2>1 DEF TabsInv, StatesShown, InChunk
<1> QED BY <1>1, <1>11, <1>13, <1>14, <1>15, <1>16 DEF TabsInv

-----------------------------------------------------------------------------
(* The theorems *)

LEMMA TabsInvariant == Spec => []TabsInv
<1>1. Init => TabsInv
  <2> SUFFICES ASSUME Init PROVE TabsInv
    OBVIOUS
  <2>1. Queued(idle) /\ Positioned(current_file, current_line)
    BY DEF Init, Queued, Positioned, Blank
  <2>2. pages = << >> /\ rows = << >> /\ Len(pages) = 0 /\ Len(rows) = 0
    BY DEF Init
  <2>3. Laid(pages, rows)
    BY <2>2 DEF Laid
  <2>4. MapsFit(rows) /\ UsedOpen
    BY <2>2, <2>3 DEF Init, MapsFit, RowsMapped, UsedOpen
  <2>5. StatesShown
    BY <2>2 DEF Init, StatesShown, NoLabel
  <2> QED BY <2>1, <2>2, <2>4, <2>5 DEF TabsInv, Labelled, ColorsTell
<1>2. TabsInv /\ [Next]_vars => TabsInv'
  <2> SUFFICES ASSUME TabsInv, [Next]_vars PROVE TabsInv'
    OBVIOUS
  <2>1. CASE HandleRunning
    BY <2>1, HandleRunningTabs
  <2>2. CASE HandleExited
    BY <2>2, HandleExitedTabs
  <2>3. CASE HandleStop
    BY <2>3, HandleStopTabs
  <2>4. marks \subseteq views
    BY DEF TabsInv, UsedOpen
  <2>5. CASE HandleStopNowhere
    BY <2>5, HandleStopNowhereTabs
  <2>6. CASE DoScroll
    BY <2>6, DoScrollTabs
  <2>7. CASE CloseUnusedTabs
    BY <2>7, CloseUnusedTabsTabs
  <2>8. ASSUME NEW r \in Ranks, GdbSays(r) PROVE TabsInv'
    BY <2>8, GdbSaysTabs
  <2>9. ASSUME NEW f \in Files, OpenFile(f) PROVE TabsInv'
    BY <2>9, OpenFileTabs
  <2>10. ASSUME NEW f \in Files, OpenMissing(f) PROVE TabsInv'
    BY <2>10, OpenMissingTabs
  <2>11. ASSUME NEW f \in Files, SetMark(f) PROVE TabsInv'
    BY <2>11, <2>4, UserTabs DEF SetMark
  <2>12. ASSUME NEW f \in Files, ClearMark(f) PROVE TabsInv'
    BY <2>12, <2>4, UserTabs DEF ClearMark
  <2>13. ASSUME NEW S \in FollowChoices, Follow(S) PROVE TabsInv'
    BY <2>13, <2>4, UserTabs DEF Follow
  <2>14. CASE UNCHANGED vars
    BY <2>14, <2>4, UserTabs DEF vars, positions, maps
  <2> QED BY <2>1, <2>2, <2>3, <2>5, <2>6, <2>7, <2>8, <2>9, <2>10, <2>11, <2>12, <2>13,
             <2>14 DEF Next, UserActs
<1> QED BY <1>1, <1>2, PTL DEF Spec

\* Whatever is opened and closed, in any number and order, the maps, the notebook and
\* the grid agree: no page and no row is taken for another file's.
THEOREM MapsTrue == Spec => []MapsAgree
<1>1. TabsInv => MapsAgree
  <2> SUFFICES ASSUME TabsInv PROVE MapsAgree
    OBVIOUS
  <2>1. /\ MapsFit(rows) /\ Laid(pages, rows) /\ DOMAIN pages = 1 .. Len(pages)
        /\ Len(pages) \in Nat
    BY DEF TabsInv, MapsFit, Laid
  <2>2. views = Range(pages) /\ IsInjective(pages)
    BY <2>1 DEF MapsFit, Laid, Range, IsInjective
  <2>3. DOMAIN path_2_row = views
    BY <2>1 DEF MapsFit, RowsMapped
  <2>4. ASSUME NEW f \in views
        PROVE  /\ pages[path_2_pagenum[f] + 1] = f
               /\ pagenum_2_path[path_2_pagenum[f]] = f
               /\ rows[path_2_row[f] + 1].path = f
    <3>1. PICK i \in 1 .. Len(pages) : f = pages[i]
      BY <2>1 DEF MapsFit
    <3>2. /\ path_2_pagenum[f] = i - 1 /\ pagenum_2_path[i - 1] = f
          /\ path_2_row[f] = 2 * i - 1 /\ rows[2 * i].path = f
      BY <2>1, <3>1 DEF MapsFit, RowsMapped, Laid
    <3>3. (i - 1) + 1 = i /\ (2 * i - 1) + 1 = 2 * i
      BY <2>1
    <3> QED BY <3>1, <3>2, <3>3
  <2> QED BY <2>1, <2>2, <2>3, <2>4 DEF MapsAgree, MapsFit
<1> QED BY <1>1, TabsInvariant, PTL

\* No file in which a process stands or which has a breakpoint is ever closed.
THEOREM UsedStaysOpen == Spec => []UsedIsOpen
<1>1. TabsInv => UsedIsOpen
  BY TabsAssumption DEF TabsInv, UsedOpen, UsedIsOpen, IsUsedByProcess
<1> QED BY <1>1, TabsInvariant, PTL

\* However GDB's batches fall into chunks, the overview shows a process once at most, at
\* its last line, in the row of its file if that is known, and no more once it runs.
THEOREM LabelsShow == Spec => []LabelsTrue
<1>1. TabsInv => LabelsTrue
  <2> SUFFICES ASSUME TabsInv, NEW r \in Ranks
               PROVE  LET shown == {i \in 1 .. Len(rows) : Shows(i, r)} IN
                      /\ \A i, j \in shown : i = j
                      /\ \A i \in shown : /\ rows[i].text[r] = current_line[r]
                                           /\ rows[i].path # NoFile
                                           /\ current_file[r] \in {rows[i].path, NoFile}
                      /\ current_file[r] # NoFile => shown # {}
                      /\ target_state[r] # "stopped" /\ ~(InChunk /\ Head(idle).rank = r)
                         => shown = {}
    BY DEF LabelsTrue
  <2> DEFINE shown == {i \in 1 .. Len(rows) : Shows(i, r)}
  <2>1. /\ Laid(pages, rows) /\ Len(pages) \in Nat /\ Len(rows) = 2 * Len(pages)
        /\ \A i \in 1 .. Len(pages) : pages[i] # NoFile /\ rows[2 * i].path = pages[i]
    BY TabsAssumption DEF TabsInv, MapsFit, Laid
  <2>2. ASSUME NEW k \in shown
        PROVE  \E i \in 1 .. Len(pages) : k = 2 * i /\ rows[2 * i].text[r] # Blank
    <3>1. PICK i \in 1 .. Len(pages) : k = 2 * i \/ k = 2 * i - 1
      BY <2>1, RowKinds, ZenonT(30)
    <3>2. rows[k].text[r] # Blank
      BY DEF Shows
    <3>3. rows[2 * i - 1].text[r] = Blank
      BY <2>1 DEF Laid
    <3> QED BY <3>1, <3>2, <3>3
  <2>3. ASSUME NEW k \in shown
        PROVE  /\ rows[k].text[r] = current_line[r] /\ rows[k].path # NoFile
               /\ current_file[r] \in {rows[k].path, NoFile}
    <3>1. PICK i \in 1 .. Len(pages) : k = 2 * i /\ rows[2 * i].text[r] # Blank
      BY <2>2
    <3> QED BY <2>1, <3>1 DEF TabsInv, Labelled
  <2>4. ASSUME NEW k \in shown, NEW m \in shown PROVE k = m
    <3>1. PICK i \in 1 .. Len(pages) : k = 2 * i /\ rows[2 * i].text[r] # Blank
      BY <2>2
    <3>2. PICK j \in 1 .. Len(pages) : m = 2 * j /\ rows[2 * j].text[r] # Blank
      BY <2>2
    <3>3. CASE current_file[r] = NoFile
      BY <3>1, <3>2, <3>3 DEF TabsInv, Labelled
    <3>4. CASE current_file[r] # NoFile
      <4>1. pages[i] = current_file[r] /\ pages[j] = current_file[r]
        BY <3>1, <3>2, <3>4 DEF TabsInv, Labelled
      <4> QED BY <3>1, <3>2, <4>1, <2>1 DEF Laid
    <3> QED BY <3>3, <3>4
  <2>5. current_file[r] # NoFile => shown # {}
    <3> SUFFICES ASSUME current_file[r] # NoFile PROVE shown # {}
      OBVIOUS
    <3>1. PICK i \in 1 .. Len(pages) : pages[i] = current_file[r]
      BY DEF TabsInv, UsedOpen, MapsFit
    <3>2. current_line[r] # Blank
      BY TabsAssumption DEF TabsInv, Positioned, Blank
    <3>3. rows[2 * i].text[r] # Blank
      BY <3>1, <3>2 DEF TabsInv, Labelled
    <3>4. 2 * i \in 1 .. Len(rows)
      BY <2>1
    <3>5. 2 * i \in shown
      BY <3>3, <3>4 DEF Shows
    <3> QED BY <3>5
  <2>6. target_state[r] # "stopped" /\ ~(InChunk /\ Head(idle).rank = r) => shown = {}
    <3> SUFFICES ASSUME target_state[r] # "stopped", ~(InChunk /\ Head(idle).rank = r),
                        NEW k \in shown
                 PROVE  FALSE
      OBVIOUS
    <3>1. NoLabel(pages, rows, r)
      BY DEF TabsInv, StatesShown
    <3> QED BY <2>2, <3>1 DEF NoLabel
  <2> HIDE DEF shown
  <2> QED BY <2>3, <2>4, <2>5, <2>6 DEF shown
<1> QED BY <1>1, TabsInvariant, PTL

\* Where two processes are shown with a color, equal colors mean the same line.
THEOREM ColorsShow == Spec => []ColorsAgree
<1>1. TabsInv => ColorsAgree
  BY DEF TabsInv, ColorsTell, ColorsAgree, Shows
<1> QED BY <1>1, TabsInvariant, PTL
=============================================================================
