------------------------------- MODULE Base64 -------------------------------
(***************************************************************************)
(* The encoding of the SSH password in a configuration file (base64.hpp):  *)
(* bytes to symbols and back.  The loops over groups are given by what     *)
(* they leave at each index, counted from 0 as in the code.                *)
(***************************************************************************)
EXTENDS Integers, Sequences

Bytes == 0 .. 255
Pad == -1                \* '='
Symbols == -1 .. 63      \* Pad, or an index into sEncodingTable

At(seq, i) == IF i < Len(seq) THEN seq[i + 1] ELSE 0

\* Six bits of a group of three bytes; bytes that are missing count as 0.
Sextet(data, n) ==
  LET i == 3 * (n \div 4)
      a == At(data, i)  b == At(data, i + 1)  c == At(data, i + 2)
  IN <<a \div 4, (a % 4) * 16 + (b \div 16), (b % 16) * 4 + (c \div 64), c % 64>>[(n % 4) + 1]

\* The last group holds one byte, or two.
Padded(data, n) ==
  LET i == 3 * (n \div 4) IN
  \/ n % 4 = 2 /\ i + 1 >= Len(data)
  \/ n % 4 = 3 /\ i + 2 >= Len(data)

\* Mutant: a last group is written like the others.
SymbolUnpadded(data, n) == Sextet(data, n)

Symbol(data, n) == IF Padded(data, n) THEN Pad ELSE Sextet(data, n)

Encode(data) ==
  [n \in 1 .. 4 * ((Len(data) + 2) \div 3) |-> Symbol(data, n - 1)]

Bits(symbol) == IF symbol = Pad THEN 0 ELSE symbol

\* The byte at j, of the 24 bits of four symbols.
Byte(input, j) ==
  LET i == 4 * (j \div 3)
      triple == Bits(input[i + 1]) * 262144 + Bits(input[i + 2]) * 4096
                + Bits(input[i + 3]) * 64 + Bits(input[i + 4])
  IN <<(triple \div 65536) % 256, (triple \div 256) % 256, triple % 256>>[(j % 3) + 1]

IsPad(input, i) == IF input[i] = Pad THEN 1 ELSE 0

OutLen(input) ==
  3 * (Len(input) \div 4) - IsPad(input, Len(input)) - IsPad(input, Len(input) - 1)

\* Called with a text that is not empty; a length that is no multiple of four gives "".
Decode(input) ==
  IF Len(input) % 4 # 0 THEN << >>
  ELSE [j \in 1 .. OutLen(input) |-> Byte(input, j - 1)]
=============================================================================
