---------------------------- MODULE StartupProofs ----------------------------
(***************************************************************************)
(* The configuration file keeps what the dialog held, the master starts    *)
(* with what the dialog shows, the slaves of its launch command find it,   *)
(* and what libssh allocated is freed: for every text the widgets can      *)
(* show, every file and any number of actions of the user.                 *)
(***************************************************************************)
EXTENDS Startup, FiniteSetTheorems, TLAPS

-----------------------------------------------------------------------------
(* What Base64 promises, for a password of any length *)

LEMMA AtType ==
  ASSUME NEW data \in Seq(Bytes), NEW i \in Nat
  PROVE  At(data, i) \in Bytes /\ (i >= Len(data) => At(data, i) = 0)
  <1>1. Len(data) \in Nat /\ \A k \in 1 .. Len(data) : data[k] \in Bytes
    OBVIOUS
  <1>2. CASE i < Len(data)
    BY <1>1, <1>2 DEF At
  <1>3. CASE ~(i < Len(data))
    BY <1>1, <1>3 DEF At, Bytes
  <1> QED BY <1>1, <1>2, <1>3

\* Four groups of six bits hold three bytes, each of which can be taken out again.
LEMMA GroupBits ==
  ASSUME NEW a \in Bytes, NEW b \in Bytes, NEW c \in Bytes
  PROVE  LET t == (a \div 4) * 262144 + ((a % 4) * 16 + (b \div 16)) * 4096
                  + ((b % 16) * 4 + (c \div 64)) * 64 + (c % 64)
         IN /\ (t \div 65536) % 256 = a
            /\ (t \div 256) % 256 = b
            /\ t % 256 = c
<1> DEFINE t == (a \div 4) * 262144 + ((a % 4) * 16 + (b \div 16)) * 4096
                + ((b % 16) * 4 + (c \div 64)) * 64 + (c % 64)
<1>1. a \in 0 .. 255 /\ b \in 0 .. 255 /\ c \in 0 .. 255
  BY DEF Bytes
<1>2. a = 4 * (a \div 4) + (a % 4) /\ a \div 4 \in Int /\ a % 4 \in Int
  BY <1>1
<1>3. b = 16 * (b \div 16) + (b % 16) /\ b \div 16 \in Int /\ b % 16 \in Int
  BY <1>1
<1>4. c = 64 * (c \div 64) + (c % 64) /\ c \div 64 \in Int /\ c % 64 \in Int
  BY <1>1
<1>5. t = a * 65536 + b * 256 + c
  BY <1>1, <1>2, <1>3, <1>4
<1>6. (a * 65536 + b * 256 + c) \div 65536 = a
  BY <1>1
<1>7. (a * 65536 + b * 256 + c) \div 256 = a * 256 + b /\ (a * 256 + b) % 256 = b
  BY <1>1
<1>8. (a * 65536 + b * 256 + c) % 256 = c /\ a % 256 = a
  BY <1>1
<1>9. (t \div 65536) % 256 = a /\ (t \div 256) % 256 = b /\ t % 256 = c
  BY <1>5, <1>6, <1>7, <1>8
<1> QED BY <1>9

\* The symbols of group g before padding.
LEMMA SextetBits ==
  ASSUME NEW data \in Seq(Bytes), NEW g \in Nat
  PROVE  LET a == At(data, 3 * g)  b == At(data, 3 * g + 1)  c == At(data, 3 * g + 2) IN
         /\ Sextet(data, 4 * g) = a \div 4
         /\ Sextet(data, 4 * g + 1) = (a % 4) * 16 + (b \div 16)
         /\ Sextet(data, 4 * g + 2) = (b % 16) * 4 + (c \div 64)
         /\ Sextet(data, 4 * g + 3) = c % 64
<1>1. /\ (4 * g) \div 4 = g /\ (4 * g + 1) \div 4 = g
      /\ (4 * g + 2) \div 4 = g /\ (4 * g + 3) \div 4 = g
      /\ (4 * g) % 4 = 0 /\ (4 * g + 1) % 4 = 1
      /\ (4 * g + 2) % 4 = 2 /\ (4 * g + 3) % 4 = 3
  OBVIOUS
<1>2. /\ At(data, 3 * g) \in 0 .. 255 /\ At(data, 3 * g + 1) \in 0 .. 255
      /\ At(data, 3 * g + 2) \in 0 .. 255
  BY AtType DEF Bytes
<1>3. Sextet(data, 4 * g) = At(data, 3 * g) \div 4
  BY <1>1, <1>2 DEF Sextet
<1>4. Sextet(data, 4 * g + 1)
        = (At(data, 3 * g) % 4) * 16 + (At(data, 3 * g + 1) \div 16)
  BY <1>1, <1>2 DEF Sextet
<1>5. Sextet(data, 4 * g + 2)
        = (At(data, 3 * g + 1) % 16) * 4 + (At(data, 3 * g + 2) \div 64)
  BY <1>1, <1>2 DEF Sextet
<1>6. Sextet(data, 4 * g + 3) = At(data, 3 * g + 2) % 64
  <2> DEFINE c == At(data, 3 * g + 2)
  <2> HIDE DEF c
  <2>1. Sextet(data, 4 * g + 3) =
          <<At(data, 3 * g) \div 4,
            (At(data, 3 * g) % 4) * 16 + (At(data, 3 * g + 1) \div 16),
            (At(data, 3 * g + 1) % 16) * 4 + (c \div 64), c % 64>>[4]
    BY <1>1 DEF Sextet, c
  <2> QED BY <2>1 DEF c
<1> QED BY <1>3, <1>4, <1>5, <1>6

\* Where a group is padded.
LEMMA PaddedWhere ==
  ASSUME NEW data \in Seq(Bytes), NEW g \in Nat
  PROVE  /\ ~Padded(data, 4 * g) /\ ~Padded(data, 4 * g + 1)
         /\ Padded(data, 4 * g + 2) <=> 3 * g + 1 >= Len(data)
         /\ Padded(data, 4 * g + 3) <=> 3 * g + 2 >= Len(data)
<1>1. /\ (4 * g + 2) \div 4 = g /\ (4 * g + 3) \div 4 = g
      /\ (4 * g) % 4 = 0 /\ (4 * g + 1) % 4 = 1
      /\ (4 * g + 2) % 4 = 2 /\ (4 * g + 3) % 4 = 3
  OBVIOUS
<1> QED BY <1>1 DEF Padded

\* What decode reads of the four symbols of group g.
LEMMA SymbolBits ==
  ASSUME NEW data \in Seq(Bytes), NEW g \in Nat
  PROVE  LET a == At(data, 3 * g)  b == At(data, 3 * g + 1)  c == At(data, 3 * g + 2) IN
         /\ Bits(Symbol(data, 4 * g)) = a \div 4
         /\ Bits(Symbol(data, 4 * g + 1)) = (a % 4) * 16 + (b \div 16)
         /\ Bits(Symbol(data, 4 * g + 2)) = (b % 16) * 4 + (c \div 64)
         /\ Bits(Symbol(data, 4 * g + 3)) = c % 64
<1> DEFINE a == At(data, 3 * g)
           b == At(data, 3 * g + 1)
           c == At(data, 3 * g + 2)
<1>1. a \in 0 .. 255 /\ b \in 0 .. 255 /\ c \in 0 .. 255
  BY AtType DEF Bytes
<1>2. /\ (3 * g + 1 >= Len(data) => b = 0 /\ c = 0)
      /\ (3 * g + 2 >= Len(data) => c = 0)
  BY AtType
<1>3. /\ Sextet(data, 4 * g) = a \div 4
      /\ Sextet(data, 4 * g + 1) = (a % 4) * 16 + (b \div 16)
      /\ Sextet(data, 4 * g + 2) = (b % 16) * 4 + (c \div 64)
      /\ Sextet(data, 4 * g + 3) = c % 64
  BY SextetBits
<1> HIDE DEF a, b, c
<1>4. a \div 4 # Pad /\ (a % 4) * 16 + (b \div 16) # Pad
      /\ (b % 16) * 4 + (c \div 64) # Pad /\ c % 64 # Pad
  BY <1>1 DEF Pad
<1>5. /\ Bits(Symbol(data, 4 * g)) = a \div 4
      /\ Bits(Symbol(data, 4 * g + 1)) = (a % 4) * 16 + (b \div 16)
  BY <1>3, <1>4, PaddedWhere DEF Symbol, Bits
<1>6. Bits(Symbol(data, 4 * g + 2)) = (b % 16) * 4 + (c \div 64)
  <2>1. CASE Padded(data, 4 * g + 2)
    <3>1. (b % 16) * 4 + (c \div 64) = 0
      BY <2>1, <1>2, PaddedWhere
    <3> QED BY <2>1, <3>1 DEF Symbol, Bits
  <2>2. CASE ~Padded(data, 4 * g + 2)
    BY <2>2, <1>3, <1>4 DEF Symbol, Bits
  <2> QED BY <2>1, <2>2
<1>7. Bits(Symbol(data, 4 * g + 3)) = c % 64
  <2>1. CASE Padded(data, 4 * g + 3)
    <3>1. c % 64 = 0
      BY <2>1, <1>2, PaddedWhere
    <3> QED BY <2>1, <3>1 DEF Symbol, Bits
  <2>2. CASE ~Padded(data, 4 * g + 3)
    BY <2>2, <1>3, <1>4 DEF Symbol, Bits
  <2> QED BY <2>1, <2>2
<1> QED BY <1>5, <1>6, <1>7 DEF a, b, c

\* The lengths: a whole number of groups, of which decode drops what was padded.
LEMMA Lengths ==
  ASSUME NEW data \in Seq(Bytes), Len(data) > 0
  PROVE  /\ Len(Encode(data)) = 4 * ((Len(data) + 2) \div 3)
         /\ Len(Encode(data)) % 4 = 0
         /\ OutLen(Encode(data)) = Len(data)
<1> DEFINE len == Len(data)
           groups == (len + 2) \div 3
           g == groups - 1
<1>1. /\ len \in Nat /\ groups \in Nat /\ g \in Nat
      /\ len = 3 * g + 1 \/ len = 3 * g + 2 \/ len = 3 * g + 3
  OBVIOUS
<1>2. Len(Encode(data)) = 4 * groups
  BY <1>1 DEF Encode
<1> HIDE DEF groups
<1>3. (4 * groups) % 4 = 0 /\ (4 * groups) \div 4 = groups
  BY <1>1
<1>4. Encode(data)[4 * groups] = Symbol(data, 4 * g + 3)
      /\ Encode(data)[4 * groups - 1] = Symbol(data, 4 * g + 2)
  BY <1>1 DEF Encode, groups
<1>5. At(data, 3 * g + 1) \in 0 .. 255 /\ At(data, 3 * g + 2) \in 0 .. 255
  BY <1>1, AtType DEF Bytes
<1>6. /\ Sextet(data, 4 * g + 2) # Pad
      /\ Sextet(data, 4 * g + 3) # Pad
  <2>1. Sextet(data, 4 * g + 2)
          = (At(data, 3 * g + 1) % 16) * 4 + (At(data, 3 * g + 2) \div 64)
    BY <1>1, SextetBits
  <2>2. Sextet(data, 4 * g + 3) = At(data, 3 * g + 2) % 64
    BY <1>1, SextetBits
  <2>3. \A b, c \in 0 .. 255 : (b % 16) * 4 + (c \div 64) # -1 /\ c % 64 # -1
    OBVIOUS
  <2> QED BY <2>1, <2>2, <2>3, <1>5 DEF Pad
<1>7. IsPad(Encode(data), 4 * groups) = IF 3 * g + 2 < len THEN 0 ELSE 1
  <2>1. Padded(data, 4 * g + 3) <=> 3 * g + 2 >= len
    BY <1>1, PaddedWhere
  <2>2. Symbol(data, 4 * g + 3) = Pad <=> 3 * g + 2 >= len
    BY <2>1, <1>6 DEF Symbol
  <2>3. 3 * g + 2 >= len <=> ~(3 * g + 2 < len)
    BY <1>1
  <2> QED BY <2>2, <2>3, <1>4 DEF IsPad
<1>8. IsPad(Encode(data), 4 * groups - 1) = IF 3 * g + 1 < len THEN 0 ELSE 1
  <2>1. Padded(data, 4 * g + 2) <=> 3 * g + 1 >= len
    BY <1>1, PaddedWhere
  <2>2. Symbol(data, 4 * g + 2) = Pad <=> 3 * g + 1 >= len
    BY <2>1, <1>6 DEF Symbol
  <2>3. 3 * g + 1 >= len <=> ~(3 * g + 1 < len)
    BY <1>1
  <2> QED BY <2>2, <2>3, <1>4 DEF IsPad
<1>9. OutLen(Encode(data)) = len
  BY <1>1, <1>2, <1>3, <1>7, <1>8 DEF OutLen
<1> QED BY <1>2, <1>3, <1>9 DEF groups

\* A password of any length and any bytes comes back as it was, whatever the padding
\* of its last group (Base64::encode, Base64::decode).
THEOREM DecodeEncode ==
  ASSUME NEW data \in Seq(Bytes), data # << >>
  PROVE  Decode(Encode(data)) = data
<1> DEFINE code == Encode(data)
           len == Len(data)
<1>1. len \in Nat /\ len > 0
  OBVIOUS
<1>2. /\ Len(code) = 4 * ((len + 2) \div 3)
      /\ Len(code) % 4 = 0
      /\ OutLen(code) = len
  BY <1>1, Lengths
<1>3. ASSUME NEW j \in 0 .. len - 1
      PROVE  Byte(code, j) = data[j + 1]
  <2> DEFINE g == j \div 3
             a == At(data, 3 * g)
             b == At(data, 3 * g + 1)
             c == At(data, 3 * g + 2)
  <2>1. /\ g \in Nat /\ 3 * g < len
        /\ 4 * g + 4 <= 4 * ((len + 2) \div 3)
        /\ j = 3 * g + (j % 3) /\ j % 3 \in {0, 1, 2}
    BY <1>1
  <2> HIDE DEF g
  <2>2. /\ code[4 * g + 1] = Symbol(data, 4 * g)
        /\ code[4 * g + 2] = Symbol(data, 4 * g + 1)
        /\ code[4 * g + 3] = Symbol(data, 4 * g + 2)
        /\ code[4 * g + 4] = Symbol(data, 4 * g + 3)
    BY <1>1, <2>1 DEF Encode
  <2>3. a \in Bytes /\ b \in Bytes /\ c \in Bytes
    BY <2>1, AtType
  <2> DEFINE t == (a \div 4) * 262144 + ((a % 4) * 16 + (b \div 16)) * 4096
                  + ((b % 16) * 4 + (c \div 64)) * 64 + (c % 64)
  <2>4. /\ Bits(code[4 * g + 1]) = a \div 4
        /\ Bits(code[4 * g + 2]) = (a % 4) * 16 + (b \div 16)
        /\ Bits(code[4 * g + 3]) = (b % 16) * 4 + (c \div 64)
        /\ Bits(code[4 * g + 4]) = c % 64
    BY <2>1, <2>2, SymbolBits
  <2> HIDE DEF a, b, c, code
  <2>5. /\ (t \div 65536) % 256 = a /\ (t \div 256) % 256 = b /\ t % 256 = c
    BY <2>3, GroupBits
  <2>6. Byte(code, j) = <<(t \div 65536) % 256, (t \div 256) % 256, t % 256>>[(j % 3) + 1]
    BY <2>4 DEF Byte, g
  <2>7. Byte(code, j) = At(data, j)
    <3> HIDE DEF t
    <3>1. CASE j % 3 = 0
      BY <3>1, <2>1, <2>5, <2>6 DEF a
    <3>2. CASE j % 3 = 1
      BY <3>2, <2>1, <2>5, <2>6 DEF b
    <3>3. CASE j % 3 = 2
      BY <3>3, <2>1, <2>5, <2>6 DEF c
    <3> QED BY <2>1, <3>1, <3>2, <3>3
  <2> QED BY <2>7, <1>1 DEF At
<1> HIDE DEF code
<1>4. Decode(code) = [k \in 1 .. len |-> Byte(code, k - 1)]
  BY <1>2 DEF Decode
<1>5. \A k \in 1 .. len : Byte(code, k - 1) = data[k]
  <2> TAKE k \in 1 .. len
  <2>1. k - 1 \in 0 .. len - 1 /\ (k - 1) + 1 = k
    BY <1>1
  <2> QED BY <2>1, <1>3
<1>6. data = [k \in 1 .. len |-> data[k]]
  OBVIOUS
<1> QED BY <1>4, <1>5, <1>6 DEF code

-----------------------------------------------------------------------------
(* Configurations *)

\* What read_values makes of a dialog.
Configs ==
  [launcher : Launchers, launcher_args : Texts, number_of_processes : Int,
   processes_per_node : Int, num_nodes : Int, ip_address : Texts,
   base_port : Int, slave_path : Texts, target_path : Texts,
   target_args : Texts, ssh : BOOLEAN, ssh_address : Texts, ssh_user : Texts,
   ssh_password : Seq(Bytes)]

LEMMA ReadNumberType ==
  ASSUME NEW text \in NumberTexts, NEW low \in Int, NEW high \in Int
  PROVE  /\ ReadNumber(text, low, high) \in Int
         /\ \/ ReadNumber(text, low, high) = -1
            \/ low <= ReadNumber(text, low, high) /\ ReadNumber(text, low, high) <= high
  BY DEF ReadNumber, IsNumber, NumberTexts

\* A number that was read is read again from what is written for it; -1 is written as
\* an empty text, which is -1 again.
LEMMA NumberRoundTrip ==
  ASSUME NEW low \in Nat, NEW high \in Int, NEW n \in Int,
         n = -1 \/ (low <= n /\ n <= high)
  PROVE  ReadNumber(Written(n, low), low, high) = n
  BY DEF ReadNumber, IsNumber, Written, Plain, NoNumber

LEMMA WrittenType ==
  ASSUME NEW n \in Int, NEW low \in Int
  PROVE  Written(n, low) \in NumberTexts
  BY DEF Written, Plain, NoNumber, NumberTexts

LEMMA PasswordRoundTrip ==
  ASSUME NEW p \in Seq(Bytes)
  PROVE  (IF Encode(p) = << >> THEN << >> ELSE Decode(Encode(p))) = p
<1>1. CASE p = << >>
  <2>1. Encode(p) = << >>
    BY <1>1 DEF Encode
  <2> QED BY <2>1, <1>1
<1>2. CASE p # << >>
  <2>1. Len(p) > 0
    BY <1>2
  <2>2. Len(Encode(p)) > 0
    BY <2>1, Lengths
  <2>3. Len(<< >>) = 0
    OBVIOUS
  <2>4. Encode(p) # << >>
    BY <2>2, <2>3
  <2> QED BY <2>4, <1>2, DecodeEncode
<1> QED BY <1>1, <1>2

\* The members read from a dialog come back through a file.
LEMMA FileRoundTrip ==
  ASSUME NEW w \in Dialogs
  PROVE  /\ ImportOf(ExportOf(ReadValues(w))) \in Dialogs
         /\ ReadValues(ImportOf(ExportOf(ReadValues(w)))) = ReadValues(w)
<1> DEFINE m == ReadValues(w)
           f == ExportOf(m)
           i == ImportOf(f)
<1>1. IntMax \in Nat /\ MaxPort \in Nat
  BY StartupAssumption DEF MaxPort
<1> DEFINE n1 == ReadNumber(w.number_of_processes, 1, IntMax)
           n2 == ReadNumber(w.processes_per_node, 1, IntMax)
           n3 == ReadNumber(w.num_nodes, 1, IntMax)
           n4 == ReadNumber(w.base_port, 0, MaxPort)
<1>2. /\ n1 \in Int /\ n2 \in Int /\ n3 \in Int /\ n4 \in Int
      /\ ReadNumber(Written(n1, 1), 1, IntMax) = n1
      /\ ReadNumber(Written(n2, 1), 1, IntMax) = n2
      /\ ReadNumber(Written(n3, 1), 1, IntMax) = n3
      /\ ReadNumber(Written(n4, 0), 0, MaxPort) = n4
  <2>1. /\ w.number_of_processes \in NumberTexts /\ w.processes_per_node \in NumberTexts
        /\ w.num_nodes \in NumberTexts /\ w.base_port \in NumberTexts
    BY DEF Dialogs
  <2>2. /\ n1 \in Int /\ (n1 = -1 \/ (1 <= n1 /\ n1 <= IntMax))
        /\ n2 \in Int /\ (n2 = -1 \/ (1 <= n2 /\ n2 <= IntMax))
        /\ n3 \in Int /\ (n3 = -1 \/ (1 <= n3 /\ n3 <= IntMax))
        /\ n4 \in Int /\ (n4 = -1 \/ (0 <= n4 /\ n4 <= MaxPort))
    BY <2>1, <1>1, ReadNumberType
  <2> HIDE DEF n1, n2, n3, n4
  <2> QED BY <2>2, <1>1, NumberRoundTrip
<1>3. m = [w EXCEPT !.number_of_processes = n1, !.processes_per_node = n2,
                    !.num_nodes = n3, !.base_port = n4]
  BY DEF ReadValues, ReadPort, Dialogs
<1> HIDE DEF n1, n2, n3, n4, m
<1>4. /\ m \in Configs
      /\ m.number_of_processes = n1 /\ m.processes_per_node = n2
      /\ m.num_nodes = n3 /\ m.base_port = n4
  <2>1. w = [launcher |-> w.launcher, launcher_args |-> w.launcher_args,
             number_of_processes |-> w.number_of_processes,
             processes_per_node |-> w.processes_per_node, num_nodes |-> w.num_nodes,
             ip_address |-> w.ip_address, base_port |-> w.base_port,
             slave_path |-> w.slave_path, target_path |-> w.target_path,
             target_args |-> w.target_args, ssh |-> w.ssh,
             ssh_address |-> w.ssh_address, ssh_user |-> w.ssh_user,
             ssh_password |-> w.ssh_password]
    BY DEF Dialogs
  <2>2. m = [launcher |-> w.launcher, launcher_args |-> w.launcher_args,
             number_of_processes |-> n1,
             processes_per_node |-> n2, num_nodes |-> n3,
             ip_address |-> w.ip_address, base_port |-> n4,
             slave_path |-> w.slave_path, target_path |-> w.target_path,
             target_args |-> w.target_args, ssh |-> w.ssh,
             ssh_address |-> w.ssh_address, ssh_user |-> w.ssh_user,
             ssh_password |-> w.ssh_password]
    BY <2>1, <1>3
  <2> QED BY <2>2, <1>2 DEF Dialogs, Configs
<1>5. f = [m EXCEPT !.number_of_processes = Written(m.number_of_processes, 1),
                    !.processes_per_node  = Written(m.processes_per_node, 1),
                    !.num_nodes           = Written(m.num_nodes, 1),
                    !.base_port           = Written(m.base_port, 0),
                    !.ssh                 = IF m.ssh THEN "true" ELSE "false",
                    !.ssh_password        = Encode(m.ssh_password)]
  BY <1>4 DEF ExportOf, Configs
<1>6. i = [f EXCEPT !.launcher = m.launcher, !.ssh = m.ssh, !.ssh_password = m.ssh_password]
  <2>1. (IF f.launcher \in {"srun", "custom"} THEN f.launcher ELSE "mpirun") = m.launcher
    BY <1>4, <1>5 DEF Configs, Launchers
  <2>2. (f.ssh = "true") = m.ssh
    BY <1>4, <1>5 DEF Configs
  <2>3. f.ssh_password = Encode(m.ssh_password) /\ m.ssh_password \in Seq(Bytes)
    BY <1>4, <1>5 DEF Configs
  <2>4. (IF f.ssh_password = << >> THEN << >> ELSE Decode(f.ssh_password)) = m.ssh_password
    BY <2>3, PasswordRoundTrip
  <2> HIDE DEF f
  <2> QED BY <2>1, <2>2, <2>4 DEF ImportOf
<1>7. i = [m EXCEPT !.number_of_processes = Written(n1, 1),
                    !.processes_per_node  = Written(n2, 1),
                    !.num_nodes           = Written(n3, 1),
                    !.base_port           = Written(n4, 0)]
  <2> HIDE DEF i
  <2> QED BY <1>4, <1>5, <1>6 DEF Configs
<1> HIDE DEF i
<1>8. i \in Dialogs /\ ReadValues(i) = m
  <2>1. m = [launcher |-> m.launcher, launcher_args |-> m.launcher_args,
             number_of_processes |-> n1,
             processes_per_node |-> n2, num_nodes |-> n3,
             ip_address |-> m.ip_address, base_port |-> n4,
             slave_path |-> m.slave_path, target_path |-> m.target_path,
             target_args |-> m.target_args, ssh |-> m.ssh,
             ssh_address |-> m.ssh_address, ssh_user |-> m.ssh_user,
             ssh_password |-> m.ssh_password]
    BY <1>4 DEF Configs
  <2>2. i = [launcher |-> m.launcher, launcher_args |-> m.launcher_args,
             number_of_processes |-> Written(n1, 1),
             processes_per_node |-> Written(n2, 1), num_nodes |-> Written(n3, 1),
             ip_address |-> m.ip_address, base_port |-> Written(n4, 0),
             slave_path |-> m.slave_path, target_path |-> m.target_path,
             target_args |-> m.target_args, ssh |-> m.ssh,
             ssh_address |-> m.ssh_address, ssh_user |-> m.ssh_user,
             ssh_password |-> m.ssh_password]
    BY <1>7, <2>1
  <2>3. /\ i.number_of_processes = Written(n1, 1)
        /\ i.processes_per_node = Written(n2, 1)
        /\ i.num_nodes = Written(n3, 1) /\ i.base_port = Written(n4, 0)
    BY <2>2
  <2>4. ReadValues(i) = [i EXCEPT !.number_of_processes = n1, !.processes_per_node = n2,
                                  !.num_nodes = n3, !.base_port = n4]
    <3>1. /\ ReadNumber(i.number_of_processes, 1, IntMax) = n1
          /\ ReadNumber(i.processes_per_node, 1, IntMax) = n2
          /\ ReadNumber(i.num_nodes, 1, IntMax) = n3
          /\ ReadPort(i.base_port) = n4
      BY <2>3, <1>2 DEF ReadPort
    <3> QED BY <3>1, Zenon DEF ReadValues
  <2> DEFINE r == ReadValues(i)
  <2>5. r = [i EXCEPT !.number_of_processes = n1, !.processes_per_node = n2,
                      !.num_nodes = n3, !.base_port = n4]
    BY <2>4
  <2> HIDE DEF r
  <2>6. r = [launcher |-> m.launcher, launcher_args |-> m.launcher_args,
             number_of_processes |-> n1,
             processes_per_node |-> n2, num_nodes |-> n3,
             ip_address |-> m.ip_address, base_port |-> n4,
             slave_path |-> m.slave_path, target_path |-> m.target_path,
             target_args |-> m.target_args, ssh |-> m.ssh,
             ssh_address |-> m.ssh_address, ssh_user |-> m.ssh_user,
             ssh_password |-> m.ssh_password]
    BY <2>2, <2>5
  <2>7. r = m
    BY <2>1, <2>6
  <2>8. i \in Dialogs
    BY <1>2, <1>4, <2>2, WrittenType DEF Configs, Dialogs
  <2> QED BY <2>7, <2>8 DEF r
<1> QED BY <1>8 DEF m, f, i

-----------------------------------------------------------------------------
(* Every action keeps the widgets in Dialogs and the file one that was exported. *)

Fresh == [Cleared EXCEPT !.base_port = Plain(32768)]

LEMMA StartType == Cleared \in Dialogs /\ Fresh \in Dialogs
<1>1. NoNumber \in NumberTexts /\ Plain(32768) \in NumberTexts
  BY DEF NoNumber, Plain, NumberTexts
<1>2. << >> \in Texts /\ << >> \in Seq(Bytes)
  BY DEF Texts
<1>3. Cleared \in Dialogs
  BY <1>1, <1>2 DEF Cleared, Dialogs, Launchers
<1>4. Fresh \in Dialogs
  BY <1>1, <1>3 DEF Fresh, Dialogs
<1> QED BY <1>3, <1>4

LEMMA EditType ==
  ASSUME NEW w \in Dialogs, NEW field \in Fields, NEW value \in Values[field]
  PROVE  [w EXCEPT ![field] = value] \in Dialogs
<1>1. field \in {"launcher", "launcher_args", "number_of_processes", "processes_per_node",
                "num_nodes", "ip_address", "base_port", "slave_path", "target_path",
                "target_args", "ssh", "ssh_address", "ssh_user", "ssh_password"}
  BY DEF Fields, Cleared
<1>2. CASE field \in {"launcher", "launcher_args", "ip_address", "slave_path",
                      "target_path", "target_args"}
  BY <1>2, StartupAssumption DEF Dialogs
<1>3. CASE field \in {"number_of_processes", "processes_per_node", "num_nodes", "base_port"}
  BY <1>3, StartupAssumption DEF Dialogs
<1>4. CASE field \in {"ssh", "ssh_address", "ssh_user", "ssh_password"}
  BY <1>4, StartupAssumption DEF Dialogs
<1> QED BY <1>1, <1>2, <1>3, <1>4

\* Whatever symbols a file holds, bytes come out.
LEMMA DecodeType ==
  ASSUME NEW input \in Seq(Symbols), input # << >>
  PROVE  Decode(input) \in Seq(Bytes)
<1>1. CASE Len(input) % 4 # 0
  BY <1>1 DEF Decode
<1>2. CASE Len(input) % 4 = 0
  <2> DEFINE groups == Len(input) \div 4
  <2>1. /\ Len(input) \in Nat /\ Len(input) > 0
        /\ \A k \in 1 .. Len(input) : input[k] \in Symbols
    OBVIOUS
  <2>2. groups \in Nat /\ Len(input) = 4 * groups /\ groups > 0
    BY <2>1, <1>2
  <2>3. OutLen(input) \in Nat /\ OutLen(input) <= 3 * groups
    <3>1. IsPad(input, Len(input)) \in {0, 1} /\ IsPad(input, Len(input) - 1) \in {0, 1}
      BY DEF IsPad
    <3>2. OutLen(input)
            = 3 * groups - IsPad(input, Len(input)) - IsPad(input, Len(input) - 1)
      BY DEF OutLen
    <3> HIDE DEF groups
    <3> QED BY <3>1, <3>2, <2>2
  <2>4. ASSUME NEW j \in 1 .. OutLen(input)
        PROVE  Byte(input, j - 1) \in Bytes
    <3> DEFINE g == (j - 1) \div 3
    <3>1. g \in Nat /\ g < groups
      <4> HIDE DEF groups
      <4> QED BY <2>2, <2>3
    <3>2. \A k \in 1 .. 4 : Bits(input[4 * g + k]) \in Int
      <4>1. \A k \in 1 .. 4 : 4 * g + k \in 1 .. Len(input)
        <5> HIDE DEF g, groups
        <5> QED BY <3>1, <2>2
      <4>2. \A symbol \in Symbols : Bits(symbol) \in Int
        BY DEF Bits, Symbols
      <4> HIDE DEF g
      <4> QED BY <4>1, <4>2, <2>1
    <3> DEFINE triple == Bits(input[4 * g + 1]) * 262144 + Bits(input[4 * g + 2]) * 4096
                         + Bits(input[4 * g + 3]) * 64 + Bits(input[4 * g + 4])
    <3>3. triple \in Int
      BY <3>2
    <3>4. Byte(input, j - 1)
            = <<(triple \div 65536) % 256, (triple \div 256) % 256, triple % 256>>[((j - 1) % 3) + 1]
      BY DEF Byte
    <3> HIDE DEF triple
    <3>5. /\ (triple \div 65536) % 256 \in Bytes /\ (triple \div 256) % 256 \in Bytes
          /\ triple % 256 \in Bytes
      BY <3>3 DEF Bytes
    <3>6. ((j - 1) % 3) + 1 \in {1, 2, 3}
      BY <2>3
    <3> QED BY <3>4, <3>5, <3>6
  <2> QED BY <2>3, <2>4, <1>2 DEF Decode
<1> QED BY <1>1, <1>2

LEMMA ImportType ==
  ASSUME NEW f \in Files
  PROVE  ImportOf(f) \in Dialogs
<1> DEFINE launcher == IF f.launcher \in {"srun", "custom"} THEN f.launcher ELSE "mpirun"
           password == IF f.ssh_password = << >> THEN << >> ELSE Decode(f.ssh_password)
<1>1. launcher \in Launchers
  BY DEF Launchers
<1>2. password \in Seq(Bytes)
  BY DecodeType DEF Files
<1>3. ImportOf(f) = [f EXCEPT !.launcher = launcher, !.ssh = f.ssh = "true",
                              !.ssh_password = password]
  BY DEF ImportOf
<1> HIDE DEF launcher, password
<1> QED BY <1>1, <1>2, <1>3 DEF Files, Dialogs

\* What is inductive: the widgets show a dialog, and the file was written from one.
Kept ==
  /\ widgets \in Dialogs
  /\ file # None =>
       \E w \in Dialogs : file = ExportOf(ReadValues(w)) /\ exported = ReadValues(w)

LEMMA KeptInit == Init => Kept
  BY StartType DEF Init, Kept, Fresh

LEMMA KeptNext == Kept /\ [Next]_vars => Kept'
<1> SUFFICES ASSUME Kept, [Next]_vars PROVE Kept'
  OBVIOUS
<1>1. CASE Edit
  <2>1. PICK field \in Fields :
          \E value \in Values[field] : widgets' = [widgets EXCEPT ![field] = value]
    BY <1>1 DEF Edit
  <2>2. widgets' \in Dialogs
    BY <2>1, EditType DEF Kept
  <2> QED BY <1>1, <2>2 DEF Edit, Kept
<1>2. CASE ClearAll
  BY <1>2, StartType DEF ClearAll, Kept
<1>3. CASE ReadConfig
  <2>1. PICK f \in HandWritten \cup ({file} \ {None}) : widgets' = ImportOf(f)
    BY <1>3 DEF ReadConfig
  <2>2. widgets' \in Dialogs
    <3>1. CASE f \in HandWritten
      BY <3>1, <2>1, ImportType, StartupAssumption
    <3>2. CASE f = file /\ file # None
      BY <3>2, <2>1, FileRoundTrip DEF Kept
    <3> QED BY <2>1, <3>1, <3>2
  <2> QED BY <1>3, <2>2 DEF ReadConfig, Kept
<1>4. CASE ExportConfig
  BY <1>4 DEF ExportConfig, Kept
<1>5. CASE PressOk
  BY <1>5 DEF PressOk, Kept
<1>6. CASE UNCHANGED dialogVars
  BY <1>6 DEF dialogVars, Kept
<1>7. CASE CloseDialog \/ StartServers \/ StartSlaves \/ SshConnect \/ SshChecks \/ RunCmd
           \/ SshRelease \/ EndSlaves \/ StartGui
  BY <1>6, <1>7 DEF CloseDialog, StartServers, StartSlaves, SshConnect, SshChecks, RunCmd,
                    SshRelease, EndSlaves, StartGui
<1>8. CASE UNCHANGED vars
  BY <1>6, <1>8 DEF vars, dialogVars
<1> QED BY <1>1, <1>2, <1>3, <1>4, <1>5, <1>7, <1>8 DEF Next

\* A configuration comes back from its file, for every text, number and password the user
\* may enter, every hand-written file and any number of actions in between
\* (export_config, read_config, read_values).
THEOREM ConfigRoundTrip == Spec => []RoundTrip
<1>1. Kept => RoundTrip
  BY FileRoundTrip DEF Kept, RoundTrip
<1> QED BY <1>1, KeptInit, KeptNext, PTL DEF Spec

-----------------------------------------------------------------------------
\* Past the dialog the members are those the dialog shows, and valid, whatever was
\* exported, read or cleared before (on_dialog_response, run_startup_dialog).
THEOREM StartsWithShownValues == Spec => []StartsAsShown
<1>1. Init => StartsAsShown
  BY DEF Init, StartsAsShown
<1>2. StartsAsShown /\ [Next]_vars => StartsAsShown'
  <2> SUFFICES ASSUME StartsAsShown, [Next]_vars PROVE StartsAsShown'
    OBVIOUS
  <2>1. CASE Edit \/ ClearAll \/ ReadConfig \/ ExportConfig
    BY <2>1 DEF Edit, ClearAll, ReadConfig, ExportConfig, UserActs, StartsAsShown
  <2>2. CASE PressOk
    BY <2>2 DEF PressOk, Accepts, StartsAsShown
  <2>3. ASSUME pc \notin {"dialog", "returned"} \/ pc' = "returned" \/ pc' = pc,
               UNCHANGED <<widgets, members>>
        PROVE  StartsAsShown'
    BY <2>3 DEF StartsAsShown
  <2>4. CASE CloseDialog \/ StartServers \/ StartSlaves \/ EndSlaves \/ StartGui
    BY <2>3, <2>4 DEF CloseDialog, StartServers, StartSlaves, EndSlaves, StartGui, dialogVars
  <2>5. CASE SshConnect \/ SshChecks \/ RunCmd \/ SshRelease
    BY <2>3, <2>5 DEF SshConnect, SshChecks, RunCmd, SshRelease, SshCall, SshFails, dialogVars
  <2>6. CASE UNCHANGED vars
    BY <2>3, <2>6 DEF vars
  <2> QED BY <2>1, <2>2, <2>4, <2>5, <2>6 DEF Next
<1> QED BY <1>1, <1>2, PTL DEF Spec

\* What is true of the SSH session and its channel while start_slaves_ssh runs.
SshStages ==
  /\ pc \in {"dialog", "servers", "slaves"} => session = "none" /\ channel = "none"
  /\ pc = "ssh_connect" => session = "allocated" /\ channel = "none"
  /\ pc \in {"ssh_known", "ssh_auth", "channel_new"} =>
       session = "connected" /\ channel = "none"
  /\ pc \in {"channel_open", "channel_exec"} => session = "connected"
  /\ pc = "ssh_release" => channel \in {"none", "freed"}
  /\ pc = "end_slaves" \/ pc = "gui" \/ pc = "returned" =>
       session \in {"none", "freed"} \/ (session = "allocated" /\ ~ret)
  /\ pc = "end_slaves" \/ pc = "gui" \/ pc = "returned" => channel \in {"none", "freed"}
  /\ session = "freed" => channel \in {"none", "freed"}
  /\ pc = "ssh_release" => session = "connected"

\* Every way out of start_slaves_ssh frees what was allocated, the channel first
\* (start_slaves_ssh, run_cmd).
THEOREM SshIsReleased == Spec => []SshReleased
<1>1. Init => SshStages
  BY DEF Init, SshStages
<1>2. SshStages /\ [Next]_vars => SshStages'
  <2> SUFFICES ASSUME SshStages, [Next]_vars PROVE SshStages'
    OBVIOUS
  <2>1. ASSUME pc \in {"dialog", "servers", "slaves"},
               pc' \in {"dialog", "servers", "slaves", "returned"},
               UNCHANGED <<session, channel>>
        PROVE  SshStages'
    BY <2>1 DEF SshStages
  <2>2. CASE Edit \/ ClearAll \/ ReadConfig \/ ExportConfig
    BY <2>1, <2>2 DEF Edit, ClearAll, ReadConfig, ExportConfig, UserActs
  <2>3. CASE PressOk \/ CloseDialog \/ StartServers
    BY <2>1, <2>3 DEF PressOk, CloseDialog, StartServers
  <2>4. CASE StartSlaves
    BY <2>4 DEF StartSlaves, SshStages
  <2>5. CASE SshConnect
    BY <2>5 DEF SshConnect, SshCall, SshFails, SshStages
  <2>6. CASE SshChecks
    BY <2>6 DEF SshChecks, SshCall, SshFails, SshStages
  <2>7. CASE RunCmd
    BY <2>7 DEF RunCmd, SshCall, SshFails, Freed, SshStages
  <2>8. CASE SshRelease
    BY <2>8 DEF SshRelease, SshStages
  <2>9. CASE EndSlaves
    BY <2>9 DEF EndSlaves, SshStages
  <2>10. CASE StartGui
    BY <2>10 DEF StartGui, SshStages
  <2>11. CASE UNCHANGED vars
    BY <2>11 DEF vars, SshStages
  <2> QED BY <2>2, <2>3, <2>4, <2>5, <2>6, <2>7, <2>8, <2>9, <2>10, <2>11 DEF Next
<1>3. SshStages => SshReleased
  BY DEF SshStages, SshReleased
<1> QED BY <1>1, <1>2, <1>3, PTL DEF Spec

-----------------------------------------------------------------------------
(* What Picked, Squeezed and Arguments do to a text of any length. *)

\* How many of S come no later than p.
RankIn(S, p) == Cardinality({q \in S : q <= p})

\* Place k of Picked(seq, S) in seq.
PlaceIn(S, k) == CHOOSE p \in S : RankIn(S, p) = k

LEMMA RankGrows ==
  ASSUME NEW n \in Nat, NEW S \in SUBSET (1 .. n)
  PROVE  /\ IsFiniteSet(S) /\ Cardinality(S) \in Nat
         /\ \A p \in S : RankIn(S, p) \in 1 .. Cardinality(S)
         /\ \A p, q \in S : p < q => RankIn(S, p) < RankIn(S, q)
<1>0. IsFiniteSet(1 .. n) /\ \A p \in S : p \in Int
  BY FS_Interval
<1>1. IsFiniteSet(S)
  BY <1>0, FS_Subset
<1>2. Cardinality(S) \in Nat
  BY <1>1, FS_CardinalityType
<1>3. ASSUME NEW p \in S
      PROVE  /\ IsFiniteSet({q \in S : q <= p})
             /\ RankIn(S, p) \in Nat /\ RankIn(S, p) <= Cardinality(S)
  <2>1. {q \in S : q <= p} \in SUBSET S
    OBVIOUS
  <2>2. /\ IsFiniteSet({q \in S : q <= p})
        /\ Cardinality({q \in S : q <= p}) <= Cardinality(S)
    BY <1>1, <2>1, FS_Subset
  <2> QED BY <2>2, FS_CardinalityType DEF RankIn
<1>4. ASSUME NEW p \in S
      PROVE  RankIn(S, p) # 0
  <2>1. p \in {q \in S : q <= p}
    BY <1>0
  <2> QED BY <1>3, <2>1, FS_EmptySet DEF RankIn
<1>5. ASSUME NEW p \in S, NEW q \in S, p < q
      PROVE  RankIn(S, p) < RankIn(S, q)
  <2> DEFINE P == {r \in S : r <= p}
             Q == {r \in S : r <= q}
  <2>1. P \in SUBSET Q /\ q \in Q /\ q \notin P
    <3>1. ASSUME NEW r \in P PROVE r \in Q
      <4>1. r \in S /\ r \in Int /\ p \in Int /\ q \in Int /\ r <= p
        BY <1>0
      <4>2. r <= q
        BY <4>1, <1>5
      <4> QED BY <4>1, <4>2
    <3>2. q <= q /\ ~(q <= p)
      BY <1>0, <1>5
    <3> QED BY <3>1, <3>2
  <2>2. IsFiniteSet(Q) /\ Cardinality(P) \in Nat /\ Cardinality(Q) \in Nat
    <3>1. IsFiniteSet(P) /\ IsFiniteSet(Q)
      BY <1>3
    <3> HIDE DEF P, Q
    <3> QED BY <3>1, FS_CardinalityType
  <2> HIDE DEF P, Q
  <2>3. Cardinality(P) <= Cardinality(Q) /\ Cardinality(Q) # Cardinality(P)
    BY <2>1, <2>2, FS_Subset
  <2>4. Cardinality(P) < Cardinality(Q)
    BY <2>2, <2>3
  <2> QED BY <2>4 DEF P, Q, RankIn
<1>6. \A p \in S : RankIn(S, p) \in 1 .. Cardinality(S)
  <2> SUFFICES ASSUME NEW p \in S PROVE RankIn(S, p) \in 1 .. Cardinality(S)
    OBVIOUS
  <2>1. RankIn(S, p) \in Nat /\ RankIn(S, p) <= Cardinality(S) /\ RankIn(S, p) # 0
    BY <1>3, <1>4
  <2> HIDE DEF RankIn
  <2> QED BY <1>2, <2>1
<1> QED BY <1>1, <1>2, <1>5, <1>6

\* The places are those of S, each once and in order.
LEMMA PlacesInOrder ==
  ASSUME NEW n \in Nat, NEW S \in SUBSET (1 .. n)
  PROVE  /\ \A k \in 1 .. Cardinality(S) :
              PlaceIn(S, k) \in S /\ RankIn(S, PlaceIn(S, k)) = k
         /\ \A p \in S : PlaceIn(S, RankIn(S, p)) = p
         /\ \A p \in S : RankIn(S, p) \in 1 .. Cardinality(S)
         /\ \A p, q \in S : p < q /\ (\A r \in S : ~(p < r /\ r < q)) =>
              RankIn(S, q) = RankIn(S, p) + 1
<1> DEFINE N == Cardinality(S)
           rank == [p \in S |-> RankIn(S, p)]
<1>1. /\ IsFiniteSet(S) /\ N \in Nat
      /\ \A p \in S : RankIn(S, p) \in 1 .. N
      /\ \A p, q \in S : p < q => RankIn(S, p) < RankIn(S, q)
  BY RankGrows
<1> HIDE DEF N
<1>0. \A p \in S : p \in Int
  OBVIOUS
<1>2. \A p, q \in S : RankIn(S, p) = RankIn(S, q) => p = q
  <2>1. \A p, q \in S : p < q \/ q < p \/ p = q
    BY <1>0
  <2> QED BY <1>1, <2>1
<1>3. rank \in Injection(S, 1 .. N)
  <2>1. rank \in [S -> 1 .. N]
    BY <1>1
  <2>2. \A p, q \in S : rank[p] = rank[q] => p = q
    BY <1>2
  <2> HIDE DEF rank
  <2> QED BY <2>1, <2>2 DEF Injection, IsInjective
<1>4. IsFiniteSet(1 .. N) /\ Cardinality(1 .. N) = N
  BY <1>1, FS_Interval
<1>5. rank \in Surjection(S, 1 .. N)
  <2> HIDE DEF rank
  <2> QED BY <1>3, <1>4, FS_Injection DEF N
<1>6. \A k \in 1 .. N : \E p \in S : RankIn(S, p) = k
  <2>1. \A k \in 1 .. N : \E p \in S : rank[p] = k
    <3> HIDE DEF rank
    <3> QED BY <1>5 DEF Surjection
  <2> QED BY <2>1
<1>7. \A k \in 1 .. N : PlaceIn(S, k) \in S /\ RankIn(S, PlaceIn(S, k)) = k
  BY <1>6 DEF PlaceIn
<1>8. \A p \in S : PlaceIn(S, RankIn(S, p)) = p
  BY <1>1, <1>2, <1>7
<1>9. ASSUME NEW p \in S, NEW q \in S, p < q, \A r \in S : ~(p < r /\ r < q)
      PROVE  RankIn(S, q) = RankIn(S, p) + 1
  <2>1. /\ RankIn(S, p) < RankIn(S, q)
        /\ RankIn(S, p) \in 1 .. N /\ RankIn(S, q) \in 1 .. N
    BY <1>1, <1>9
  <2>2. SUFFICES ASSUME RankIn(S, p) + 1 < RankIn(S, q) PROVE FALSE
    BY <2>1
  <2> DEFINE k == RankIn(S, p) + 1
  <2>6. k \in 1 .. N
    BY <1>1, <2>1, <2>2
  <2>3. PICK r \in S : RankIn(S, r) = k
    <3> HIDE DEF k
    <3> QED BY <1>6, <2>6
  <2>4. ~(r < p) /\ r # p /\ ~(q < r) /\ r # q
    BY <1>1, <2>1, <2>2, <2>3
  <2>5. p < r /\ r < q
    BY <1>0, <2>4
  <2> QED BY <1>9, <2>5
<1> QED BY <1>1, <1>7, <1>8, <1>9 DEF N

LEMMA PickedIs ==
  ASSUME NEW seq, NEW S, Cardinality(S) \in Nat
  PROVE  /\ Len(Picked(seq, S)) = Cardinality(S)
         /\ DOMAIN Picked(seq, S) = 1 .. Cardinality(S)
         /\ \A k \in 1 .. Cardinality(S) : Picked(seq, S)[k] = seq[PlaceIn(S, k)]
<1>1. Picked(seq, S) = [k \in 1 .. Cardinality(S) |-> seq[PlaceIn(S, k)]]
  BY DEF Picked, PlaceIn, RankIn
<1> QED BY <1>1

Retained(cmd) ==
  {i \in 1 .. Len(cmd) :
     \/ cmd[i] # Blank
     \/ /\ i > 1 /\ cmd[i - 1] # Blank
        /\ \E j \in i + 1 .. Len(cmd) : cmd[j] # Blank}

Starts(cmd) == {i \in 1 .. Len(cmd) : cmd[i] # Blank \/ i = 1 \/ cmd[i - 1] = Blank}

\* No argument of a squeezed command is empty, and two words with nothing but blanks
\* between them become neighbours.
LEMMA SqueezedArguments ==
  ASSUME NEW W, NEW cmd \in Seq(W), \A j \in 1 .. Len(cmd) : cmd[j] # NoWord
  PROVE  LET args == Arguments(Squeezed(cmd)) IN
         /\ Len(args) \in Nat /\ \A k \in 1 .. Len(args) : args[k] # NoWord
         /\ \A i, m \in 1 .. Len(cmd) :
              /\ i + 1 < m /\ cmd[i] # Blank /\ cmd[m] # Blank
              /\ \A j \in i + 1 .. m - 1 : cmd[j] = Blank
              => \E k \in 1 .. Len(args) - 1 : args[k] = cmd[i] /\ args[k + 1] = cmd[m]
<1> DEFINE S == Retained(cmd)
           s == Squeezed(cmd)
           at(k) == PlaceIn(S, k)
           rk(p) == RankIn(S, p)
<1>1. /\ Len(cmd) \in Nat
      /\ S \in SUBSET (1 .. Len(cmd)) /\ Cardinality(S) \in Nat
  <2>1. Len(cmd) \in Nat /\ S \in SUBSET (1 .. Len(cmd))
    BY DEF Retained
  <2> HIDE DEF S
  <2> QED BY <2>1, RankGrows
<1>2. /\ Len(s) = Cardinality(S)
      /\ \A k \in 1 .. Len(s) : s[k] = cmd[at(k)] /\ at(k) \in S
  <2>1. s = Picked(cmd, S)
    BY DEF Squeezed, Retained
  <2> HIDE DEF s, S
  <2>2. \A k \in 1 .. Cardinality(S) : at(k) \in S
    BY <1>1, PlacesInOrder
  <2> HIDE DEF at
  <2> QED BY <1>1, <2>1, <2>2, PickedIs DEF at
<1>3. /\ \A p \in S : rk(p) \in 1 .. Len(s) /\ s[rk(p)] = cmd[p] /\ at(rk(p)) = p
      /\ \A p, q \in S : p < q /\ (\A r \in S : ~(p < r /\ r < q)) => rk(q) = rk(p) + 1
  <2> HIDE DEF s, S
  <2> QED BY <1>1, <1>2, PlacesInOrder
<1>4. \A p \in S : /\ p \in 1 .. Len(cmd)
                   /\ cmd[p] = Blank => p - 1 \in S /\ cmd[p - 1] # Blank
  BY <1>1 DEF Retained
<1> HIDE DEF s, S, at, rk
<1>5. ASSUME NEW k \in 1 .. Len(s), s[k] = Blank
      PROVE  k > 1 /\ s[k - 1] # Blank
  <2>1. at(k) \in S /\ cmd[at(k)] = Blank
    BY <1>2, <1>5
  <2>2. at(k) \in Int /\ at(k) - 1 \in S /\ cmd[at(k) - 1] # Blank
    BY <1>4, <2>1
  <2>3. rk(at(k)) = rk(at(k) - 1) + 1
    BY <1>1, <1>3, <2>1, <2>2
  <2>4. rk(at(k)) = k
    BY <1>1, <1>2, PlacesInOrder DEF at, rk
  <2> QED BY <1>1, <1>2, <1>3, <2>2, <2>3, <2>4
<1> DEFINE E == Starts(s)
           a == Picked(s, E)
           args == Arguments(s)
           from(k) == PlaceIn(E, k)
           rank(p) == RankIn(E, p)
<1>6. /\ Len(s) \in Nat
      /\ E \in SUBSET (1 .. Len(s)) /\ Cardinality(E) \in Nat
  <2>1. Len(s) \in Nat /\ E \in SUBSET (1 .. Len(s))
    BY <1>1, <1>2 DEF Starts
  <2> HIDE DEF E
  <2> QED BY <2>1, RankGrows
<1>7. \A p \in 1 .. Len(s) : p \in E <=> s[p] # Blank
  BY <1>5, <1>6 DEF Starts
<1>8. /\ Len(args) = Cardinality(E)
      /\ \A k \in 1 .. Len(args) : args[k] = s[from(k)] /\ from(k) \in E
  <2>1. args = [k \in DOMAIN a |-> IF a[k] = Blank THEN NoWord ELSE a[k]]
    BY DEF Arguments, Starts
  <2> HIDE DEF E, args
  <2>4. \A k \in 1 .. Cardinality(E) : from(k) \in E
    BY <1>6, PlacesInOrder
  <2>2. /\ DOMAIN a = 1 .. Cardinality(E)
        /\ \A k \in 1 .. Cardinality(E) : a[k] = s[from(k)] /\ from(k) \in E
    BY <1>6, <2>4, PickedIs
  <2>3. \A k \in 1 .. Cardinality(E) : a[k] # Blank
    BY <1>6, <1>7, <2>2
  <2> HIDE DEF a, from
  <2> QED BY <1>6, <2>1, <2>2, <2>3
<1>9. /\ \A p \in E : rank(p) \in 1 .. Len(args) /\ args[rank(p)] = s[p]
      /\ \A p, q \in E : p < q /\ (\A r \in E : ~(p < r /\ r < q)) => rank(q) = rank(p) + 1
  <2> HIDE DEF E, a, args
  <2> QED BY <1>6, <1>8, PlacesInOrder
<1> HIDE DEF E, a, args, from, rank
<1>10. \A k \in 1 .. Len(args) : args[k] # NoWord
  BY <1>2, <1>4, <1>6, <1>8
<1>11. ASSUME NEW i \in 1 .. Len(cmd), NEW m \in 1 .. Len(cmd),
              i + 1 < m, cmd[i] # Blank, cmd[m] # Blank,
              \A j \in i + 1 .. m - 1 : cmd[j] = Blank
       PROVE  \E k \in 1 .. Len(args) - 1 : args[k] = cmd[i] /\ args[k + 1] = cmd[m]
  <2>1. i \in S /\ m \in S /\ i + 1 \in S /\ cmd[i + 1] = Blank
    BY <1>1, <1>11 DEF S, Retained
  <2>2. \A r \in S : ~(i + 1 < r /\ r < m)
    <3>1. ASSUME NEW r \in S, i + 1 < r, r < m
          PROVE  FALSE
      <4>1. r \in i + 1 .. m - 1 /\ r - 1 \in i + 1 .. m - 1
        BY <1>4, <3>1
      <4> QED BY <1>4, <1>11, <4>1
    <3> QED BY <3>1
  <2>3. rk(i + 1) = rk(i) + 1
    <3>1. i < i + 1 /\ \A r \in S : ~(i < r /\ r < i + 1)
      BY <1>4
    <3> QED BY <1>3, <2>1, <3>1
  <2>4. rk(m) = rk(i + 1) + 1
    BY <1>1, <1>3, <1>11, <2>1, <2>2
  <2> DEFINE p == rk(i)
  <2>5. /\ p \in 1 .. Len(s) /\ p + 1 \in 1 .. Len(s) /\ p + 2 \in 1 .. Len(s)
        /\ s[p] = cmd[i] /\ s[p + 1] = Blank /\ s[p + 2] = cmd[m]
    <3>1. rk(m) = rk(i) + 2
      BY <1>3, <2>1, <2>3, <2>4, <1>6
    <3> QED BY <1>3, <2>1, <2>3, <3>1
  <2> HIDE DEF p
  <2>6. p \in E /\ p + 2 \in E /\ p + 1 \notin E
    BY <1>7, <1>11, <2>5
  <2>7. rank(p + 2) = rank(p) + 1
    BY <1>6, <1>9, <2>6
  <2>8. /\ rank(p) \in 1 .. Len(args) /\ rank(p + 2) \in 1 .. Len(args)
        /\ args[rank(p)] = cmd[i] /\ args[rank(p + 2)] = cmd[m]
    BY <1>9, <2>5, <2>6
  <2> QED BY <1>6, <1>8, <2>7, <2>8
<1>12. Len(args) \in Nat
  BY <1>6, <1>8
<1> QED BY <1>10, <1>11, <1>12 DEF args, s

\* What a command is made of; the empty argument is none of it.
OwnWords == {Blank, Word("mpirun"), Word("-np"), Word("srun"), Word("--ntasks"),
             Word("--nodes"), Word("--ntasks-per-node"), Word("-i"), Word("-p")}
Items == (Seq(STRING) \ {NoWord}) \cup OwnWords \cup {Number(n) : n \in Int}

LEMMA ItemFacts ==
  /\ OwnWords \subseteq Items
  /\ Word("-i") # Blank /\ Word("-p") # Blank
  /\ \A n \in Int : Number(n) \in Items /\ Number(n) # Blank
  /\ \A text \in Texts : text \in Seq(Items)
  /\ NoWord \notin Items
<1>1. \A w : Word(w) # NoWord
  BY DEF Word, NoWord
<1>2. \A n : Number(n) # NoWord /\ Number(n) # Blank
  <2>1. \A n : Len(Number(n)) = 2
    BY DEF Number
  <2>2. Len(NoWord) = 0 /\ Len(Blank) = 1
    BY DEF NoWord, Blank, Word
  <2> QED BY <2>1, <2>2
<1>3. \A text \in Texts : text \in Seq(Items)
  <2>1. Seq(STRING) \ {NoWord} \subseteq Items
    BY DEF Items
  <2> DEFINE W == Seq(STRING) \ {NoWord}
  <2>2. W \subseteq Items /\ Texts = Seq(W)
    BY <2>1 DEF Texts
  <2> HIDE DEF W
  <2> QED BY <2>2
<1>4. NoWord \notin OwnWords
  BY <1>1 DEF OwnWords, Blank
<1>5. Word("-i") # Blank /\ Word("-p") # Blank
  BY DEF Word, Blank
<1> QED BY <1>2, <1>3, <1>4, <1>5 DEF Items

LEMMA Joined ==
  ASSUME NEW W, NEW a \in Seq(W), NEW b \in Seq(W), NEW c, c = a \o b
  PROVE  /\ c \in Seq(W) /\ Len(c) = Len(a) + Len(b)
         /\ \A i \in 1 .. Len(a) : c[i] = a[i]
         /\ \A i \in 1 .. Len(b) : c[Len(a) + i] = b[i]
  OBVIOUS

\* The command before it is squeezed.
Joint(head, ip, port, path, rest) ==
  head \o <<Blank, Word("-i"), Blank>> \o ip
       \o <<Blank, Word("-p"), Blank, port, Blank>> \o path \o <<Blank>> \o rest

\* Word a is followed by word b.
Adjacent(args, a, b) == \E k \in 1 .. Len(args) - 1 : args[k] = a /\ args[k + 1] = b

NoneEmpty(args) == \A k \in 1 .. Len(args) : args[k] # NoWord

\* Where "-p" and the port stand behind h items and an address of n.
LEMMA PortPlaces ==
  ASSUME NEW h \in Nat, NEW n \in Nat, NEW len \in Nat, len >= h + n + 8
  PROVE  /\ h + n + 5 \in 1 .. len /\ h + n + 7 \in 1 .. len /\ (h + n + 5) + 1 < h + n + 7
         /\ \A j \in (h + n + 5) + 1 .. (h + n + 7) - 1 : j = h + n + 6
  OBVIOUS

\* Its options become neighbours of their arguments.
LEMMA OptionsNeighbour ==
  ASSUME NEW head \in Seq(Items), NEW ip \in Seq(Items), NEW port \in Items, port # Blank,
         NEW path \in Seq(Items), NEW rest \in Seq(Items),
         NEW args, args = Arguments(Squeezed(Joint(head, ip, port, path, rest)))
  PROVE  /\ NoneEmpty(args)
         /\ Adjacent(args, Word("-p"), port)
         /\ \A i \in 1 .. Len(ip) : IsFirstWord(ip, i) => Adjacent(args, Word("-i"), ip[i])
<1> DEFINE A == <<Blank, Word("-i"), Blank>>
           B == <<Blank, Word("-p"), Blank, port, Blank>>
           cmd == Joint(head, ip, port, path, rest)
           h == Len(head)
           n == Len(ip)
           c1 == head \o A
           c2 == c1 \o ip
           c3 == c2 \o B
           c4 == c3 \o path
           c5 == c4 \o <<Blank>>
<1>1. /\ Blank \in Items /\ Word("-i") \in Items /\ Word("-p") \in Items
      /\ Word("-i") # Blank /\ Word("-p") # Blank
  BY ItemFacts DEF OwnWords
<1>2. /\ A \in Seq(Items) /\ Len(A) = 3
      /\ A[1] = Blank /\ A[2] = Word("-i") /\ A[3] = Blank
      /\ B \in Seq(Items) /\ Len(B) = 5
      /\ B[1] = Blank /\ B[2] = Word("-p") /\ B[3] = Blank /\ B[4] = port
      /\ <<Blank>> \in Seq(Items) /\ Len(<<Blank>>) = 1
  BY <1>1
<1>3. h \in Nat /\ n \in Nat /\ Len(path) \in Nat /\ Len(rest) \in Nat
  OBVIOUS
<1>4. cmd = c5 \o rest
  BY DEF Joint
<1>5. c1 = head \o A
  OBVIOUS
<1>6. c2 = c1 \o ip
  OBVIOUS
<1>7. c3 = c2 \o B
  OBVIOUS
<1>8. c4 = c3 \o path
  OBVIOUS
<1>9. c5 = c4 \o <<Blank>>
  OBVIOUS
<1>typed. /\ A \in Seq(Items) /\ B \in Seq(Items)
          /\ <<Blank>> \in Seq(Items) /\ Len(<<Blank>>) = 1
  BY <1>2
<1> HIDE DEF A, B, c1, c2, c3, c4, c5, cmd
<1>10. /\ c1 \in Seq(Items) /\ Len(c1) = h + 3
       /\ \A i \in 1 .. 3 : c1[h + i] = A[i]
  <2>1. /\ c1 \in Seq(Items) /\ Len(c1) = Len(head) + Len(A)
        /\ \A i \in 1 .. Len(A) : c1[Len(head) + i] = A[i]
    BY <1>5, <1>typed, Joined
  <2> QED BY <1>2, <2>1
<1>11. /\ c2 \in Seq(Items) /\ Len(c2) = h + 3 + n
       /\ \A i \in 1 .. h + 3 : c2[i] = c1[i]
       /\ \A i \in 1 .. n : c2[h + 3 + i] = ip[i]
  <2>1. /\ c2 \in Seq(Items) /\ Len(c2) = Len(c1) + Len(ip)
        /\ \A i \in 1 .. Len(c1) : c2[i] = c1[i]
        /\ \A i \in 1 .. Len(ip) : c2[Len(c1) + i] = ip[i]
    <3>1. c1 \in Seq(Items)
      BY <1>10
    <3> QED BY <1>6, <3>1, Joined
  <2> QED BY <1>10, <2>1
<1>12. /\ c3 \in Seq(Items) /\ Len(c3) = h + 3 + n + 5
       /\ \A i \in 1 .. h + 3 + n : c3[i] = c2[i]
       /\ \A i \in 1 .. 5 : c3[h + 3 + n + i] = B[i]
  <2>1. /\ c3 \in Seq(Items) /\ Len(c3) = Len(c2) + Len(B)
        /\ \A i \in 1 .. Len(c2) : c3[i] = c2[i]
        /\ \A i \in 1 .. Len(B) : c3[Len(c2) + i] = B[i]
    <3>1. c2 \in Seq(Items)
      BY <1>11
    <3> QED BY <1>7, <1>typed, <3>1, Joined
  <2> QED BY <1>2, <1>11, <2>1
<1>13. /\ c4 \in Seq(Items) /\ Len(c4) >= h + n + 8
       /\ \A i \in 1 .. h + n + 8 : c4[i] = c3[i]
  <2>1. /\ c4 \in Seq(Items) /\ Len(c4) = Len(c3) + Len(path)
        /\ \A i \in 1 .. Len(c3) : c4[i] = c3[i]
    <3>1. c3 \in Seq(Items)
      BY <1>12
    <3> QED BY <1>8, <3>1, Joined
  <2> HIDE DEF h, n
  <2> QED BY <1>3, <1>12, <2>1
<1>14. /\ c5 \in Seq(Items) /\ Len(c5) >= h + n + 8
       /\ \A i \in 1 .. h + n + 8 : c5[i] = c4[i]
  <2>1. /\ c5 \in Seq(Items) /\ Len(c5) = Len(c4) + 1
        /\ \A i \in 1 .. Len(c4) : c5[i] = c4[i]
    BY <1>9, <1>typed, <1>13, Joined
  <2> HIDE DEF h, n
  <2>2. Len(c5) >= h + n + 8 /\ \A i \in 1 .. h + n + 8 : i \in 1 .. Len(c4)
    BY <1>3, <1>13, <2>1
  <2> QED BY <2>1, <2>2
<1>15. /\ cmd \in Seq(Items) /\ Len(cmd) >= h + n + 8
       /\ \A i \in 1 .. h + n + 8 : cmd[i] = c5[i]
  <2>1. /\ cmd \in Seq(Items) /\ Len(cmd) = Len(c5) + Len(rest)
        /\ \A i \in 1 .. Len(c5) : cmd[i] = c5[i]
    BY <1>4, <1>14, Joined
  <2> HIDE DEF h, n
  <2> QED BY <1>3, <1>14, <2>1
<1> HIDE DEF h, n
<1>16. \A i \in 1 .. h + n + 8 : cmd[i] = c3[i]
  BY <1>13, <1>14, <1>15
<1>17. /\ cmd[h + 2] = Word("-i") /\ cmd[h + 3] = Blank
       /\ \A i \in 1 .. n : cmd[h + 3 + i] = ip[i]
  <2>1. \A i \in 1 .. h + 3 + n : cmd[i] = c2[i]
    <3>1. \A i \in 1 .. h + 3 + n : i \in 1 .. h + n + 8
      BY <1>3
    <3> QED BY <1>12, <1>16, <3>1
  <2>2. \A i \in 1 .. h + 3 : cmd[i] = c1[i]
    BY <1>3, <1>11, <2>1
  <2>3. c1[h + 2] = Word("-i") /\ c1[h + 3] = Blank
    BY <1>2, <1>10
  <2>4. \A i \in 1 .. n : h + 3 + i \in 1 .. h + 3 + n
    BY <1>3
  <2> QED BY <1>3, <1>11, <2>1, <2>2, <2>3, <2>4
<1>18. /\ cmd[h + n + 5] = Word("-p") /\ cmd[h + n + 6] = Blank
       /\ cmd[h + n + 7] = port
  <2>1. \A i \in 1 .. 5 : cmd[h + 3 + n + i] = B[i]
    <3>1. \A i \in 1 .. 5 : h + 3 + n + i \in 1 .. h + n + 8
      BY <1>3
    <3> QED BY <1>12, <1>16, <3>1
  <2>2. /\ cmd[h + 3 + n + 2] = Word("-p") /\ cmd[h + 3 + n + 3] = Blank
        /\ cmd[h + 3 + n + 4] = port
    BY <1>2, <2>1
  <2>3. h + 3 + n + 2 = h + n + 5 /\ h + 3 + n + 3 = h + n + 6 /\ h + 3 + n + 4 = h + n + 7
    BY <1>3
  <2> QED BY <2>2, <2>3
<1>19. \A j \in 1 .. Len(cmd) : cmd[j] # NoWord
  BY <1>15, ItemFacts
<1>20. /\ NoneEmpty(args)
       /\ \A i, m \in 1 .. Len(cmd) :
            /\ i + 1 < m /\ cmd[i] # Blank /\ cmd[m] # Blank
            /\ \A j \in i + 1 .. m - 1 : cmd[j] = Blank
            => Adjacent(args, cmd[i], cmd[m])
  <2> DEFINE a == Arguments(Squeezed(cmd))
  <2>1. /\ \A k \in 1 .. Len(a) : a[k] # NoWord
        /\ \A i, m \in 1 .. Len(cmd) :
             /\ i + 1 < m /\ cmd[i] # Blank /\ cmd[m] # Blank
             /\ \A j \in i + 1 .. m - 1 : cmd[j] = Blank
             => \E k \in 1 .. Len(a) - 1 : a[k] = cmd[i] /\ a[k + 1] = cmd[m]
    BY <1>15, <1>19, SqueezedArguments
  <2>2. args = a
    BY DEF cmd
  <2> HIDE DEF a
  <2>3. NoneEmpty(args)
    BY <2>1, <2>2 DEF NoneEmpty
  <2>4. ASSUME NEW i \in 1 .. Len(cmd), NEW m \in 1 .. Len(cmd),
               i + 1 < m, cmd[i] # Blank, cmd[m] # Blank,
               \A j \in i + 1 .. m - 1 : cmd[j] = Blank
        PROVE  Adjacent(args, cmd[i], cmd[m])
    <3>1. \E k \in 1 .. Len(a) - 1 : a[k] = cmd[i] /\ a[k + 1] = cmd[m]
      BY <2>1, <2>4
    <3> QED BY <3>1, <2>2 DEF Adjacent
  <2> QED BY <2>3, <2>4
<1>21. Adjacent(args, Word("-p"), port)
  <2> DEFINE i == h + n + 5
             m == h + n + 7
  <2>1. /\ i \in 1 .. Len(cmd) /\ m \in 1 .. Len(cmd) /\ i + 1 < m
        /\ \A j \in i + 1 .. m - 1 : j = h + n + 6
    <3>1. Len(cmd) \in Nat /\ Len(cmd) >= h + n + 8
      BY <1>15
    <3> HIDE DEF i, m
    <3>2. i = h + n + 5 /\ m = h + n + 7
      BY DEF i, m
    <3> QED BY <1>3, <3>1, <3>2, PortPlaces
  <2>2. cmd[i] = Word("-p") /\ cmd[m] = port /\ \A j \in i + 1 .. m - 1 : cmd[j] = Blank
    BY <1>18, <2>1
  <2> HIDE DEF i, m
  <2>3. cmd[i] # Blank /\ cmd[m] # Blank
    BY <1>1, <2>2
  <2>4. Adjacent(args, cmd[i], cmd[m])
    BY <1>20, <2>1, <2>2, <2>3
  <2> QED BY <2>2, <2>4
<1>22. ASSUME NEW f \in 1 .. Len(ip), IsFirstWord(ip, f)
       PROVE  Adjacent(args, Word("-i"), ip[f])
  <2> DEFINE i == h + 2
             m == h + 3 + f
  <2>1. f \in 1 .. n /\ ip[f] # Blank /\ \A j \in 1 .. f - 1 : ip[j] = Blank
    BY <1>22 DEF IsFirstWord, n
  <2>2. i \in 1 .. Len(cmd) /\ m \in 1 .. Len(cmd) /\ i + 1 < m
    BY <1>3, <1>15, <2>1
  <2>3. ASSUME NEW j \in i + 1 .. m - 1 PROVE cmd[j] = Blank
    <3>1. CASE j = h + 3
      BY <3>1, <1>17
    <3>2. CASE j # h + 3
      <4> DEFINE l == j - (h + 3)
      <4>1. l \in 1 .. f - 1 /\ l \in 1 .. n /\ h + 3 + l = j
        BY <3>2, <1>3, <2>1
      <4> HIDE DEF l
      <4> QED BY <4>1, <1>17, <2>1
    <3> QED BY <3>1, <3>2
  <2>4. cmd[i] = Word("-i") /\ cmd[m] = ip[f]
    BY <1>17, <2>1
  <2> HIDE DEF i, m
  <2>5. cmd[i] # Blank /\ cmd[m] # Blank
    BY <1>1, <2>1, <2>4
  <2>6. Adjacent(args, cmd[i], cmd[m])
    BY <1>20, <2>2, <2>3, <2>5
  <2> QED BY <2>4, <2>6
<1> QED BY <1>20, <1>21, <1>22

-----------------------------------------------------------------------------
(* Types, and the command that is launched. *)

Counts == {-1} \cup 1 .. IntMax
PortNumbers == -1 .. MaxPort

\* What the members of the dialog can be.
Members ==
  [launcher : Launchers \cup {"none"}, launcher_args : Texts,
   number_of_processes : Counts, processes_per_node : Int,
   num_nodes : Int, ip_address : Texts, base_port : PortNumbers, slave_path : Texts,
   target_path : Texts, target_args : Texts, ssh : BOOLEAN, ssh_address : Texts,
   ssh_user : Texts, ssh_password : Seq(Bytes)]

LEMMA MembersFields ==
  ASSUME NEW m \in Members
  PROVE  /\ DOMAIN m = Fields
         /\ m.number_of_processes \in {-1} \cup 1 .. IntMax
         /\ m.base_port \in -1 .. MaxPort
<1>1. m = [launcher |-> m.launcher, launcher_args |-> m.launcher_args,
           number_of_processes |-> m.number_of_processes,
           processes_per_node |-> m.processes_per_node, num_nodes |-> m.num_nodes,
           ip_address |-> m.ip_address, base_port |-> m.base_port,
           slave_path |-> m.slave_path, target_path |-> m.target_path,
           target_args |-> m.target_args, ssh |-> m.ssh,
           ssh_address |-> m.ssh_address, ssh_user |-> m.ssh_user,
           ssh_password |-> m.ssh_password]
  BY DEF Members
<1>2. DOMAIN m = Fields
  BY <1>1 DEF Fields, Cleared
<1>3. m.number_of_processes \in Counts /\ m.base_port \in PortNumbers
  BY DEF Members
<1>4. m.number_of_processes \in {-1} \cup 1 .. IntMax
  BY <1>3, Zenon DEF Counts
<1>5. m.base_port \in -1 .. MaxPort
  BY <1>3, Zenon DEF PortNumbers
<1> QED BY <1>2, <1>4, <1>5, Zenon

LEMMA NumbersType ==
  ASSUME NEW m \in Members
  PROVE  m.number_of_processes \in Int /\ m.base_port \in Int
<1>1. \A n \in {-1} : n \in Int
  OBVIOUS
<1>2. \A n \in 1 .. IntMax : n \in Int
  OBVIOUS
<1>3. \A n \in -1 .. MaxPort : n \in Int
  <2>1. MaxPort \in Int
    BY DEF MaxPort
  <2> QED BY <2>1
<1>4. m.number_of_processes \in {-1} \cup 1 .. IntMax
  BY MembersFields, Zenon
<1>5. m.base_port \in -1 .. MaxPort
  BY MembersFields, Zenon
<1>6. m.number_of_processes \in Int
  BY <1>1, <1>2, <1>4, Zenon
<1> QED BY <1>3, <1>5, <1>6, Zenon

LEMMA ReadValuesType ==
  ASSUME NEW w \in Dialogs
  PROVE  ReadValues(w) \in Members
<1> DEFINE n1 == ReadNumber(w.number_of_processes, 1, IntMax)
           n2 == ReadNumber(w.processes_per_node, 1, IntMax)
           n3 == ReadNumber(w.num_nodes, 1, IntMax)
           n4 == ReadNumber(w.base_port, 0, MaxPort)
           m == ReadValues(w)
<1>1. /\ n1 \in Counts /\ n2 \in Int /\ n3 \in Int /\ n4 \in PortNumbers
  <2>1. /\ w.number_of_processes \in NumberTexts /\ w.processes_per_node \in NumberTexts
        /\ w.num_nodes \in NumberTexts /\ w.base_port \in NumberTexts
    BY DEF Dialogs
  <2>2. IntMax \in Nat /\ MaxPort \in Nat
    BY StartupAssumption DEF MaxPort
  <2>3. /\ n1 \in Int /\ (n1 = -1 \/ (1 <= n1 /\ n1 <= IntMax))
        /\ n2 \in Int /\ n3 \in Int
        /\ n4 \in Int /\ (n4 = -1 \/ (0 <= n4 /\ n4 <= MaxPort))
    BY <2>1, <2>2, ReadNumberType
  <2> HIDE DEF n1, n2, n3, n4
  <2> QED BY <2>2, <2>3 DEF Counts, PortNumbers
<1>2. m = [w EXCEPT !.number_of_processes = n1, !.processes_per_node = n2,
                    !.num_nodes = n3, !.base_port = n4]
  BY DEF ReadValues, ReadPort, Dialogs
<1>3. w = [launcher |-> w.launcher, launcher_args |-> w.launcher_args,
           number_of_processes |-> w.number_of_processes,
           processes_per_node |-> w.processes_per_node, num_nodes |-> w.num_nodes,
           ip_address |-> w.ip_address, base_port |-> w.base_port,
           slave_path |-> w.slave_path, target_path |-> w.target_path,
           target_args |-> w.target_args, ssh |-> w.ssh,
           ssh_address |-> w.ssh_address, ssh_user |-> w.ssh_user,
           ssh_password |-> w.ssh_password]
  BY DEF Dialogs
<1> HIDE DEF n1, n2, n3, n4, m
<1>4. m = [launcher |-> w.launcher, launcher_args |-> w.launcher_args,
           number_of_processes |-> n1, processes_per_node |-> n2, num_nodes |-> n3,
           ip_address |-> w.ip_address, base_port |-> n4,
           slave_path |-> w.slave_path, target_path |-> w.target_path,
           target_args |-> w.target_args, ssh |-> w.ssh,
           ssh_address |-> w.ssh_address, ssh_user |-> w.ssh_user,
           ssh_password |-> w.ssh_password]
  BY <1>2, <1>3
<1>5. m \in Members
  BY <1>1, <1>4 DEF Dialogs, Members
<1> QED BY <1>5 DEF m

\* The name of the launcher and what follows it up to the options of the slave.
LEMMA HeadType ==
  ASSUME NEW m \in Members
  PROVE  Launcher(m) \o <<Blank>> \o m.launcher_args \o <<Blank>> \o m.slave_path \in Seq(Items)
<1>1. m.launcher_args \in Seq(Items) /\ m.slave_path \in Seq(Items) /\ <<Blank>> \in Seq(Items)
  BY ItemFacts DEF Members, OwnWords
<1>2. \A n \in Int : Number(n) \in Items
  BY ItemFacts
<1>3. /\ Word("mpirun") \in Items /\ Word("-np") \in Items /\ Blank \in Items
      /\ Word("srun") \in Items /\ Word("--ntasks") \in Items /\ Word("--nodes") \in Items
      /\ Word("--ntasks-per-node") \in Items
  BY ItemFacts DEF OwnWords
<1>4. ASSUME NEW o, Word(o) \in Items, NEW n \in Int
      PROVE  Given(o, n) \in Seq(Items)
  BY <1>2, <1>3, <1>4 DEF Given
<1>5. /\ m.number_of_processes \in Int /\ m.num_nodes \in Int /\ m.processes_per_node \in Int
  BY NumbersType DEF Members
<1>6. Launcher(m) \in Seq(Items)
  <2> DEFINE np == Number(m.number_of_processes)
             g1 == Given("--nodes", m.num_nodes)
             g2 == Given("--ntasks-per-node", m.processes_per_node)
             mpirun == <<Word("mpirun"), Blank, Word("-np"), Blank, np>>
             srun == <<Word("srun"), Blank, Word("--ntasks"), Blank, np>>
  <2>1. np \in Items /\ g1 \in Seq(Items) /\ g2 \in Seq(Items)
    <3>1. np \in Items
      BY <1>2, <1>5
    <3>2. g1 \in Seq(Items)
      BY <1>3, <1>4, <1>5, Zenon
    <3>3. g2 \in Seq(Items)
      BY <1>3, <1>4, <1>5, Zenon
    <3> QED BY <3>1, <3>2, <3>3
  <2>2. mpirun \in Seq(Items) /\ srun \in Seq(Items)
    <3> HIDE DEF np
    <3> QED BY <2>1, <1>3
  <2>3. Launcher(m) = IF m.launcher = "mpirun" THEN mpirun ELSE srun \o g1 \o g2
    BY DEF Launcher
  <2> HIDE DEF np, g1, g2, mpirun, srun
  <2> QED BY <2>1, <2>2, <2>3
<1> DEFINE l == Launcher(m)
           b == <<Blank>>
<1> HIDE DEF l, b
<1>7. l \o b \o m.launcher_args \o b \o m.slave_path \in Seq(Items)
  BY <1>1, <1>6 DEF l, b
<1> QED BY <1>7 DEF l, b

\* The variables but widgets and members.
Typed ==
  /\ pc \in {"dialog", "servers", "slaves", "ssh_connect", "ssh_known", "ssh_auth",
             "channel_new", "channel_open", "channel_exec", "ssh_release",
             "end_slaves", "gui", "returned"}
  /\ acts \in 0 .. MaxActs
  /\ is_valid \in BOOLEAN /\ ret \in BOOLEAN
  /\ listening \in {"none", "some", "all"} /\ launched \in {"no", "local", "ssh"}
  /\ session \in {"none", "allocated", "connected", "freed"}
  /\ channel \in {"none", "allocated", "open", "freed"}

\* Wherever main is: a command is launched only once every port is listened on, and it is
\* that of the members, which no longer change.
Launch ==
  /\ Typed
  /\ members \in Members
  /\ pc \in {"dialog", "servers"} => launched = "no"
  /\ pc \notin {"dialog", "servers", "returned"} => listening = "all"
  /\ launched # "no" => listening = "all" /\ argv = Arguments(get_cmd(members))

LEMMA LaunchInit == Init => Launch
<1> SUFFICES ASSUME Init PROVE Launch
  OBVIOUS
<1>1. members \in Members
  <2> DEFINE m == ReadValues(Cleared)
  <2>1. m \in Members
    BY StartType, ReadValuesType
  <2>2. members = [m EXCEPT !.launcher = "none"]
    BY DEF Init
  <2> HIDE DEF m
  <2>3. "none" \in Launchers \cup {"none"}
    OBVIOUS
  <2> QED BY <2>1, <2>2, <2>3 DEF Members
<1>2. Typed
  <2>1. 0 \in 0 .. MaxActs
    BY StartupAssumption
  <2>2. /\ pc = "dialog" /\ acts = 0 /\ is_valid = FALSE /\ ret = TRUE
        /\ listening = "none" /\ launched = "no" /\ session = "none" /\ channel = "none"
    BY DEF Init
  <2> QED BY <2>1, <2>2 DEF Typed
<1> QED BY <1>1, <1>2 DEF Init, Launch

LEMMA LaunchNext == Launch /\ Kept /\ [Next]_vars => Launch'
<1> SUFFICES ASSUME Launch, Kept, [Next]_vars PROVE Launch'
  OBVIOUS
<1>1. ASSUME members' = ReadValues(widgets) PROVE members' \in Members
  BY <1>1, ReadValuesType DEF Kept
<1>2. ASSUME UserActs, members' = members \/ members' = ReadValues(widgets)
      PROVE  Launch'
  <2>1. members' \in Members
    BY <1>1, <1>2 DEF Launch
  <2>2. acts' \in 0 .. MaxActs
    <3>1. acts \in 0 .. MaxActs /\ acts < MaxActs /\ acts' = acts + 1 /\ MaxActs \in Nat
      BY <1>2, StartupAssumption DEF UserActs, Launch, Typed
    <3> QED BY <3>1
  <2> QED BY <1>2, <2>1, <2>2 DEF UserActs, Launch, Typed
<1>3. CASE Edit \/ ClearAll \/ ReadConfig
  <2>1. UserActs /\ UNCHANGED members
    BY <1>3 DEF Edit, ClearAll, ReadConfig
  <2> QED BY <1>2, <2>1
<1>4. CASE ExportConfig
  <2>1. UserActs /\ members' = ReadValues(widgets)
    BY <1>4 DEF ExportConfig
  <2> QED BY <1>2, <2>1
<1>5. CASE PressOk
  <2>1. members' \in Members
    BY <1>1, <1>5 DEF PressOk
  <2>2. is_valid' \in BOOLEAN
    BY <1>5 DEF PressOk, Valid
  <2>3. pc = "dialog" /\ pc' \in {"servers", "dialog"}
    BY <1>5 DEF PressOk
  <2>4. UNCHANGED <<acts, listening, ret, launched, argv, session, channel>>
    BY <1>5 DEF PressOk
  <2> QED BY <2>1, <2>2, <2>3, <2>4 DEF Launch, Typed
<1>6. ASSUME UNCHANGED dialogVars
      PROVE  UNCHANGED <<acts, members, is_valid>>
  BY <1>6 DEF dialogVars
<1>7. CASE CloseDialog
  BY <1>6, <1>7 DEF CloseDialog, Launch, Typed
<1>8. CASE StartServers
  BY <1>6, <1>8 DEF StartServers, Launch, Typed
<1>9. CASE StartSlaves
  BY <1>6, <1>9 DEF StartSlaves, Launch, Typed
<1>10. CASE SshConnect
  BY <1>6, <1>10 DEF SshConnect, SshCall, SshFails, Launch, Typed
<1>11. CASE SshChecks
  BY <1>6, <1>11 DEF SshChecks, SshCall, SshFails, Launch, Typed
<1>12. CASE RunCmd
  BY <1>6, <1>12 DEF RunCmd, SshCall, SshFails, Freed, Launch, Typed
<1>13. CASE SshRelease
  BY <1>6, <1>13 DEF SshRelease, Launch, Typed
<1>14. CASE EndSlaves
  BY <1>6, <1>14 DEF EndSlaves, Launch, Typed
<1>15. CASE StartGui
  BY <1>6, <1>15 DEF StartGui, Launch, Typed
<1>16. CASE UNCHANGED vars
  BY <1>16 DEF vars, Launch, Typed
<1> QED BY <1>3, <1>4, <1>5, <1>7, <1>8, <1>9, <1>10, <1>11, <1>12, <1>13, <1>14, <1>15,
           <1>16 DEF Next

\* Every variable keeps to its type, every number that was read to its range, whatever
\* the user enters and reads from files (StartupDialog, main).
THEOREM TypeCorrect == Spec => []TypeOK
<1>1. Kept /\ Launch => TypeOK
  <2> SUFFICES ASSUME Kept, Launch PROVE TypeOK
    OBVIOUS
  <2>0. members \in Members
    BY DEF Launch
  <2>1. /\ DOMAIN members = Fields
        /\ members.number_of_processes \in {-1} \cup 1 .. IntMax
        /\ members.base_port \in -1 .. MaxPort
    BY <2>0, MembersFields, Zenon
  <2> QED BY <2>1, Zenon DEF Kept, Launch, Typed, TypeOK
<1> QED BY <1>1, KeptInit, KeptNext, LaunchInit, LaunchNext, PTL DEF Spec

LEMMA LaunchFindsMaster == Launch => SlavesFindMaster
<1> SUFFICES ASSUME Launch, launched # "no"
             PROVE  /\ listening = "all"
                    /\ members.launcher # "custom" =>
                         /\ Follows("-p", Number(members.base_port))
                         /\ \A i \in 1 .. Len(members.ip_address) :
                              IsFirstWord(members.ip_address, i) =>
                                Follows("-i", members.ip_address[i])
                         /\ \A i \in 1 .. Len(argv) : argv[i] # NoWord
  BY DEF SlavesFindMaster
<1>1. listening = "all" /\ argv = Arguments(get_cmd(members)) /\ members \in Members
  BY DEF Launch
<1>2. ASSUME members.launcher # "custom"
      PROVE  /\ Follows("-p", Number(members.base_port))
             /\ \A i \in 1 .. Len(members.ip_address) :
                  IsFirstWord(members.ip_address, i) =>
                    Follows("-i", members.ip_address[i])
             /\ \A i \in 1 .. Len(argv) : argv[i] # NoWord
  <2> DEFINE head == Launcher(members) \o <<Blank>> \o members.launcher_args
                     \o <<Blank>> \o members.slave_path
             ip == members.ip_address
             port == Number(members.base_port)
             path == members.target_path
             rest == members.target_args
  <2>1. get_cmd(members) = Squeezed(Joint(head, ip, port, path, rest))
    BY <1>2 DEF get_cmd, Joint
  <2>2. head \in Seq(Items)
    BY <1>1, HeadType
  <2>3. /\ ip \in Seq(Items) /\ path \in Seq(Items) /\ rest \in Seq(Items)
        /\ port \in Items /\ port # Blank
    <3>1. ip \in Texts /\ path \in Texts /\ rest \in Texts
      BY <1>1 DEF Members
    <3>2. members.base_port \in Int
      BY <1>1, NumbersType
    <3> QED BY <3>1, <3>2, ItemFacts
  <2> HIDE DEF head, ip, port, path, rest
  <2>4. argv = Arguments(Squeezed(Joint(head, ip, port, path, rest)))
    BY <1>1, <2>1
  <2>5. /\ NoneEmpty(argv)
        /\ Adjacent(argv, Word("-p"), port)
        /\ \A i \in 1 .. Len(ip) : IsFirstWord(ip, i) => Adjacent(argv, Word("-i"), ip[i])
    BY <2>2, <2>3, <2>4, OptionsNeighbour
  <2> QED BY <2>5 DEF NoneEmpty, Adjacent, Follows, ip, port
<1> QED BY <1>1, <1>2

\* The slaves that are launched find their master, for every text in every field, every
\* number of blanks in it, and whichever way they are launched (start_servers, get_cmd,
\* start_slaves_local, start_slaves_ssh).
THEOREM LaunchedSlavesFindMaster == Spec => []SlavesFindMaster
  BY KeptInit, KeptNext, LaunchInit, LaunchNext, LaunchFindsMaster, PTL DEF Spec
=============================================================================
