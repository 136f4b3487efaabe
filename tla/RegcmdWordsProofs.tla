------------------------- MODULE RegcmdWordsProofs -------------------------
(***************************************************************************)
(* What the NPU takes a register command for is what the macro was given,  *)
(* as long as every part fits its place; and what becomes of a register    *)
(* number of 17 bits, such as npu_matmul_mesa.c has for the DPU.           *)
(***************************************************************************)
EXTENDS RegcmdWords, TLAPS

(* A bit is in a shifted word where it was in the word before.             *)
LEMMA ShiftedBits ==
  ASSUME NEW n \in Nat, NEW word \in SUBSET Nat, NEW i \in Nat
  PROVE  /\ i \in Shl(word, n) <=> i - n \in word
         /\ i \in Shr(word, n) <=> i + n \in word
<1>1. i \in Shl(word, n) <=> i - n \in word
  BY DEF Shl
<1>2. i \in Shr(word, n) => i + n \in word
  BY DEF Shr
<1>3. ASSUME i + n \in word
      PROVE  i \in Shr(word, n)
  <2>1. i + n \in {j \in word : j >= n} /\ i = (i + n) - n
    BY <1>3
  <2>2. QED
    BY <2>1 DEF Shr
<1>4. QED
  BY <1>1, <1>2, <1>3

LEMMA ShiftedWords ==
  ASSUME NEW n \in Nat, NEW word \in SUBSET Nat
  PROVE  Shl(word, n) \subseteq Nat /\ Shr(word, n) \subseteq Nat
BY DEF Shl, Shr

(* Three parts that fit their places are found there again.                *)
LEMMA PartsApart ==
  ASSUME NEW op \in SUBSET Low(16), NEW value \in SUBSET Low(32), NEW reg \in SUBSET Low(16),
         NEW cmd, cmd = Shl(op, 48) \cup Shl(value, 16) \cup reg
  PROVE  TargetOf(cmd) = op /\ ValueOf(cmd) = value /\ RegOf(cmd) = reg
<1>1. op \in SUBSET Nat /\ value \in SUBSET Nat /\ reg \in SUBSET Nat
  BY DEF Low
<1>2. cmd \in SUBSET Nat
  BY <1>1, ShiftedWords
<1>3. ASSUME NEW i \in Nat
      PROVE  i \in cmd <=> i - 48 \in op \/ i - 16 \in value \/ i \in reg
  BY <1>1, ShiftedBits
<1>4. TargetOf(cmd) = op
  <2>1. TargetOf(cmd) \subseteq Nat
    BY <1>2, ShiftedWords DEF TargetOf
  <2>2. ASSUME NEW i \in Nat
        PROVE  i \in TargetOf(cmd) <=> i \in op
    <3>1. i \in TargetOf(cmd) <=> i + 48 \in cmd
      BY <1>2, ShiftedBits DEF TargetOf
    <3>2. i + 48 \in cmd <=> i \in op \/ i + 32 \in value \/ i + 48 \in reg
      BY <1>3
    <3>3. i + 32 \notin value /\ i + 48 \notin reg
      BY DEF Low
    <3>4. QED
      BY <3>1, <3>2, <3>3
  <2>3. QED
    BY <1>1, <2>1, <2>2
<1>5. ValueOf(cmd) = value
  <2>1. ASSUME NEW i \in Low(32)
        PROVE  i \in ValueOf(cmd) <=> i \in value
    <3>1. i \in Nat
      BY DEF Low
    <3>2. i \in Shr(cmd, 16) <=> i + 16 \in cmd
      BY <1>2, <3>1, ShiftedBits
    <3>3. i + 16 \in cmd <=> i - 32 \in op \/ i \in value \/ i + 16 \in reg
      BY <1>3, <3>1
    <3>4. i - 32 \notin op /\ i + 16 \notin reg
      BY DEF Low
    <3>5. QED
      BY <3>2, <3>3, <3>4 DEF ValueOf
  <2>2. ValueOf(cmd) \subseteq Low(32)
    BY DEF ValueOf
  <2>3. QED
    BY <2>1, <2>2
<1>6. RegOf(cmd) = reg
  <2>1. ASSUME NEW i \in Low(16)
        PROVE  i \in cmd <=> i \in reg
    <3>1. i - 48 \notin op /\ i - 16 \notin value
      BY DEF Low
    <3>2. QED
      BY <1>3, <3>1 DEF Low
  <2>2. QED
    BY <2>1 DEF RegOf
<1>7. QED
  BY <1>4, <1>5, <1>6

(* Words, and what is left of them when they are cut.                      *)
IsWord(x) == x \in SUBSET Nat
Cut(word, width) == word \cap Low(width)

(* NPUOP's three parts do not reach into each other.                       *)
LEMMA CommandParts ==
  ASSUME NEW op \in SUBSET Nat, NEW value \in SUBSET Nat, NEW reg \in SUBSET Nat
  PROVE  /\ TargetOf(NPUOP(op, value, reg)) = Cut(op, 16)
         /\ ValueOf(NPUOP(op, value, reg)) = Cut(value, 32)
         /\ RegOf(NPUOP(op, value, reg)) = Cut(reg, 16)
<1> DEFINE cmd == NPUOP(op, value, reg)
           o == Cut(op, 16)
           v == Cut(value, 32)
           r == Cut(reg, 16)
<1>1. o \in SUBSET Low(16) /\ v \in SUBSET Low(32) /\ r \in SUBSET Low(16)
  BY DEF Cut
<1>2. cmd = Shl(o, 48) \cup Shl(v, 16) \cup r
  BY DEF NPUOP, Cut
<1> HIDE DEF cmd, o, v, r
<1>3. TargetOf(cmd) = o /\ ValueOf(cmd) = v /\ RegOf(cmd) = r
  BY <1>1, <1>2, PartsApart
<1>4. QED
  BY <1>3 DEF cmd, o, v, r

(* The same, for words that are known to be words and cut elsewhere.       *)
LEMMA CommandCut ==
  \A op, value, reg : IsWord(op) /\ IsWord(value) /\ IsWord(reg) =>
    /\ TargetOf(NPUOP(op, value, reg)) = Cut(op, 16)
    /\ ValueOf(NPUOP(op, value, reg)) = Cut(value, 32)
    /\ RegOf(NPUOP(op, value, reg)) = Cut(reg, 16)
<1> SUFFICES ASSUME NEW op, NEW value, NEW reg, IsWord(op), IsWord(value), IsWord(reg)
             PROVE  /\ TargetOf(NPUOP(op, value, reg)) = Cut(op, 16)
                    /\ ValueOf(NPUOP(op, value, reg)) = Cut(value, 32)
                    /\ RegOf(NPUOP(op, value, reg)) = Cut(reg, 16)
  OBVIOUS
<1>1. op \in SUBSET Nat /\ value \in SUBSET Nat /\ reg \in SUBSET Nat
  BY DEF IsWord
<1>2. QED
  BY <1>1, CommandParts, Zenon

(* Whatever numbers a command is made of with NPUOP, the NPU is given the  *)
(* low bits of each and nothing of one part reaches another.               *)
THEOREM HardwareGetsItsParts ==
  ASSUME NEW op \in SUBSET Nat, NEW value \in SUBSET Nat, NEW reg \in SUBSET Nat
  PROVE  LET cmd == NPUOP(op, value, reg) IN
         /\ TargetOf(cmd) = op \cap Low(16)
         /\ ValueOf(cmd) = value \cap Low(32)
         /\ RegOf(cmd) = reg \cap Low(16)
<1> DEFINE cmd == NPUOP(op, value, reg)
<1>1. TargetOf(cmd) = Cut(op, 16) /\ ValueOf(cmd) = Cut(value, 32) /\ RegOf(cmd) = Cut(reg, 16)
  BY CommandParts, Zenon
<1> HIDE DEF cmd
<1>2. QED
  BY <1>1, Zenon DEF Cut, cmd

(* A register number of 17 bits is one of 16 and a value with bit 0 set.    *)
LEMMA SeventeenthBitMoves ==
  ASSUME NEW target \in SUBSET Low(16), NEW value \in SUBSET Low(32),
             NEW reg \in SUBSET Low(17),
         NEW v, \A i \in Nat : i \in v <=> i \in value \/ (i = 0 /\ 16 \in reg),
         v \in SUBSET Low(32),
         NEW r, r = reg \cap Low(16)
  PROVE  MESA_REGCMD(target, value, reg) = Shl(target, 48) \cup Shl(v, 16) \cup r
<1> DEFINE cmd == MESA_REGCMD(target, value, reg)
<1>1. target \in SUBSET Nat /\ value \in SUBSET Nat /\ v \in SUBSET Nat /\ reg \in SUBSET Nat
  BY DEF Low
<1>2. ASSUME NEW i \in Nat
      PROVE  i \in cmd <=> i \in Shl(target, 48) \cup Shl(v, 16) \cup r
  <2>1. i \in cmd <=> i \in Low(64) /\ (i - 48 \in target \/ i - 16 \in value \/ i \in reg)
    BY <1>1, ShiftedBits DEF MESA_REGCMD
  <2>2. i - 48 \in target \/ i - 16 \in value \/ i \in reg => i \in Low(64)
    BY DEF Low
  <2>3. i \in reg <=> i \in r \/ (i = 16 /\ 16 \in reg)
    BY DEF Low
  <2>4. i - 16 \in v <=> i - 16 \in value \/ (i = 16 /\ 16 \in reg)
    BY <1>1
  <2>5. i \in Shl(target, 48) \cup Shl(v, 16) \cup r
          <=> i - 48 \in target \/ i - 16 \in v \/ i \in r
    BY <1>1, ShiftedBits
  <2>6. QED
    BY <2>1, <2>2, <2>3, <2>4, <2>5
<1>3. cmd \subseteq Nat /\ Shl(target, 48) \cup Shl(v, 16) \cup r \subseteq Nat
  BY <1>1, ShiftedWords DEF MESA_REGCMD, Low
<1>4. QED
  BY <1>2, <1>3

(* MESA_REGCMD with a register number of 17 bits: the NPU is given the low *)
(* 16, and the last bit sets bit 0 of the value, whatever the value is.  A *)
(* DPU register of npu_matmul_mesa.c cannot be written with an even value, *)
(* and its DPU is not disabled by the command that is meant to.            *)
THEOREM SeventeenthBitSetsValue ==
  \A target \in SUBSET Low(16), value \in SUBSET Low(32), reg \in SUBSET Low(17) :
    /\ TargetOf(MESA_REGCMD(target, value, reg)) = target
    /\ ValueOf(MESA_REGCMD(target, value, reg)) = value \cup (IF 16 \in reg THEN {0} ELSE {})
    /\ RegOf(MESA_REGCMD(target, value, reg)) = reg \cap Low(16)
<1> SUFFICES ASSUME NEW t \in SUBSET Low(16), NEW w \in SUBSET Low(32), NEW x \in SUBSET Low(17)
             PROVE  /\ TargetOf(MESA_REGCMD(t, w, x)) = t
                    /\ ValueOf(MESA_REGCMD(t, w, x)) = w \cup (IF 16 \in x THEN {0} ELSE {})
                    /\ RegOf(MESA_REGCMD(t, w, x)) = x \cap Low(16)
  OBVIOUS
<1>1. PICK v : v = w \cup (IF 16 \in x THEN {0} ELSE {})
  OBVIOUS
<1>2. PICK r : r = x \cap Low(16)
  OBVIOUS
<1>3. PICK c : c = MESA_REGCMD(t, w, x)
  OBVIOUS
<1>4. v \in SUBSET Low(32) /\ r \in SUBSET Low(16)
  BY <1>1, <1>2 DEF Low
<1>5. c = Shl(t, 48) \cup Shl(v, 16) \cup r
  <2>1. \A i \in Nat : i \in v <=> i \in w \/ (i = 0 /\ 16 \in x)
    BY <1>1
  <2>2. QED
    BY <1>2, <1>3, <1>4, <2>1, SeventeenthBitMoves
<1>6. TargetOf(c) = t /\ ValueOf(c) = v /\ RegOf(c) = r
  BY <1>4, <1>5, PartsApart
<1>7. QED
  BY <1>1, <1>2, <1>3, <1>6

(* An int of 32 bits that is not negative is the same as a uint64_t.       *)
LEMMA NotNegative == \A int : 31 \notin int => Uint64(int) = int
BY DEF Uint64

(* MESA_REGCMD with a negative int: whatever target it is given, the NPU   *)
(* gets the target 0xFFFF, of which npu_matmul_mesa.c means none.          *)
THEOREM NegativeTakesTarget ==
  ASSUME NEW target \in SUBSET Low(16), NEW int \in SUBSET Low(32), NEW reg \in SUBSET Low(17),
         31 \in int
  PROVE  TargetOf(MESA_REGCMD(target, Uint64(int), reg)) = Low(16)
<1> DEFINE cmd == MESA_REGCMD(target, Uint64(int), reg)
<1>1. target \in SUBSET Nat /\ Uint64(int) \in SUBSET Nat /\ reg \in SUBSET Nat
  <2>1. target \in SUBSET Nat /\ int \in SUBSET Nat /\ reg \in SUBSET Nat
    BY DEF Low
  <2>2. {i \in 32..63 : 31 \in int} \subseteq Nat
    OBVIOUS
  <2> QED
    BY <2>1, <2>2 DEF Uint64
<1>2. cmd \in SUBSET Low(64) /\ cmd \in SUBSET Nat
  BY DEF MESA_REGCMD, Low
<1>3. TargetOf(cmd) \subseteq Nat
  BY <1>2, ShiftedWords DEF TargetOf
<1>4. ASSUME NEW i \in Nat
      PROVE  i \in TargetOf(cmd) <=> i \in Low(16)
  <2>1. i \in TargetOf(cmd) <=> i + 48 \in cmd
    BY <1>2, ShiftedBits DEF TargetOf
  <2>2. i + 48 \in Low(64) <=> i \in Low(16)
    BY DEF Low
  <2>3. i \in Low(16) => i + 32 \in Uint64(int)
    BY DEF Low, Uint64
  <2>4. i + 48 \in Shl(Uint64(int), 16) <=> i + 32 \in Uint64(int)
    BY <1>1, ShiftedBits
  <2>5. i \in Low(16) => i + 48 \in cmd
    BY <2>2, <2>3, <2>4 DEF MESA_REGCMD
  <2> QED
    BY <1>2, <2>1, <2>2, <2>5
<1>5. Low(16) \subseteq Nat
  BY DEF Low
<1> HIDE DEF cmd
<1>6. TargetOf(cmd) = Low(16)
  BY <1>3, <1>4, <1>5
<1> QED
  BY <1>6 DEF cmd

-----------------------------------------------------------------------------
(* Numbers and their bits.                                                 *)

Power == [k \in 0..30 |-> 2^k]

(* Powers of two, by table: 2^k for numbers of 31 bits.                    *)
LEMMA PowerTable ==
  /\ Power[0] = 1 /\ Power[1] = 2 /\ Power[2] = 4 /\ Power[3] = 8 /\ Power[4] = 16
  /\ Power[5] = 32 /\ Power[6] = 64 /\ Power[7] = 128 /\ Power[8] = 256 /\ Power[9] = 512
  /\ Power[10] = 1024 /\ Power[11] = 2048 /\ Power[12] = 4096 /\ Power[13] = 8192
  /\ Power[14] = 16384 /\ Power[15] = 32768 /\ Power[16] = 65536 /\ Power[17] = 131072
  /\ Power[18] = 262144 /\ Power[19] = 524288 /\ Power[20] = 1048576 /\ Power[21] = 2097152
  /\ Power[22] = 4194304 /\ Power[23] = 8388608 /\ Power[24] = 16777216 /\ Power[25] = 33554432
  /\ Power[26] = 67108864 /\ Power[27] = 134217728 /\ Power[28] = 268435456
  /\ Power[29] = 536870912 /\ Power[30] = 1073741824
BY DEF Power

LEMMA BitPlaces ==
  \A i \in 0..30 : i \in {0, 1, 2, 3, 4, 5, 6, 7, 8, 9, 10, 11, 12, 13, 14, 15, 16, 17, 18, 19,
                       20,
                        21, 22, 23, 24, 25, 26, 27, 28, 29, 30}
OBVIOUS

LEMMA PowersPositive == \A i \in 0..30 : Power[i] \in Nat \ {0}
BY BitPlaces, PowerTable

LEMMA PowersDouble == \A i \in 0..29 : Power[i+1] = 2 * Power[i]
BY BitPlaces, PowerTable

LEMMA PowersGrow == \A i, j \in 0..30 : i <= j => Power[i] <= Power[j]
BY BitPlaces, PowerTable

(* The bits of a number that is not negative.                              *)
LEMMA BitAt ==
  ASSUME NEW n \in Nat, NEW i \in 0..30
  PROVE  i \in Bits(n) <=> (n \div Power[i]) % 2 = 1
<1>1. PICK sign : sign = IF ((n \div 2^30) \div 2) % 2 = 1 THEN {31} ELSE {}
  OBVIOUS
<1>2. Bits(n) = {k \in 0..30 : (n \div 2^k) % 2 = 1} \cup sign
  BY <1>1, Zenon DEF Bits
<1>3. i \notin sign
  <2>1. i # 31
    OBVIOUS
  <2> QED
    BY <1>1, <2>1
<1>4. Power[i] = 2^i
  BY DEF Power
<1> QED
  BY <1>2, <1>3, <1>4, Zenon

(* A number below 2^31 has 31 bits.                                        *)
LEMMA BitsInRange == \A n \in Nat : n < 2 * Power[30] => Bits(n) \subseteq 0..30
<1> SUFFICES ASSUME NEW n \in Nat, n < 2 * Power[30] PROVE Bits(n) \subseteq 0..30
  OBVIOUS
<1>1. PICK p : p = Power[30]
  OBVIOUS
<1>2. p = 2^30 /\ p \in Nat \ {0}
  <2>1. 30 \in 0..30
    OBVIOUS
  <2>2. Power[30] = 2^30
    BY <2>1, Zenon DEF Power
  <2> QED
    BY <1>1, <2>1, <2>2, PowersPositive, Zenon
<1>3. ((n \div p) \div 2) % 2 # 1
  <2>1. (n \div p) \div 2 = 0
    BY <1>1, <1>2
  <2> QED
    BY <2>1
<1>4. (IF ((n \div p) \div 2) % 2 = 1 THEN {31} ELSE {}) = {}
  BY <1>3, Zenon
<1>5. Bits(n) = {k \in 0..30 : (n \div 2^k) % 2 = 1} \cup {}
  BY <1>2, <1>4, Zenon DEF Bits
<1> QED
  BY <1>5

(* So has one of 19 bits, as every number and target of a register.        *)
LEMMA SmallInRange == \A n \in Nat : n < 524288 => Bits(n) \subseteq 0..30
BY BitsInRange, PowerTable

(* A number below 2^w has no bit from w on.                                *)
LEMMA BitsFit ==
  ASSUME NEW w \in 0..30, NEW n \in Nat, n < Power[w]
  PROVE  Bits(n) \subseteq Low(w)
<1> SUFFICES ASSUME NEW i \in Bits(n), i \notin Low(w)
             PROVE  FALSE
  OBVIOUS
<1>1. i \in 0..30 /\ w <= i
  <2>1. Power[w] <= Power[30] /\ Power[30] \in Nat /\ Power[w] \in Nat
    BY PowersGrow, PowersPositive
  <2>2. n < 2 * Power[30]
    BY <2>1
  <2> QED
    BY <2>2, BitsInRange DEF Low
<1>2. PICK p : p = Power[i]
  OBVIOUS
<1>3. p \in Nat \ {0} /\ n < p
  <2>1. p \in Nat \ {0} /\ Power[w] \in Nat
    BY <1>1, <1>2, PowersPositive
  <2>2. Power[w] <= p
    BY <1>1, <1>2, PowersGrow
  <2> QED
    BY <2>1, <2>2
<1>4. (n \div p) % 2 = 1
  BY <1>1, <1>2, BitAt, Zenon
<1>5. n \div p = 0
  BY <1>3
<1> QED
  BY <1>4, <1>5

(* A number of 16 bits is the sum of them.                                 *)
Bit(word, i) == IF i \in word THEN 1 ELSE 0

(* The bits of half of a number are those of the number, one place down.   *)
LEMMA BitPeeled ==
  ASSUME NEW n \in Nat, NEW i \in 0..29
  PROVE  n \div Power[i] = 2 * (n \div Power[i+1]) + Bit(Bits(n), i)
<1>1. PICK p : p = Power[i]
  OBVIOUS
<1>2. p \in Nat \ {0} /\ Power[i+1] = 2 * p
  BY <1>1, PowersPositive, PowersDouble
<1>3. n \div p = 2 * (n \div (2 * p)) + ((n \div p) % 2)
  BY <1>2
<1>4. (n \div p) % 2 \in {0, 1}
  BY <1>2
<1>5. i \in Bits(n) <=> (n \div p) % 2 = 1
  BY <1>1, BitAt
<1>6. (n \div p) % 2 = Bit(Bits(n), i)
  BY <1>4, <1>5 DEF Bit
<1> QED
  BY <1>1, <1>2, <1>3, <1>6

Halves(n) == [i \in 0..16 |-> n \div Power[i]]

(* Numbers of at most k bits with the same bits are the same.              *)
LEMMA BitsPeeled ==
  ASSUME NEW n \in Nat
  PROVE  /\ Halves(n)[15] = 2 * Halves(n)[16] + Bit(Bits(n), 15)
         /\ Halves(n)[14] = 2 * Halves(n)[15] + Bit(Bits(n), 14)
         /\ Halves(n)[13] = 2 * Halves(n)[14] + Bit(Bits(n), 13)
         /\ Halves(n)[12] = 2 * Halves(n)[13] + Bit(Bits(n), 12)
         /\ Halves(n)[11] = 2 * Halves(n)[12] + Bit(Bits(n), 11)
         /\ Halves(n)[10] = 2 * Halves(n)[11] + Bit(Bits(n), 10)
         /\ Halves(n)[9] = 2 * Halves(n)[10] + Bit(Bits(n), 9)
         /\ Halves(n)[8] = 2 * Halves(n)[9] + Bit(Bits(n), 8)
         /\ Halves(n)[7] = 2 * Halves(n)[8] + Bit(Bits(n), 7)
         /\ Halves(n)[6] = 2 * Halves(n)[7] + Bit(Bits(n), 6)
         /\ Halves(n)[5] = 2 * Halves(n)[6] + Bit(Bits(n), 5)
         /\ Halves(n)[4] = 2 * Halves(n)[5] + Bit(Bits(n), 4)
         /\ Halves(n)[3] = 2 * Halves(n)[4] + Bit(Bits(n), 3)
         /\ Halves(n)[2] = 2 * Halves(n)[3] + Bit(Bits(n), 2)
         /\ Halves(n)[1] = 2 * Halves(n)[2] + Bit(Bits(n), 1)
         /\ Halves(n)[0] = 2 * Halves(n)[1] + Bit(Bits(n), 0)
<1> DEFINE D == Halves(n)
           B == [i \in 0..15 |-> Bit(Bits(n), i)]
<1>1. \A i \in 0..15 : B[i] = Bit(Bits(n), i)
  OBVIOUS
<1>2. \A i \in 0..15 : D[i] = 2 * D[i+1] + B[i]
  <2> SUFFICES ASSUME NEW i \in 0..15 PROVE D[i] = 2 * D[i+1] + B[i]
    OBVIOUS
  <2>1. i \in 0..29 /\ i \in 0..16 /\ i + 1 \in 0..16
    OBVIOUS
  <2> QED
    BY <2>1, BitPeeled DEF Halves
<1>3. Halves(n) = D
  OBVIOUS
<1> HIDE DEF D, B
<1>4. D[15] = 2 * D[16] + B[15]
  BY <1>2
<1>5. D[14] = 2 * D[15] + B[14]
  BY <1>2
<1>6. D[13] = 2 * D[14] + B[13]
  BY <1>2
<1>7. D[12] = 2 * D[13] + B[12]
  BY <1>2
<1>8. D[11] = 2 * D[12] + B[11]
  BY <1>2
<1>9. D[10] = 2 * D[11] + B[10]
  BY <1>2
<1>10. D[9] = 2 * D[10] + B[9]
  BY <1>2
<1>11. D[8] = 2 * D[9] + B[8]
  BY <1>2
<1>12. D[7] = 2 * D[8] + B[7]
  BY <1>2
<1>13. D[6] = 2 * D[7] + B[6]
  BY <1>2
<1>14. D[5] = 2 * D[6] + B[5]
  BY <1>2
<1>15. D[4] = 2 * D[5] + B[4]
  BY <1>2
<1>16. D[3] = 2 * D[4] + B[3]
  BY <1>2
<1>17. D[2] = 2 * D[3] + B[2]
  BY <1>2
<1>18. D[1] = 2 * D[2] + B[1]
  BY <1>2
<1>19. D[0] = 2 * D[1] + B[0]
  BY <1>2
<1> QED
  BY <1>1, <1>3, <1>4, <1>5, <1>6, <1>7, <1>8, <1>9, <1>10, <1>11, <1>12, <1>13, <1>14, <1>15,
     <1>16, <1>17, <1>18, <1>19

(* So two numbers below 2^16 differ in a bit.                              *)
LEMMA BitsDiffer ==
  ASSUME NEW n \in Nat, n < 65536, NEW m \in Nat, m < 65536, Bits(n) = Bits(m)
  PROVE  n = m
<1>1. \A x \in Nat : x < 65536 => Halves(x)[0] = x /\ Halves(x)[16] = 0
  <2> SUFFICES ASSUME NEW x \in Nat, x < 65536 PROVE Halves(x)[0] = x /\ Halves(x)[16] = 0
    OBVIOUS
  <2>1. x \div 1 = x /\ x \div 65536 = 0
    OBVIOUS
  <2> QED
    BY <2>1, PowerTable DEF Halves
<1>2. /\ Halves(n)[15] = Halves(m)[15] /\ Halves(n)[14] = Halves(m)[14]
      /\ Halves(n)[13] = Halves(m)[13] /\ Halves(n)[12] = Halves(m)[12]
  BY <1>1, BitsPeeled
<1>3. /\ Halves(n)[11] = Halves(m)[11] /\ Halves(n)[10] = Halves(m)[10]
      /\ Halves(n)[9] = Halves(m)[9] /\ Halves(n)[8] = Halves(m)[8]
  BY <1>2, BitsPeeled
<1>4. /\ Halves(n)[7] = Halves(m)[7] /\ Halves(n)[6] = Halves(m)[6]
      /\ Halves(n)[5] = Halves(m)[5] /\ Halves(n)[4] = Halves(m)[4]
  BY <1>3, BitsPeeled
<1>5. /\ Halves(n)[3] = Halves(m)[3] /\ Halves(n)[2] = Halves(m)[2]
      /\ Halves(n)[1] = Halves(m)[1] /\ Halves(n)[0] = Halves(m)[0]
  BY <1>4, BitsPeeled
<1> QED
  BY <1>1, <1>5
=============================================================================
