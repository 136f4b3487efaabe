---------------------------- MODULE RegcmdWords ----------------------------
(***************************************************************************)
(* 64-bit register commands, and the 32-bit values they carry, as the sets *)
(* of their one bits: | is union, & intersection, and a shift moves every  *)
(* bit.  A command names a target in its bits 48 to 63, a value in 16 to   *)
(* 47 and a register in 0 to 15.                                           *)
(***************************************************************************)
EXTENDS Integers

(* The low 32 bits of an integer in two's complement: what is left of it   *)
(* in an int or a uint32_t.  (2^31 is more than TLC can count.)            *)
Bits(n) ==
  {i \in 0..30 : (n \div 2^i) % 2 = 1}
    \cup (IF ((n \div 2^30) \div 2) % 2 = 1 THEN {31} ELSE {})

Shl(word, n) == {i + n : i \in word}
Shr(word, n) == {i - n : i \in {j \in word : j >= n}}
Low(width) == 0..width-1                          \* the mask of the low bits

(* npu_hw.h: NPUOP cuts its three parts to 16, 32 and 16 bits.             *)
NPUOP(op, value, reg) ==
  Shl(op \cap Low(16), 48) \cup Shl(value \cap Low(32), 16) \cup (reg \cap Low(16))

(* (uint64_t) of an int: a negative one has its sign in the 32 bits above. *)
Uint64(int) == int \cup {i \in 32..63 : 31 \in int}

(* The ints that n and 2 * n are, as 64 bits; the product wraps around, as *)
(* the built code's does.                                                  *)
IntBits(n) == Uint64(Bits(n))
TwiceBits(n) == Uint64(Shl(Bits(n), 1) \cap Low(32))

(* npu_matmul_mesa.c and npu_matmul_full.c: MESA_REGCMD cuts nothing but   *)
(* what leaves the 64 bits.                                                *)
MESA_REGCMD(target, value, reg) ==
  (Shl(target, 48) \cup Shl(value, 16) \cup reg) \cap Low(64)

(* How the NPU's command fetch takes a command apart.                      *)
TargetOf(cmd) == Shr(cmd, 48)
ValueOf(cmd) == Shr(cmd, 16) \cap Low(32)
RegOf(cmd)    == cmd \cap Low(16)
=============================================================================
