------------------------------ MODULE CbufPlan ------------------------------
(***************************************************************************)
(* The sizes gen_matmul_fp16 and gen_matmul_int8 of src/src/npu_matmul.c   *)
(* compute for one multiplication of an [m x k] by a [k x n] matrix, and   *)
(* the shares of the NPU's on-chip buffer (CBUF) they derive from them.    *)
(*                                                                         *)
(* The unsigned types wrap.  m * k is an int product in C: where it        *)
(* overflows, the build's 32-bit multiplication leaves it reduced modulo   *)
(* 2^32 too.                                                               *)
(***************************************************************************)
EXTENDS Integers

CONSTANTS U16, U32,           \* 2^16 and 2^32
          BankSize, Banks,    \* NPU_CBUF_BANK_SIZE and NPU_CBUF_BANKS
          Ms, Ks, Ns          \* the dimensions callers ask for

(* 32 bits hold a 16-bit number times the size of a bank.                  *)
ASSUME WidthsAssumption == U16 \in Nat \ {0} /\ U32 \in Nat /\ (U16 - 1) * BankSize < U32
ASSUME CbufAssumption   == BankSize \in Nat /\ BankSize > 1 /\ Banks \in Nat /\ Banks > 1
ASSUME DimsAssumption   == Ms \subseteq 0..U16-1 /\ Ks \subseteq 0..U16-1 /\ Ns \subseteq 0..U16-1

(* gen_matmul_fp16 with fp32tofp16 = 0 and 1, and gen_matmul_int8.         *)
Kinds == {"fp16", "fp16to16", "int8"}
Calls == [kind : Kinds, m : Ms, k : Ks, n : Ns]

Elem(c) == IF c.kind = "int8" THEN 1 ELSE 2           \* bytes per element
CeilDiv(x, y) == x \div y + IF x % y = 0 THEN 0 ELSE 1
CeilDivUp(x, y) == x \div y + 1                       \* mutant: always rounds up

KernelBytes(c) == (c.k * Elem(c)) % U32               \* weight_bytes_per_kernel
WeightBytes(c) == (KernelBytes(c) * c.n) % U32        \* weight_bytes
FdBytes(c) == (c.m * c.k * Elem(c)) % U32             \* fd_bytes
FdBanksRoundedUp(c) == CeilDivUp(FdBytes(c), BankSize)
FdBanks(c) == CeilDiv(FdBytes(c), BankSize)

(* Feature data may fill all banks but one; the weights get the rest,      *)
(* whatever their number, and need room for one kernel.                    *)
DataFitsInAll(c) == FdBanks(c) <= Banks               \* mutant: no bank kept
DataFits(c) == FdBanks(c) <= Banks - 1
KernelBelow(c) == KernelBytes(c) < BankSize           \* mutant: < for <=
KernelUnchecked(c) == TRUE                            \* mutant: no return -2
KernelFits(c) == KernelBytes(c) <= BankSize
=============================================================================
