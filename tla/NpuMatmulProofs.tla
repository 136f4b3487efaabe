--------------------------- MODULE NpuMatmulProofs ---------------------------
(***************************************************************************)
(* Proofs about the plan of NpuMatmul, for every width of the integers,    *)
(* every size of the buffer and every dimension.                           *)
(*                                                                         *)
(* The point is that nothing that is accepted has wrapped around: a kernel *)
(* that fits into a bank bounds k * Elem by BankSize, so m * k * Elem is   *)
(* at most (U16 - 1) * BankSize, which WidthsAssumption puts below U32.    *)
(***************************************************************************)
EXTENDS NpuMatmul, TLAPS

(* Rounding up gives the least number of banks that hold x bytes.          *)
LEMMA CeilDivLeast ==
  ASSUME NEW x \in Nat, NEW y \in Nat \ {0}
  PROVE  /\ CeilDiv(x, y) \in Nat
         /\ x <= CeilDiv(x, y) * y
         /\ CeilDiv(x, y) > 0 => x > (CeilDiv(x, y) - 1) * y
<1> DEFINE q == x \div y
           r == x % y
<1>1. q \in Nat /\ r \in 0..y-1 /\ x = y * q + r
  OBVIOUS
<1>2. CASE r = 0
  <2>1. CeilDiv(x, y) = q
    BY <1>1, <1>2 DEF CeilDiv
  <2>2. x = q * y /\ (q - 1) * y = q * y - y
    BY <1>1, <1>2
  <2>. QED
    BY <1>1, <2>1, <2>2
<1>3. CASE r # 0
  <2>1. CeilDiv(x, y) = q + 1
    BY <1>1, <1>3 DEF CeilDiv
  <2>2. (q + 1) * y = y * q + y /\ ((q + 1) - 1) * y = y * q
    BY <1>1
  <2>. QED
    BY <1>1, <1>3, <2>1, <2>2
<1>. QED
  BY <1>2, <1>3

(* A size below U32 is not cut by the reduction modulo U32.                *)
LEMMA BelowIsUncut ==
  ASSUME NEW x \in Nat, NEW y \in Nat, x < y
  PROVE  x % y = x
  OBVIOUS

(* The product of two numbers is at most that of their bounds.             *)
LEMMA ProductBound ==
  ASSUME NEW a \in Nat, NEW b \in Nat, NEW x \in 0..a, NEW y \in 0..b
  PROVE  x * y \in Nat /\ x * y <= a * b
<1>1. x * y \in Nat /\ x * b \in Nat /\ a * b \in Nat
  OBVIOUS
<1>2. x * (b - y) >= 0 /\ x * (b - y) = x * b - x * y
  OBVIOUS
<1>3. (a - x) * b >= 0 /\ (a - x) * b = a * b - x * b
  OBVIOUS
<1>. QED
  BY <1>1, <1>2, <1>3

(* The dimensions and the element size of a call are numbers.              *)
LEMMA CallNumbers ==
  ASSUME NEW c \in Calls
  PROVE  /\ c.m \in 0..U16-1 /\ c.k \in 0..U16-1 /\ Elem(c) \in {1, 2}
         /\ c.m \in Nat /\ c.k \in Nat /\ U32 \in Nat \ {0}
<1>1. c.m \in 0..U16-1 /\ c.k \in 0..U16-1 /\ Elem(c) \in {1, 2}
  BY DimsAssumption DEF Calls, Elem
<1>2. U32 > 0
  <2>1. (U16 - 1) * BankSize >= 0
    BY WidthsAssumption, CbufAssumption
  <2>. QED
    BY <2>1, WidthsAssumption, CbufAssumption
<1>. QED
  BY <1>1, <1>2, WidthsAssumption

(* In the calls the plan accepts no size has wrapped around.               *)
LEMMA AcceptedIsUncut ==
  ASSUME NEW c \in Calls, KernelFits(c)
  PROVE  /\ c.m \in Nat /\ c.k \in Nat /\ Elem(c) \in {1, 2}
         /\ KernelBytes(c) = c.k * Elem(c)
         /\ FdBytes(c) = c.m * c.k * Elem(c)
<1> DEFINE kb == c.k * Elem(c)
<1>1. c.m \in 0..U16-1 /\ c.k \in 0..U16-1 /\ Elem(c) \in {1, 2}
  BY CallNumbers
<1>2. U16 - 1 \in Nat /\ BankSize \in Nat /\ BankSize >= 2 /\ U32 \in Nat
      /\ (U16 - 1) * BankSize < U32
  BY WidthsAssumption, CbufAssumption
<1>3. KernelBytes(c) = kb
  <2>1. Elem(c) \in 0..BankSize
    BY <1>1, <1>2
  <2>2. kb \in Nat /\ kb <= (U16 - 1) * BankSize
    BY <1>1, <1>2, <2>1, ProductBound
  <2>3. kb % U32 = kb
    BY <1>2, <2>2, BelowIsUncut
  <2>. QED
    BY <2>3 DEF KernelBytes
<1>4. FdBytes(c) = c.m * c.k * Elem(c)
  <2>1. kb \in 0..BankSize
    BY <1>1, <1>2, <1>3 DEF KernelFits
  <2>2. c.m * kb \in Nat /\ c.m * kb <= (U16 - 1) * BankSize
    BY <1>1, <1>2, <2>1, ProductBound
  <2>3. (c.m * kb) % U32 = c.m * kb
    BY <1>2, <2>2, BelowIsUncut
  <2>4. c.m * c.k * Elem(c) = c.m * kb
    BY <1>1
  <2>. QED
    BY <2>3, <2>4 DEF FdBytes
<1>. QED
  BY <1>1, <1>3, <1>4

-----------------------------------------------------------------------------
(* The invariant: what a return code says of the checks that led to it.    *)
PlanInv ==
  /\ call \in Calls
  /\ ret = 0 => /\ DataFits(call) /\ KernelFits(call)
                /\ banks = [data |-> FdBanks(call), weight |-> Banks - FdBanks(call)]
  /\ ret = -1 => ~DataFits(call)
  /\ ret = -2 => ~KernelFits(call)

(* PlanInv holds in every reachable state.                                 *)
LEMMA PlanInvariance == Spec => []PlanInv
<1>1. Init => PlanInv
  BY DEF Init, PlanInv
<1>2. PlanInv /\ [Next]_vars => PlanInv'
  <2> SUFFICES ASSUME PlanInv, [Next]_vars
               PROVE  PlanInv'
    OBVIOUS
  <2>1. CASE RefuseData
    BY <2>1 DEF RefuseData, PlanInv
  <2>2. CASE RefuseKernel
    BY <2>2 DEF RefuseKernel, PlanInv
  <2>3. CASE Generate
    BY <2>3 DEF Generate, PlanInv
  <2>4. CASE UNCHANGED vars
    BY <2>4 DEF vars, PlanInv
  <2>. QED
    BY <2>1, <2>2, <2>3, <2>4 DEF Next
<1>. QED
  BY <1>1, <1>2, PTL DEF Spec

(* The feature data's banks, as a number of banks.                         *)
LEMMA FdBanksLeast ==
  ASSUME NEW c \in Calls
  PROVE  /\ FdBytes(c) \in Nat /\ FdBanks(c) \in Nat
         /\ FdBytes(c) <= FdBanks(c) * BankSize
         /\ FdBanks(c) > 0 => FdBytes(c) > (FdBanks(c) - 1) * BankSize
<1>1. c.m \in Nat /\ c.k \in Nat /\ Elem(c) \in {1, 2} /\ U32 \in Nat \ {0}
  BY CallNumbers
<1>2. c.m * c.k * Elem(c) \in Nat
  BY <1>1
<1>3. FdBytes(c) \in Nat
  BY <1>1, <1>2 DEF FdBytes
<1>. QED
  BY <1>3, CeilDivLeast, CbufAssumption DEF FdBanks

(* An accepted plan holds all the feature data and one kernel, and shares  *)
(* out the whole buffer (lines 250-266 and 390-406 of npu_matmul.c).       *)
THEOREM PlansFit == Spec => []PlanFits
<1>1. PlanInv => PlanFits
  <2> SUFFICES ASSUME PlanInv, ret = 0
               PROVE  /\ TrueFdBytes <= banks.data * BankSize
                      /\ TrueKernelBytes <= banks.weight * BankSize
                      /\ banks.data + banks.weight = Banks
    BY DEF PlanFits
  <2> DEFINE d == FdBanks(call)
  <2>1. call \in Calls /\ DataFits(call) /\ KernelFits(call)
        /\ banks.data = d /\ banks.weight = Banks - d
    BY DEF PlanInv
  <2>2. TrueFdBytes = FdBytes(call) /\ TrueKernelBytes = KernelBytes(call)
    BY <2>1, AcceptedIsUncut DEF TrueFdBytes, TrueKernelBytes
  <2>3. d \in 0..Banks-1 /\ FdBytes(call) <= d * BankSize
    BY <2>1, FdBanksLeast, CbufAssumption DEF DataFits
  <2>4. BankSize <= (Banks - d) * BankSize
    <3>1. (Banks - d) - 1 \in Nat /\ BankSize \in Nat
      BY <2>3, CbufAssumption
    <3>2. ((Banks - d) - 1) * BankSize >= 0
      BY <3>1
    <3>3. ((Banks - d) - 1) * BankSize = (Banks - d) * BankSize - BankSize
      BY <2>3, CbufAssumption
    <3>. QED
      BY <2>3, <3>2, <3>3, CbufAssumption
  <2>5. KernelBytes(call) <= BankSize /\ KernelBytes(call) \in Nat
    <3>1. call.k \in Nat /\ Elem(call) \in {1, 2} /\ KernelBytes(call) = call.k * Elem(call)
      BY <2>1, AcceptedIsUncut
    <3>. QED
      BY <2>1, <3>1 DEF KernelFits
  <2>6. KernelBytes(call) <= (Banks - d) * BankSize
    BY <2>3, <2>4, <2>5, CbufAssumption
  <2>7. d + (Banks - d) = Banks
    BY <2>3, CbufAssumption
  <2>. QED
    BY <2>1, <2>2, <2>3, <2>6, <2>7
<1>. QED
  BY <1>1, PlanInvariance, PTL

(* No bank of an accepted plan is left empty of feature data that has it   *)
(* (the rounding of lines 251-252 and 391-392).                            *)
THEOREM NoBankIsSpare == Spec => []NoSpareBank
<1>1. PlanInv => NoSpareBank
  <2> SUFFICES ASSUME PlanInv, ret = 0, banks.data > 0
               PROVE  TrueFdBytes > (banks.data - 1) * BankSize
    BY DEF NoSpareBank
  <2>1. call \in Calls /\ KernelFits(call) /\ banks.data = FdBanks(call)
    BY DEF PlanInv
  <2>2. TrueFdBytes = FdBytes(call)
    BY <2>1, AcceptedIsUncut DEF TrueFdBytes
  <2>. QED
    BY <2>1, <2>2, FdBanksLeast
<1>. QED
  BY <1>1, PlanInvariance, PTL

(* Calls are refused only for dimensions that do not fit (the returns -1   *)
(* and -2 of lines 256 and 261, and 396 and 401).                          *)
THEOREM RefusalsHaveCause == Spec => []RefusedForCause
<1>1. PlanInv => RefusedForCause
  <2> SUFFICES ASSUME PlanInv PROVE RefusedForCause
    OBVIOUS
  <2>1. call \in Calls
    BY DEF PlanInv
  <2>2. call.m \in Nat /\ call.k \in Nat /\ Elem(call) \in {1, 2} /\ U32 \in Nat \ {0}
    BY <2>1, CallNumbers
  <2>3. TrueFdBytes \in Nat /\ TrueKernelBytes \in Nat
    BY <2>2 DEF TrueFdBytes, TrueKernelBytes
  <2>4. \A x \in Nat : x % U32 <= x
    BY <2>2
  <2>5. FdBytes(call) <= TrueFdBytes /\ KernelBytes(call) <= TrueKernelBytes
        /\ KernelBytes(call) \in Nat
    BY <2>2, <2>3, <2>4 DEF FdBytes, KernelBytes, TrueFdBytes, TrueKernelBytes
  <2>6. ASSUME ret = -1
        PROVE  TrueFdBytes > (Banks - 1) * BankSize
    <3> DEFINE d == FdBanks(call)
    <3>1. d \in Nat /\ d > Banks - 1
      BY <2>1, <2>6, FdBanksLeast, CbufAssumption DEF PlanInv, DataFits
    <3>2. FdBytes(call) \in Nat /\ FdBytes(call) > (d - 1) * BankSize
      BY <2>1, <3>1, FdBanksLeast, CbufAssumption
    <3>3. (d - 1) * BankSize >= (Banks - 1) * BankSize
      <4>1. d - Banks \in Nat /\ BankSize \in Nat /\ Banks \in Nat
        BY <3>1, CbufAssumption
      <4>2. (d - Banks) * BankSize >= 0
        BY <4>1
      <4>3. (d - Banks) * BankSize = (d - 1) * BankSize - (Banks - 1) * BankSize
        BY <3>1, <4>1
      <4>. QED
        BY <3>1, <4>1, <4>2, <4>3
    <3>. QED
      BY <2>3, <2>5, <3>1, <3>2, <3>3, CbufAssumption
  <2>7. ASSUME ret = -2
        PROVE  TrueKernelBytes > BankSize
    BY <2>3, <2>5, <2>7, CbufAssumption DEF PlanInv, KernelFits
  <2>. QED
    BY <2>6, <2>7 DEF RefusedForCause
<1>. QED
  BY <1>1, PlanInvariance, PTL

(* Every call returns one of its three results, with shares of the buffer  *)
(* that its 4-bit fields are meant for: at most all banks, one of them     *)
(* kept from the feature data.                                             *)
THEOREM PlanTypes == Spec => []PlanTypeOK
<1>1. Init => PlanTypeOK
  BY CbufAssumption DEF Init, PlanTypeOK
<1>2. PlanTypeOK /\ [Next]_vars => PlanTypeOK'
  <2> SUFFICES ASSUME PlanTypeOK, [Next]_vars
               PROVE  PlanTypeOK'
    OBVIOUS
  <2>1. CASE RefuseData
    BY <2>1 DEF RefuseData, PlanTypeOK
  <2>2. CASE RefuseKernel
    BY <2>2 DEF RefuseKernel, PlanTypeOK
  <2>3. CASE Generate
    <3>1. call \in Calls /\ FdBanks(call) \in Nat /\ FdBanks(call) <= Banks - 1
      BY <2>3, FdBanksLeast DEF Generate, DataFits, PlanTypeOK
    <3>2. FdBanks(call) \in 0..Banks-1 /\ Banks - FdBanks(call) \in 0..Banks
      BY <3>1, CbufAssumption
    <3>. QED
      BY <2>3, <3>2 DEF Generate, PlanTypeOK
  <2>4. CASE UNCHANGED vars
    BY <2>4 DEF vars, PlanTypeOK
  <2>. QED
    BY <2>1, <2>2, <2>3, <2>4 DEF Next
<1>. QED
  BY <1>1, <1>2, PTL DEF Spec

=============================================================================
