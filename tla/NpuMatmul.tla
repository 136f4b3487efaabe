------------------------------ MODULE NpuMatmul ------------------------------
(***************************************************************************)
(* src/src/npu_matmul.c: one call of gen_matmul_fp16 or gen_matmul_int8,   *)
(* which accepts or refuses the dimensions and shares out the NPU's        *)
(* on-chip buffer.  The commands an accepted call writes are in            *)
(* RegcmdRk3588.                                                           *)
(***************************************************************************)
EXTENDS CbufPlan

VARIABLES call,     \* the generator, what it converts the result to, dims
          ret,      \* what it returned; 1 while it runs
          banks     \* banks given to feature data and to weights

vars == <<call, ret, banks>>

Init ==
  /\ call \in Calls
  /\ ret = 1
  /\ banks = [data |-> 0, weight |-> 0]

(* The feature data does not fit: return -1.                               *)
RefuseData ==
  /\ ret = 1 /\ ~DataFits(call)
  /\ ret' = -1
  /\ UNCHANGED <<call, banks>>

(* One kernel does not fit into one bank: return -2.                       *)
RefuseKernel ==
  /\ ret = 1 /\ DataFits(call) /\ ~KernelFits(call)
  /\ ret' = -2
  /\ UNCHANGED <<call, banks>>

Generate ==
  /\ ret = 1 /\ DataFits(call) /\ KernelFits(call)
  /\ ret' = 0
  /\ banks' = [data |-> FdBanks(call), weight |-> Banks - FdBanks(call)]
  /\ UNCHANGED call

Next == RefuseData \/ RefuseKernel \/ Generate

Spec == Init /\ [][Next]_vars

-----------------------------------------------------------------------------
(* The sizes themselves, which no width cuts.                              *)
TrueFdBytes == call.m * call.k * Elem(call)
TrueKernelBytes == call.k * Elem(call)

PlanTypeOK ==
  /\ call \in Calls
  /\ ret \in {1, 0, -1, -2}
  /\ banks \in [data : 0..Banks-1, weight : 0..Banks]

(* In an accepted plan all the feature data fits into its banks and one    *)
(* kernel into the banks of the weights, and the two parts share the       *)
(* buffer exactly: no size that wrapped around in 32 bits is ever taken    *)
(* for a small one, for every m and k a uint16_t holds.                    *)
PlanFits ==
  ret = 0 =>
    /\ TrueFdBytes <= banks.data * BankSize
    /\ TrueKernelBytes <= banks.weight * BankSize
    /\ banks.data + banks.weight = Banks

(* The feature data gets no bank that it does not need.                    *)
NoSpareBank == ret = 0 /\ banks.data > 0 => TrueFdBytes > (banks.data - 1) * BankSize

(* What is refused does not fit: feature data that needs the last bank     *)
(* (-1), or a kernel larger than a bank (-2).                              *)
RefusedForCause ==
  /\ ret = -1 => TrueFdBytes > (Banks - 1) * BankSize
  /\ ret = -2 => TrueKernelBytes > BankSize

(* "we fail if cbuf storage is exceeded ie M,K,N get too large".           *)
TooLargeRefused ==
  ret = 0 => CeilDiv(TrueFdBytes, BankSize) + CeilDiv(TrueKernelBytes * call.n, BankSize) <= Banks
=============================================================================
