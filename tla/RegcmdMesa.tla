----------------------------- MODULE RegcmdMesa -----------------------------
(***************************************************************************)
(* src/src/npu_matmul_mesa.c, the generator the library is built with: the *)
(* 17 commands of gen_matmul_fp16 and the 4 of gen_matmul_int8.  Nothing   *)
(* is cut to the width of a field; the numbers of the DPU's registers have *)
(* 17 bits, and the two strides are ints, which may be negative.           *)
(***************************************************************************)
EXTENDS RegcmdWords, Sequences

CONSTANTS InputDma, WeightsDma, OutputDma   \* DMA addresses, 32 bits each

TARGET_PC  == \h100
TARGET_CNA == \h200
TARGET_DPU == \h1000

REG_PC_OPERATION_ENABLE    == \h8
REG_PC_BASE_ADDRESS        == \h10
REG_PC_REGISTER_AMOUNTS    == \h14
REG_CNA_OPERATION_ENABLE   == \h1008
REG_CNA_CONV_CON1          == \h100C
REG_CNA_DATA_SIZE0         == \h1020
REG_CNA_DATA_SIZE1         == \h1024
REG_CNA_WEIGHT_SIZE2       == \h1038
REG_CNA_FEATURE_DATA_ADDR  == \h1070
REG_CNA_WEIGHT_DATA_ADDR   == \h1074
REG_DPU_OPERATION_ENABLE   == \h10008
REG_DPU_DST_BASE_ADDR_LOW  == \h10010
REG_DPU_DST_LINE_STRIDE    == \h10018
REG_DPU_DST_SURFACE_STRIDE == \h1001C

Pc(value, reg)  == MESA_REGCMD(Bits(TARGET_PC), value, Bits(reg))
Cna(value, reg) == MESA_REGCMD(Bits(TARGET_CNA), value, Bits(reg))
Dpu(value, reg) == MESA_REGCMD(Bits(TARGET_DPU), value, Bits(reg))

Precision == Shl(Bits(1), 4) \cup Shl(Bits(1), 7)         \* in and proc; mode 0
DataSize0Swapped(c) == Bits(1) \cup Shl(Bits(c.m), 16)    \* mutant: width and height
DataSize0(c) == Bits(c.m) \cup Shl(Bits(1), 16)
WeightSize2(c) == Bits(c.n) \cup Shl(Bits(1), 16) \cup Shl(Bits(1), 24)

gen_matmul_fp16(c) ==
  << Pc({}, REG_PC_BASE_ADDRESS),
     Pc({}, REG_PC_REGISTER_AMOUNTS),
     Cna(Precision, REG_CNA_CONV_CON1),
     Cna(DataSize0(c), REG_CNA_DATA_SIZE0),
     Cna(Bits(c.k), REG_CNA_DATA_SIZE1),
     Cna(WeightSize2(c), REG_CNA_WEIGHT_SIZE2),
     Cna(InputDma, REG_CNA_FEATURE_DATA_ADDR),
     Cna(WeightsDma, REG_CNA_WEIGHT_DATA_ADDR),
     Dpu(OutputDma, REG_DPU_DST_BASE_ADDR_LOW),
     Dpu(IntBits(c.n * 2), REG_DPU_DST_LINE_STRIDE),
     Dpu(TwiceBits(c.m * c.n), REG_DPU_DST_SURFACE_STRIDE),
     Pc(Bits(1), REG_PC_OPERATION_ENABLE),
     Cna(Bits(1), REG_CNA_OPERATION_ENABLE),
     Dpu(Bits(1), REG_DPU_OPERATION_ENABLE),
     Dpu({}, REG_DPU_OPERATION_ENABLE),
     Cna({}, REG_CNA_OPERATION_ENABLE),
     Pc({}, REG_PC_OPERATION_ENABLE) >>

gen_matmul_int8 ==
  << Pc({}, REG_PC_BASE_ADDRESS),
     Pc({}, REG_PC_REGISTER_AMOUNTS),
     Pc(Bits(1), REG_PC_OPERATION_ENABLE),
     Pc({}, REG_PC_OPERATION_ENABLE) >>
=============================================================================
