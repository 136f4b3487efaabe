---------------------------- MODULE RegcmdRk3588 ----------------------------
(***************************************************************************)
(* The register commands gen_matmul_fp16 and gen_matmul_int8 of            *)
(* src/src/npu_matmul.c write for dimensions they accept: the descriptors  *)
(* of the three units the NPU is made of, and gen_matmul_task, which packs *)
(* them with the register numbers and field widths of npu_hw.h, taken from *)
(* another document than Mesa's.                                           *)
(***************************************************************************)
EXTENDS CbufPlan, RegcmdWords, Sequences

CONSTANTS InputDma, WeightsDma, OutputDma   \* DMA addresses, 32 bits each

HwRegisters ==
  [ PC_OPERATION_ENABLE |-> \h0008, PC_BASE_ADDRESS |-> \h0010, PC_REGISTER_AMOUNTS |-> \h0014,
    CNA_S_POINTER |-> \h1004, CNA_CONV_CON1 |-> \h100C, CNA_CONV_CON2 |-> \h1010,
    CNA_CONV_CON3 |-> \h1014, CNA_DATA_SIZE0 |-> \h1020, CNA_DATA_SIZE1 |-> \h1024,
    CNA_DATA_SIZE2 |-> \h1028, CNA_DATA_SIZE3 |-> \h102C, CNA_WEIGHT_SIZE0 |-> \h1030,
    CNA_WEIGHT_SIZE1 |-> \h1034, CNA_WEIGHT_SIZE2 |-> \h1038, CNA_CBUF_CON0 |-> \h1040,
    CNA_CBUF_CON1 |-> \h1044, CNA_CVT_CON0 |-> \h104C, CNA_CVT_CON1 |-> \h1050,
    CNA_CVT_CON2 |-> \h1054, CNA_CVT_CON3 |-> \h1058, CNA_CVT_CON4 |-> \h105C,
    CNA_FC_CON0 |-> \h1060, CNA_FC_CON1 |-> \h1064, CNA_PAD_CON0 |-> \h1068,
    CNA_FEATURE_DATA_ADDR |-> \h1070, CNA_FC_CON2 |-> \h1074, CNA_DMA_CON0 |-> \h1078,
    CNA_DMA_CON1 |-> \h107C, CNA_DMA_CON2 |-> \h1080, CNA_FC_DATA_SIZE0 |-> \h1084,
    CNA_FC_DATA_SIZE1 |-> \h1088, CNA_DCOMP_CTRL |-> \h1100, CNA_DCOMP_REGNUM |-> \h1104,
    CNA_DCOMP_ADDR0 |-> \h1110, CNA_DCOMP_AMOUNT |-> \h1140, CNA_DCOMP_AMOUNT1 |-> \h1144,
    CNA_DCOMP_AMOUNT2 |-> \h1148, CNA_DCOMP_AMOUNT3 |-> \h114C, CNA_DCOMP_AMOUNT4 |-> \h1150,
    CNA_DCOMP_AMOUNT5 |-> \h1154, CNA_DCOMP_AMOUNT6 |-> \h1158, CNA_DCOMP_AMOUNT7 |-> \h115C,
    CNA_DCOMP_AMOUNT8 |-> \h1160, CNA_DCOMP_AMOUNT9 |-> \h1164, CNA_DCOMP_AMOUNT10 |-> \h1168,
    CNA_DCOMP_AMOUNT11 |-> \h116C, CNA_DCOMP_AMOUNT12 |-> \h1170, CNA_DCOMP_AMOUNT13 |-> \h1174,
    CNA_DCOMP_AMOUNT14 |-> \h1178, CNA_DCOMP_AMOUNT15 |-> \h117C, CNA_CVT_CON5 |-> \h1180,
    CNA_PAD_CON1 |-> \h1184,
    CORE_S_POINTER |-> \h3004, CORE_MISC_CFG |-> \h3010, CORE_DATAOUT_SIZE_0 |-> \h3014,
    CORE_DATAOUT_SIZE_1 |-> \h3018, CORE_CLIP_TRUNCATE |-> \h301C, CORE_3030 |-> \h3030,
    DPU_S_POINTER |-> \h4004, DPU_FEATURE_MODE_CFG |-> \h400C, DPU_DATA_FORMAT |-> \h4010,
    DPU_OFFSET_PEND |-> \h4014, DPU_DST_BASE_ADD |-> \h4020, DPU_DST_SURF_STRIDE |-> \h4024,
    DPU_DATA_CUBE_WIDTH |-> \h4030, DPU_DATA_CUBE_HEIGHT |-> \h4034,
    DPU_DATA_CUBE_NOTCH_ADDR |-> \h4038, DPU_DATA_CUBE_CHANNEL |-> \h403C,
    DPU_BS_CFG |-> \h4040, DPU_BS_ALU_CFG |-> \h4044, DPU_BS_MUL_CFG |-> \h4048,
    DPU_BS_RELUX_CMP_VALUE |-> \h404C, DPU_BS_OW_CFG |-> \h4050, DPU_BS_OW_OP |-> \h4054,
    DPU_WDMA_SIZE_0 |-> \h4058, DPU_WDMA_SIZE_1 |-> \h405C, DPU_BN_CFG |-> \h4060,
    DPU_BN_ALU_CFG |-> \h4064, DPU_BN_MUL_CFG |-> \h4068, DPU_BN_RELUX_CMP_VALUE |-> \h406C,
    DPU_EW_CFG |-> \h4070, DPU_EW_CVT_OFFSET_VALUE |-> \h4074,
    DPU_EW_CVT_SCALE_VALUE |-> \h4078, DPU_EW_RELUX_CMP_VALUE |-> \h407C,
    DPU_OUT_CVT_OFFSET |-> \h4080, DPU_OUT_CVT_SCALE |-> \h4084, DPU_OUT_CVT_SHIFT |-> \h4088,
    DPU_EW_OP_VALUE_0 |-> \h4090, DPU_EW_OP_VALUE_1 |-> \h4094, DPU_EW_OP_VALUE_2 |-> \h4098,
    DPU_EW_OP_VALUE_3 |-> \h409C, DPU_EW_OP_VALUE_4 |-> \h40A0, DPU_EW_OP_VALUE_5 |-> \h40A4,
    DPU_EW_OP_VALUE_6 |-> \h40A8, DPU_EW_OP_VALUE_7 |-> \h40AC, DPU_SURFACE_ADD |-> \h40C0,
    DPU_40C4 |-> \h40C4, DPU_LUT_ACCESS_CFG |-> \h4100, DPU_LUT_ACCESS_DATA |-> \h4104,
    DPU_LUT_CFG |-> \h4108, DPU_LUT_INFO |-> \h410C, DPU_LUT_LE_START |-> \h4110,
    DPU_LUT_LE_END |-> \h4114, DPU_LUT_LO_START |-> \h4118, DPU_LUT_LO_END |-> \h411C,
    DPU_LUT_LE_SLOPE_SCALE |-> \h4120, DPU_LUT_LE_SLOPE_SHIFT |-> \h4124,
    DPU_LUT_LO_SLOPE_SCALE |-> \h4128, DPU_LUT_LO_SLOPE_SHIFT |-> \h412C ]

OP_REG_PC   == \h101              \* BLOCK_PC | PC_OP_01, and so on
OP_REG_CNA  == \h201
OP_REG_CNAForCore == \h201        \* mutant: copied and not changed
OP_REG_CORE == \h801
OP_REG_DPU  == \h1001
OP_40       == \h41
OP_ENABLE   == \h81
OP_NONE     == 0
PC_ENABLES  == 8 + 4 + 1          \* PC_ENABLE_DPU | PC_ENABLE_CNA | PC_ENABLE

Cmd(op, reg, value) == NPUOP(Bits(op), value, Bits(HwRegisters[reg]))
Cna(reg, value)  == Cmd(OP_REG_CNA, reg, value)
Core(reg, value) == Cmd(OP_REG_CORE, reg, value)
Dpu(reg, value)  == Cmd(OP_REG_DPU, reg, value)
Zeros(op, regs) == [i \in DOMAIN regs |-> Cmd(op, regs[i], {})]

(* (x & mask of the low width bits) << shift                               *)
F(x, width, shift) == Shl(Bits(x) \cap Low(width), shift)

-----------------------------------------------------------------------------
(* The members of the descriptors that depend on the call.                 *)

Precision(c) == IF c.kind = "int8" THEN 0 ELSE 2          \* precision_int8, _float16
OutPrecision(c) ==                                        \* _int32, _float32, _float16
  CASE c.kind = "int8" -> 4 [] c.kind = "fp16" -> 5 [] c.kind = "fp16to16" -> 2
QdEn(c) == IF c.kind = "int8" THEN 0 ELSE 1
SizeE(c) == CASE c.kind = "int8" -> 7 [] c.kind = "fp16" -> 3 [] c.kind = "fp16to16" -> 1
ToFp16(c) == IF c.kind = "fp16to16" THEN 1 ELSE 0

FeatureGrains(c) == (c.m + 1) % U16
DataEntries(c) == CeilDiv(c.k, IF c.kind = "int8" THEN 64 ELSE 32)
LastRow(c) == (c.m - 1) % U16                             \* dataout_height - 1
LastKernel(c) == (c.n - 1) % U16                          \* weight_kernels - 1
LineStride == 4
SurfAdd(c) == c.m * CASE c.kind = "int8" -> 8 [] c.kind = "fp16" -> 4 [] c.kind = "fp16to16" -> 2

(* The distance of two surfaces of the input; -3 for less than four rows.  *)
SurfStride(c) == LET s == LineStride * (c.m \div 4 - 1) IN IF s < 0 THEN s + 1 ELSE s

-----------------------------------------------------------------------------
(* gen_matmul_task, in its order.                                          *)

ConvCommands(c) ==
  << Dpu("DPU_S_POINTER", Bits(14)),
     Cna("CNA_CONV_CON1", F(Precision(c), 3, 7) \cup F(Precision(c), 3, 4)),
     Cna("CNA_CONV_CON2", F(FeatureGrains(c), 10, 4)),
     Cna("CNA_CONV_CON3", F(1, 3, 3) \cup F(1, 3, 0)) >>

DataSize1Count(c) == F(c.k, 16, 16) \cup F(c.k, 16, 0)     \* mutant: k for k - 1
DataSize1(c) == F(c.k - 1, 16, 16) \cup F(c.k, 16, 0)

DataCommands(c) ==
  << Cna("CNA_DATA_SIZE0", F(1, 11, 16) \cup F(c.m, 11, 0)),
     Cna("CNA_DATA_SIZE1", DataSize1(c)),
     Cna("CNA_DATA_SIZE2", F(1, 11, 0)),
     Cna("CNA_DATA_SIZE3", F(c.m, 18, 0)) >>

WeightKernelsNarrow(c) == F(c.n, 12, 0)                   \* mutant: cut to 12 bits
WeightKernels(c) == F(c.n, 14, 0)

WeightCommands(c) ==
  << Cna("CNA_WEIGHT_SIZE0", Bits(WeightBytes(c))),
     Cna("CNA_WEIGHT_SIZE1", F(KernelBytes(c), 19, 0)),
     Cna("CNA_WEIGHT_SIZE2", F(1, 5, 24) \cup F(1, 5, 16) \cup WeightKernels(c)) >>

BufferCommands(c) ==
  << Cna("CNA_CBUF_CON0", F(Banks - FdBanks(c), 4, 4) \cup F(FdBanks(c), 4, 0)),
     Cna("CNA_CBUF_CON1", F(DataEntries(c), 13, 0)),
     Cna("CNA_CVT_CON0", F(1, 1, 3) \cup F(1, 1, 1) \cup F(1, 1, 0)),
     Cna("CNA_CVT_CON1", F(1, 16, 16)), Cna("CNA_CVT_CON2", F(1, 16, 16)),
     Cna("CNA_CVT_CON3", F(1, 16, 16)), Cna("CNA_CVT_CON4", F(1, 16, 16)) >>

FcCon2Forgotten == <<>>                                   \* mutant: not written
FcCon2 == <<Cna("CNA_FC_CON2", {})>>                      \* weight_offset

InputCommands(c) ==
  Zeros(OP_REG_CNA, <<"CNA_FC_CON0", "CNA_FC_CON1", "CNA_PAD_CON0">>) \o
  << Cna("CNA_FEATURE_DATA_ADDR", InputDma) >> \o FcCon2 \o
  << Cna("CNA_DMA_CON0", F(15, 4, 16) \cup F(15, 4, 0)),
     Cna("CNA_DMA_CON1", F(LineStride, 28, 0)),
     Cna("CNA_DMA_CON2", F(SurfStride(c), 28, 0)),
     Cna("CNA_FC_DATA_SIZE0", F(1, 11, 16) \cup F(c.m, 11, 0)),
     Cna("CNA_FC_DATA_SIZE1", F(c.k, 16, 0)) >>

WeightFetchCommands ==
  Zeros(OP_REG_CNA, <<"CNA_DCOMP_CTRL", "CNA_DCOMP_REGNUM">>) \o
  << Cna("CNA_DCOMP_ADDR0", WeightsDma) >> \o
  Zeros(OP_REG_CNA,
    << "CNA_DCOMP_AMOUNT", "CNA_DCOMP_AMOUNT1", "CNA_DCOMP_AMOUNT2", "CNA_DCOMP_AMOUNT3",
       "CNA_DCOMP_AMOUNT4", "CNA_DCOMP_AMOUNT5", "CNA_DCOMP_AMOUNT6", "CNA_DCOMP_AMOUNT7",
       "CNA_DCOMP_AMOUNT8", "CNA_DCOMP_AMOUNT9", "CNA_DCOMP_AMOUNT10", "CNA_DCOMP_AMOUNT11",
       "CNA_DCOMP_AMOUNT12", "CNA_DCOMP_AMOUNT13", "CNA_DCOMP_AMOUNT14", "CNA_DCOMP_AMOUNT15",
       "CNA_CVT_CON5", "CNA_PAD_CON1" >>)

CoreCommands(c) ==
  << Core("CORE_MISC_CFG", F(Precision(c), 3, 8) \cup F(QdEn(c), 1, 0)),
     Core("CORE_DATAOUT_SIZE_0", F(LastRow(c), 16, 16)),
     Core("CORE_DATAOUT_SIZE_1", F(LastKernel(c), 16, 0)) >> \o
  Zeros(OP_REG_CORE, <<"CORE_CLIP_TRUNCATE", "CORE_3030">>)

OutputCommands(c) ==
  << Dpu("DPU_FEATURE_MODE_CFG", F(15, 4, 5) \cup F(2, 2, 1)),
     Dpu("DPU_DATA_FORMAT",
         F(OutPrecision(c), 3, 29) \cup F(Precision(c), 3, 26) \cup F(Precision(c), 3, 0)),
     Dpu("DPU_OFFSET_PEND", {}),
     Dpu("DPU_DST_BASE_ADD", OutputDma),
     Dpu("DPU_DST_SURF_STRIDE", F(c.m, 28, 4)),
     Dpu("DPU_DATA_CUBE_WIDTH", {}),
     Dpu("DPU_DATA_CUBE_HEIGHT", F(LastRow(c), 13, 0)),
     Dpu("DPU_DATA_CUBE_NOTCH_ADDR", {}),
     Dpu("DPU_DATA_CUBE_CHANNEL", F(LastKernel(c), 13, 16) \cup F(LastKernel(c), 13, 0)) >>

(* Bypassed: relu in bit 6, mul 4, alu 1, and the whole stage 0.           *)
Bypass == {6, 4, 1, 0}

BsCommands(c) ==
  << Dpu("DPU_BS_CFG", Bypass) >> \o
  Zeros(OP_REG_DPU, <<"DPU_BS_ALU_CFG", "DPU_BS_MUL_CFG", "DPU_BS_RELUX_CMP_VALUE">>) \o
  << Dpu("DPU_BS_OW_CFG",
         F(SizeE(c), 3, 8) \cup F(SizeE(c), 3, 5) \cup F(SizeE(c), 3, 2) \cup {1}),
     Dpu("DPU_BS_OW_OP", {}),
     Dpu("DPU_WDMA_SIZE_0", F(LastKernel(c), 13, 0)),
     Dpu("DPU_WDMA_SIZE_1", F(LastRow(c), 13, 16)) >>

BnAndEwCommands(c) ==
  << Dpu("DPU_BN_CFG", Bypass) >> \o
  Zeros(OP_REG_DPU, <<"DPU_BN_ALU_CFG", "DPU_BN_MUL_CFG", "DPU_BN_RELUX_CMP_VALUE">>) \o
  << Dpu("DPU_EW_CFG", {9, 8, 7, 1, 0}),
     Dpu("DPU_EW_CVT_OFFSET_VALUE", {}),
     Dpu("DPU_EW_CVT_SCALE_VALUE", Bits(1)) >> \o
  Zeros(OP_REG_DPU, <<"DPU_EW_RELUX_CMP_VALUE", "DPU_OUT_CVT_OFFSET">>) \o
  << Dpu("DPU_OUT_CVT_SCALE", F(ToFp16(c), 1, 16) \cup F(1, 16, 0)),
     Dpu("DPU_OUT_CVT_SHIFT", {}) >> \o
  Zeros(OP_REG_DPU,
    << "DPU_EW_OP_VALUE_0", "DPU_EW_OP_VALUE_1", "DPU_EW_OP_VALUE_2", "DPU_EW_OP_VALUE_3",
       "DPU_EW_OP_VALUE_4", "DPU_EW_OP_VALUE_5", "DPU_EW_OP_VALUE_6", "DPU_EW_OP_VALUE_7" >>) \o
  << Dpu("DPU_SURFACE_ADD", F(SurfAdd(c), 28, 4)) >>

LutCommands ==
  Zeros(OP_REG_DPU,
    << "DPU_40C4", "DPU_LUT_ACCESS_CFG", "DPU_LUT_ACCESS_DATA", "DPU_LUT_CFG", "DPU_LUT_INFO",
       "DPU_LUT_LE_START", "DPU_LUT_LE_END", "DPU_LUT_LO_START", "DPU_LUT_LO_END",
       "DPU_LUT_LE_SLOPE_SCALE", "DPU_LUT_LE_SLOPE_SHIFT", "DPU_LUT_LO_SLOPE_SCALE",
       "DPU_LUT_LO_SLOPE_SHIFT" >>)

EnableCommands ==
  << NPUOP(Bits(OP_NONE), {}, {}),
     Cmd(OP_REG_PC, "PC_REGISTER_AMOUNTS", {}),
     NPUOP(Bits(OP_40), {}, {}),
     Cmd(OP_ENABLE, "PC_OPERATION_ENABLE", Bits(PC_ENABLES)) >>

gen_matmul_task(c) ==
  ConvCommands(c) \o DataCommands(c) \o WeightCommands(c) \o BufferCommands(c)
    \o InputCommands(c) \o WeightFetchCommands \o CoreCommands(c) \o OutputCommands(c)
    \o BsCommands(c) \o BnAndEwCommands(c) \o LutCommands \o EnableCommands
=============================================================================
