---------------------------- MODULE RegisterMap ----------------------------
(***************************************************************************)
(* src/include/mesa_registers.h: the NPU's registers as Mesa describes     *)
(* them, with the fields of those the command generators write.  A         *)
(* register is its number and, per field, the lowest bit and the width     *)
(* (NAME__SHIFT and the ones of NAME__MASK).  Fields named RESERVED are    *)
(* what is left: named and reserved fields cover every register exactly.   *)
(***************************************************************************)
EXTENDS RegcmdWords

(* enum target, of the units that have registers below.                    *)
Target == [PC |-> \h100, CNA |-> \h200, CORE |-> \h800, DPU |-> \h1000, DPU_RDMA |-> \h2000,
           PPU |-> \h4000, PPU_RDMA |-> \h8000, DDMA |-> \h10000, SDMA |-> \h20000,
           GLOBAL |-> \h40000]

R(no, fields) == [no |-> no, fields |-> fields]
Whole(no) == R(no, [VALUE |-> <<0,32>>])       \* one field of 32 bits

\* the program counter unit.
PcRegs ==
  [ PC_OPERATION_ENABLE |-> R(\h8, [OP_EN |-> <<0,1>>]),
    PC_BASE_ADDRESS |-> R(\h10, [PC_SOURCE_ADDR |-> <<4,28>>, PC_SEL |-> <<0,1>>]),
    PC_REGISTER_AMOUNTS |-> R(\h14, [PC_DATA_AMOUNT |-> <<0,16>>]) ]

\* CNA: register groups and enable.
CnaEnable ==
  [ CNA_S_POINTER |-> R(\h1004, [EXECUTER |-> <<16,1>>, EXECUTER_PP_CLEAR |-> <<5,1>>,
        POINTER_PP_CLEAR |-> <<4,1>>, POINTER_PP_MODE |-> <<3,1>>, EXECUTER_PP_EN |-> <<2,1>>,
        POINTER_PP_EN |-> <<1,1>>, POINTER |-> <<0,1>>]),
    CNA_OPERATION_ENABLE |-> R(\h1008, [OP_EN |-> <<0,1>>]) ]

\* CNA: convolution.
CnaConv ==
  [ CNA_CONV_CON1 |-> R(\h100C, [NONALIGN_DMA |-> <<30,1>>, GROUP_LINE_OFF |-> <<29,1>>,
        DECONV |-> <<16,1>>, ARGB_IN |-> <<12,4>>, PROC_PRECISION |-> <<7,3>>, IN_PRECISION |-> <<4,3>>,
        CONV_MODE |-> <<0,4>>]),
    CNA_CONV_CON2 |-> R(\h1010, [KERNEL_GROUP |-> <<16,8>>, FEATURE_GRAINS |-> <<4,10>>,
        CSC_WO_EN |-> <<2,1>>, CSC_DO_EN |-> <<1,1>>, CMD_FIFO_SRST |-> <<0,1>>]),
    CNA_CONV_CON3 |-> R(\h1014, [NN_MODE |-> <<28,3>>, ATROUS_Y_DILATION |-> <<21,5>>,
        ATROUS_X_DILATION |-> <<16,5>>, DECONV_Y_STRIDE |-> <<11,3>>, DECONV_X_STRIDE |-> <<8,3>>,
        CONV_Y_STRIDE |-> <<3,3>>, CONV_X_STRIDE |-> <<0,3>>]) ]

\* CNA: sizes of data and weights.
CnaSizes ==
  [ CNA_DATA_SIZE0 |-> R(\h1020, [DATAIN_WIDTH |-> <<16,11>>, DATAIN_HEIGHT |-> <<0,11>>]),
    CNA_DATA_SIZE1 |-> R(\h1024, [DATAIN_CHANNEL_REAL |-> <<16,14>>, DATAIN_CHANNEL |-> <<0,16>>]),
    CNA_DATA_SIZE2 |-> R(\h1028, [DATAOUT_WIDTH |-> <<0,11>>]),
    CNA_DATA_SIZE3 |-> R(\h102C, [SURF_MODE |-> <<22,2>>, DATAOUT_ATOMICS |-> <<0,22>>]),
    CNA_WEIGHT_SIZE0 |-> Whole(\h1030),
    CNA_WEIGHT_SIZE1 |-> R(\h1034, [WEIGHT_BYTES_PER_KERNEL |-> <<0,19>>]),
    CNA_WEIGHT_SIZE2 |-> R(\h1038, [WEIGHT_WIDTH |-> <<24,5>>, WEIGHT_HEIGHT |-> <<16,5>>,
        WEIGHT_KERNELS |-> <<0,14>>]) ]

\* CNA: shares of the on-chip buffer.
CnaBuffer ==
  [ CNA_CBUF_CON0 |-> R(\h1040, [WEIGHT_REUSE |-> <<13,1>>, DATA_REUSE |-> <<12,1>>,
        FC_DATA_BANK |-> <<8,3>>, WEIGHT_BANK |-> <<4,4>>, DATA_BANK |-> <<0,4>>]),
    CNA_CBUF_CON1 |-> R(\h1044, [DATA_ENTRIES |-> <<0,14>>]) ]

\* CNA: input conversion.
CnaConvert ==
  [ CNA_CVT_CON0 |-> R(\h104C, [CVT_TRUNCATE_3 |-> <<22,6>>, CVT_TRUNCATE_2 |-> <<16,6>>,
        CVT_TRUNCATE_1 |-> <<10,6>>, CVT_TRUNCATE_0 |-> <<4,6>>, DATA_SIGN |-> <<3,1>>,
        ROUND_TYPE |-> <<2,1>>, CVT_TYPE |-> <<1,1>>, CVT_BYPASS |-> <<0,1>>]),
    CNA_CVT_CON1 |-> R(\h1050, [CVT_SCALE0 |-> <<16,16>>, CVT_OFFSET0 |-> <<0,16>>]),
    CNA_CVT_CON2 |-> R(\h1054, [CVT_SCALE1 |-> <<16,16>>, CVT_OFFSET1 |-> <<0,16>>]),
    CNA_CVT_CON3 |-> R(\h1058, [CVT_SCALE2 |-> <<16,16>>, CVT_OFFSET2 |-> <<0,16>>]),
    CNA_CVT_CON4 |-> R(\h105C, [CVT_SCALE3 |-> <<16,16>>, CVT_OFFSET3 |-> <<0,16>>]) ]

\* CNA: addresses and strides of the input.
CnaFetch ==
  [ CNA_FC_CON0 |-> R(\h1060, [FC_SKIP_DATA |-> <<16,16>>, FC_SKIP_EN |-> <<0,1>>]),
    CNA_FC_CON1 |-> R(\h1064, [DATA_OFFSET |-> <<0,17>>]),
    CNA_PAD_CON0 |-> R(\h1068, [PAD_LEFT |-> <<4,4>>, PAD_TOP |-> <<0,4>>]),
    CNA_FEATURE_DATA_ADDR |-> Whole(\h1070),
    CNA_FC_CON2 |-> R(\h1074, [WEIGHT_OFFSET |-> <<0,17>>]),
    CNA_DMA_CON0 |-> R(\h1078, [OV4K_BYPASS |-> <<31,1>>, WEIGHT_BURST_LEN |-> <<16,4>>,
        DATA_BURST_LEN |-> <<0,4>>]),
    CNA_DMA_CON1 |-> R(\h107C, [LINE_STRIDE |-> <<0,28>>]),
    CNA_DMA_CON2 |-> R(\h1080, [SURF_STRIDE |-> <<0,28>>]) ]

\* CNA: sizes of the full connection.
CnaFullConnect ==
  [ CNA_FC_DATA_SIZE0 |-> R(\h1084, [DMA_WIDTH |-> <<16,14>>, DMA_HEIGHT |-> <<0,11>>]),
    CNA_FC_DATA_SIZE1 |-> R(\h1088, [DMA_CHANNEL |-> <<0,16>>]) ]

\* CNA: weights.
CnaDecompress ==
  [ CNA_DCOMP_CTRL |-> R(\h1100, [WT_DEC_BYPASS |-> <<3,1>>, DECOMP_CONTROL |-> <<0,3>>]),
    CNA_DCOMP_REGNUM |-> Whole(\h1104), CNA_DCOMP_ADDR0 |-> Whole(\h1110),
    CNA_DCOMP_AMOUNT0 |-> Whole(\h1140), CNA_DCOMP_AMOUNT1 |-> Whole(\h1144),
    CNA_DCOMP_AMOUNT2 |-> Whole(\h1148), CNA_DCOMP_AMOUNT3 |-> Whole(\h114C),
    CNA_DCOMP_AMOUNT4 |-> Whole(\h1150), CNA_DCOMP_AMOUNT5 |-> Whole(\h1154),
    CNA_DCOMP_AMOUNT6 |-> Whole(\h1158), CNA_DCOMP_AMOUNT7 |-> Whole(\h115C),
    CNA_DCOMP_AMOUNT8 |-> Whole(\h1160), CNA_DCOMP_AMOUNT9 |-> Whole(\h1164),
    CNA_DCOMP_AMOUNT10 |-> Whole(\h1168), CNA_DCOMP_AMOUNT11 |-> Whole(\h116C),
    CNA_DCOMP_AMOUNT12 |-> Whole(\h1170), CNA_DCOMP_AMOUNT13 |-> Whole(\h1174),
    CNA_DCOMP_AMOUNT14 |-> Whole(\h1178), CNA_DCOMP_AMOUNT15 |-> Whole(\h117C) ]

\* CNA: conversion and padding, continued.
CnaPad ==
  [ CNA_CVT_CON5 |-> Whole(\h1180), CNA_PAD_CON1 |-> Whole(\h1184) ]

\* CORE.
CoreRegs ==
  [ CORE_MISC_CFG |-> R(\h3010, [SOFT_GATING |-> <<14,6>>, PROC_PRECISION |-> <<8,3>>, DW_EN |-> <<1,1>>,
        QD_EN |-> <<0,1>>]),
    CORE_DATAOUT_SIZE_0 |-> R(\h3014, [DATAOUT_HEIGHT |-> <<16,16>>, DATAOUT_WIDTH |-> <<0,16>>]),
    CORE_DATAOUT_SIZE_1 |-> R(\h3018, [DATAOUT_CHANNEL |-> <<0,16>>]),
    CORE_CLIP_TRUNCATE |-> R(\h301C, [ROUND_TYPE |-> <<6,1>>, CLIP_TRUNCATE |-> <<0,5>>]) ]

\* DPU: register groups and enable.
DpuEnable ==
  [ DPU_S_POINTER |-> R(\h4004, [EXECUTER |-> <<16,1>>, EXECUTER_PP_CLEAR |-> <<5,1>>,
        POINTER_PP_CLEAR |-> <<4,1>>, POINTER_PP_MODE |-> <<3,1>>, EXECUTER_PP_EN |-> <<2,1>>,
        POINTER_PP_EN |-> <<1,1>>, POINTER |-> <<0,1>>]),
    DPU_OPERATION_ENABLE |-> R(\h4008, [OP_EN |-> <<0,1>>]) ]

\* DPU: modes, formats and the destination.
DpuFeature ==
  [ DPU_FEATURE_MODE_CFG |-> R(\h400C, [COMB_USE |-> <<31,1>>, TP_EN |-> <<30,1>>, RGP_TYPE |-> <<26,4>>,
        NONALIGN |-> <<25,1>>, SURF_LEN |-> <<9,16>>, BURST_LEN |-> <<5,4>>, CONV_MODE |-> <<3,2>>,
        OUTPUT_MODE |-> <<1,2>>, FLYING_MODE |-> <<0,1>>]),
    DPU_DATA_FORMAT |-> R(\h4010, [OUT_PRECISION |-> <<29,3>>, IN_PRECISION |-> <<26,3>>,
        EW_TRUNCATE_NEG |-> <<16,10>>, BN_MUL_SHIFT_VALUE_NEG |-> <<10,6>>,
        BS_MUL_SHIFT_VALUE_NEG |-> <<4,6>>, MC_SURF_OUT |-> <<3,1>>, PROC_PRECISION |-> <<0,3>>]),
    DPU_OFFSET_PEND |-> R(\h4014, [OFFSET_PEND |-> <<0,16>>]),
    DPU_DST_BASE_ADDR |-> Whole(\h4020),
    DPU_DST_SURF_STRIDE |-> R(\h4024, [DST_SURF_STRIDE |-> <<4,28>>]) ]

\* DPU: the data cube.
DpuCube ==
  [ DPU_DATA_CUBE_WIDTH |-> R(\h4030, [WIDTH |-> <<0,13>>]),
    DPU_DATA_CUBE_HEIGHT |-> R(\h4034, [MINMAX_CTL |-> <<22,3>>, HEIGHT |-> <<0,13>>]),
    DPU_DATA_CUBE_NOTCH_ADDR |-> R(\h4038, [NOTCH_ADDR_1 |-> <<16,13>>, NOTCH_ADDR_0 |-> <<0,13>>]),
    DPU_DATA_CUBE_CHANNEL |-> R(\h403C, [ORIG_CHANNEL |-> <<16,13>>, CHANNEL |-> <<0,13>>]) ]

\* DPU: bias and scale.
DpuBs ==
  [ DPU_BS_CFG |-> R(\h4040, [BS_ALU_ALGO |-> <<16,4>>, BS_ALU_SRC |-> <<8,1>>, BS_RELUX_EN |-> <<7,1>>,
        BS_RELU_BYPASS |-> <<6,1>>, BS_MUL_PRELU |-> <<5,1>>, BS_MUL_BYPASS |-> <<4,1>>,
        BS_ALU_BYPASS |-> <<1,1>>, BS_BYPASS |-> <<0,1>>]),
    DPU_BS_ALU_CFG |-> Whole(\h4044),
    DPU_BS_MUL_CFG |-> R(\h4048, [BS_MUL_OPERAND |-> <<16,16>>, BS_MUL_SHIFT_VALUE |-> <<8,6>>,
        BS_TRUNCATE_SRC |-> <<1,1>>, BS_MUL_SRC |-> <<0,1>>]),
    DPU_BS_RELUX_CMP_VALUE |-> Whole(\h404C),
    DPU_BS_OW_CFG |-> R(\h4050, [RGP_CNTER |-> <<28,4>>, TP_ORG_EN |-> <<27,1>>, SIZE_E_2 |-> <<8,3>>,
        SIZE_E_1 |-> <<5,3>>, SIZE_E_0 |-> <<2,3>>, OD_BYPASS |-> <<1,1>>, OW_SRC |-> <<0,1>>]),
    DPU_BS_OW_OP |-> R(\h4054, [OW_OP |-> <<0,16>>]) ]

\* DPU: write DMA.
DpuWdma ==
  [ DPU_WDMA_SIZE_0 |-> R(\h4058, [TP_PRECISION |-> <<27,1>>, SIZE_C_WDMA |-> <<16,11>>,
        CHANNEL_WDMA |-> <<0,13>>]),
    DPU_WDMA_SIZE_1 |-> R(\h405C, [HEIGHT_WDMA |-> <<16,13>>, WIDTH_WDMA |-> <<0,13>>]) ]

\* DPU: batch normalisation.
DpuBn ==
  [ DPU_BN_CFG |-> R(\h4060, [BN_ALU_ALGO |-> <<16,4>>, BN_ALU_SRC |-> <<8,1>>, BN_RELUX_EN |-> <<7,1>>,
        BN_RELU_BYPASS |-> <<6,1>>, BN_MUL_PRELU |-> <<5,1>>, BN_MUL_BYPASS |-> <<4,1>>,
        BN_ALU_BYPASS |-> <<1,1>>, BN_BYPASS |-> <<0,1>>]),
    DPU_BN_ALU_CFG |-> Whole(\h4064),
    DPU_BN_MUL_CFG |-> R(\h4068, [BN_MUL_OPERAND |-> <<16,16>>, BN_MUL_SHIFT_VALUE |-> <<8,6>>,
        BN_TRUNCATE_SRC |-> <<1,1>>, BN_MUL_SRC |-> <<0,1>>]),
    DPU_BN_RELUX_CMP_VALUE |-> Whole(\h406C) ]

\* DPU: element-wise operations.
DpuEw ==
  [ DPU_EW_CFG |-> R(\h4070, [EW_CVT_TYPE |-> <<31,1>>, EW_CVT_ROUND |-> <<30,1>>,
        EW_DATA_MODE |-> <<28,2>>, EDATA_SIZE |-> <<22,2>>, EW_EQUAL_EN |-> <<21,1>>,
        EW_BINARY_EN |-> <<20,1>>, EW_ALU_ALGO |-> <<16,4>>, EW_RELUX_EN |-> <<10,1>>,
        EW_RELU_BYPASS |-> <<9,1>>, EW_OP_CVT_BYPASS |-> <<8,1>>, EW_LUT_BYPASS |-> <<7,1>>,
        EW_OP_SRC |-> <<6,1>>, EW_MUL_PRELU |-> <<5,1>>, EW_OP_TYPE |-> <<2,1>>, EW_OP_BYPASS |-> <<1,1>>,
        EW_BYPASS |-> <<0,1>>]),
    DPU_EW_CVT_OFFSET_VALUE |-> Whole(\h4074),
    DPU_EW_CVT_SCALE_VALUE |-> R(\h4078, [EW_TRUNCATE |-> <<22,10>>, EW_OP_CVT_SHIFT |-> <<16,6>>,
        EW_OP_CVT_SCALE |-> <<0,16>>]),
    DPU_EW_RELUX_CMP_VALUE |-> Whole(\h407C) ]

\* DPU: output conversion.
DpuOutput ==
  [ DPU_OUT_CVT_OFFSET |-> Whole(\h4080),
    DPU_OUT_CVT_SCALE |-> R(\h4084, [FP32TOFP16_EN |-> <<16,1>>, OUT_CVT_SCALE |-> <<0,16>>]),
    DPU_OUT_CVT_SHIFT |-> R(\h4088, [CVT_TYPE |-> <<31,1>>, CVT_ROUND |-> <<30,1>>,
        MINUS_EXP |-> <<12,8>>, OUT_CVT_SHIFT |-> <<0,12>>]) ]

\* DPU: element-wise operands.
DpuOperands ==
  [ DPU_EW_OP_VALUE_0 |-> Whole(\h4090), DPU_EW_OP_VALUE_1 |-> Whole(\h4094),
    DPU_EW_OP_VALUE_2 |-> Whole(\h4098), DPU_EW_OP_VALUE_3 |-> Whole(\h409C),
    DPU_EW_OP_VALUE_4 |-> Whole(\h40A0), DPU_EW_OP_VALUE_5 |-> Whole(\h40A4),
    DPU_EW_OP_VALUE_6 |-> Whole(\h40A8), DPU_EW_OP_VALUE_7 |-> Whole(\h40AC) ]

\* DPU: surface increment and lookup tables.
DpuLut ==
  [ DPU_SURFACE_ADD |-> R(\h40C0, [SURF_ADD |-> <<4,28>>]),
    DPU_LUT_ACCESS_CFG |-> R(\h4100, [LUT_ACCESS_TYPE |-> <<17,1>>, LUT_TABLE_ID |-> <<16,1>>,
        LUT_ADDR |-> <<0,10>>]),
    DPU_LUT_ACCESS_DATA |-> R(\h4104, [LUT_ACCESS_DATA |-> <<0,16>>]),
    DPU_LUT_CFG |-> R(\h4108, [LUT_CAL_SEL |-> <<7,1>>, LUT_HYBRID_PRIORITY |-> <<6,1>>,
        LUT_OFLOW_PRIORITY |-> <<5,1>>, LUT_UFLOW_PRIORITY |-> <<4,1>>, LUT_LO_LE_MUX |-> <<2,2>>,
        LUT_EXPAND_EN |-> <<1,1>>, LUT_ROAD_SEL |-> <<0,1>>]),
    DPU_LUT_INFO |-> R(\h410C, [LUT_LO_INDEX_SELECT |-> <<16,8>>, LUT_LE_INDEX_SELECT |-> <<8,8>>]) ]

\* DPU: ranges and slopes of the lookup tables.
DpuLutRanges ==
  [ DPU_LUT_LE_START |-> Whole(\h4110), DPU_LUT_LE_END |-> Whole(\h4114),
    DPU_LUT_LO_START |-> Whole(\h4118), DPU_LUT_LO_END |-> Whole(\h411C),
    DPU_LUT_LE_SLOPE_SCALE |-> R(\h4120, [LUT_LE_SLOPE_OFLOW_SCALE |-> <<16,16>>,
        LUT_LE_SLOPE_UFLOW_SCALE |-> <<0,16>>]),
    DPU_LUT_LE_SLOPE_SHIFT |-> R(\h4124, [LUT_LE_SLOPE_OFLOW_SHIFT |-> <<5,5>>,
        LUT_LE_SLOPE_UFLOW_SHIFT |-> <<0,5>>]),
    DPU_LUT_LO_SLOPE_SCALE |-> R(\h4128, [LUT_LO_SLOPE_OFLOW_SCALE |-> <<16,16>>,
        LUT_LO_SLOPE_UFLOW_SCALE |-> <<0,16>>]),
    DPU_LUT_LO_SLOPE_SHIFT |-> R(\h412C, [LUT_LO_SLOPE_OFLOW_SHIFT |-> <<5,5>>,
        LUT_LO_SLOPE_UFLOW_SHIFT |-> <<0,5>>]) ]

\* DPU_RDMA: register groups and enable.
RdmaEnable ==
  [ DPU_RDMA_RDMA_S_POINTER |-> R(\h5004, [EXECUTER |-> <<16,1>>, EXECUTER_PP_CLEAR |-> <<5,1>>,
        POINTER_PP_CLEAR |-> <<4,1>>, POINTER_PP_MODE |-> <<3,1>>, EXECUTER_PP_EN |-> <<2,1>>,
        POINTER_PP_EN |-> <<1,1>>, POINTER |-> <<0,1>>]),
    DPU_RDMA_RDMA_OPERATION_ENABLE |-> R(\h5008, [OP_EN |-> <<0,1>>]) ]

\* DPU_RDMA: the data cube.
RdmaCube ==
  [ DPU_RDMA_RDMA_DATA_CUBE_WIDTH |-> R(\h500C, [WIDTH |-> <<0,13>>]),
    DPU_RDMA_RDMA_DATA_CUBE_HEIGHT |-> R(\h5010, [EW_LINE_NOTCH_ADDR |-> <<16,13>>,
        HEIGHT |-> <<0,13>>]),
    DPU_RDMA_RDMA_DATA_CUBE_CHANNEL |-> R(\h5014, [CHANNEL |-> <<0,13>>]) ]

\* DPU_RDMA: surfaces and weights.
RdmaSurface ==
  [ DPU_RDMA_RDMA_SURF_NOTCH |-> R(\h504C, [SURF_NOTCH_ADDR |-> <<4,28>>]),
    DPU_RDMA_RDMA_PAD_CFG |-> R(\h5064, [PAD_VALUE |-> <<16,16>>, PAD_TOP |-> <<4,3>>,
        PAD_LEFT |-> <<0,3>>]),
    DPU_RDMA_RDMA_WEIGHT |-> R(\h5068, [E_WEIGHT |-> <<24,8>>, N_WEIGHT |-> <<16,8>>,
        B_WEIGHT |-> <<8,8>>, M_WEIGHT |-> <<0,8>>]),
    DPU_RDMA_RDMA_EW_SURF_NOTCH |-> R(\h506C, [EW_SURF_NOTCH |-> <<4,28>>]) ]

Groups ==
  { PcRegs, CnaEnable, CnaConv, CnaSizes, CnaBuffer, CnaConvert, CnaFetch, CnaFullConnect,
    CnaDecompress, CnaPad, CoreRegs, DpuEnable, DpuFeature, DpuCube, DpuBs, DpuWdma, DpuBn, DpuEw,
    DpuOutput, DpuOperands, DpuLut, DpuLutRanges, RdmaEnable, RdmaCube, RdmaSurface }

Registers == [reg \in UNION {DOMAIN g : g \in Groups} |-> (CHOOSE g \in Groups : reg \in DOMAIN g)[reg]]

-----------------------------------------------------------------------------
(* The inline functions NAME_FIELD(val) of the header, and the macros of   *)
(* src/include/mesa_helpers.h that repeat them: val shifted to the field's *)
(* place and cut to its mask.                                              *)
Shift(reg, f) == Registers[reg].fields[f][1]
Width(reg, f) == Registers[reg].fields[f][2]
Mask(reg, f) == Shift(reg, f) .. Shift(reg, f) + Width(reg, f) - 1
Field(reg, f, v) == Shl(v, Shift(reg, f)) \cap Mask(reg, f)

(* What a field of a register holds.                                       *)
FieldOf(reg, f, word) == Shr(word \cap Mask(reg, f), Shift(reg, f))
Reserved(reg, word) == word \ UNION {Mask(reg, f) : f \in DOMAIN Registers[reg].fields}

-----------------------------------------------------------------------------
(* rkt_get_target: the unit a register belongs to, 0 if there is no such   *)
(* register.                                                               *)
Words(first, last) == {first + 4 * i : i \in 0 .. (last - first) \div 4}

PcNumbers == Words(\h0, \h8) \cup Words(\h10, \h14) \cup Words(\h20, \h34) \cup {\h3C}

CnaNumbers ==
  Words(\h1000, \h1014) \cup Words(\h1020, \h1038) \cup Words(\h1040, \h1044)
    \cup Words(\h104C, \h1068) \cup Words(\h1070, \h1088) \cup {\h1090}
    \cup Words(\h1100, \h1104) \cup {\h1110} \cup Words(\h1140, \h1184)

CoreNumbers == Words(\h3000, \h301C)

DpuNumbers ==
  Words(\h4000, \h4014) \cup Words(\h4020, \h4024) \cup Words(\h4030, \h4088)
    \cup Words(\h4090, \h40AC) \cup {\h40C0} \cup Words(\h4100, \h412C)

RdmaNumbers ==
  Words(\h5000, \h5020) \cup Words(\h5028, \h502C) \cup Words(\h5034, \h5038)
    \cup Words(\h5040, \h504C) \cup Words(\h5064, \h506C)

PpuNumbers ==
  Words(\h6000, \h6024) \cup Words(\h6034, \h6048) \cup {\h6070, \h607C, \h6084, \h60DC}

UnitRegs ==
  [ PC |-> PcNumbers,
    CNA |-> CnaNumbers,
    CORE |-> CoreNumbers,
    DPU |-> DpuNumbers,
    DPU_RDMA |-> RdmaNumbers,
    PPU |-> PpuNumbers,
    PPU_RDMA |-> Words(\h7000, \h7014) \cup Words(\h7024, \h7028) \cup {\h701C, \h7030},
    DDMA |-> Words(\h8000, \h8018) \cup Words(\h8020, \h8030),
    SDMA |-> Words(\h9000, \h9018) \cup Words(\h9020, \h9030),
    GLOBAL |-> {\hF008} ]

rkt_get_target(offset) ==
  IF \E u \in DOMAIN UnitRegs : offset \in UnitRegs[u]
  THEN Target[CHOOSE u \in DOMAIN UnitRegs : offset \in UnitRegs[u]]
  ELSE 0
=============================================================================
