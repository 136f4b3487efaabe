----------------------------- MODULE RegcmdFull -----------------------------
(***************************************************************************)
(* src/src/npu_matmul_full.c: the commands of gen_matmul_fp16, written     *)
(* with the registers of mesa_registers.h and the fields of                *)
(* mesa_helpers.h.  The file is not built, and cannot be: it names         *)
(* registers and fields no header declares.  Their commands keep their     *)
(* place in the list, as NoWord.                                           *)
(***************************************************************************)
EXTENDS RegisterMap, Sequences

CONSTANTS InputDma, WeightsDma, OutputDma   \* DMA addresses, 32 bits each

NoWord == {-1}
RAW(target, no, value) == <<MESA_REGCMD(Bits(target), value, Bits(no))>>
EMIT(unit, name, value) ==
  IF name \in DOMAIN Registers THEN RAW(Target[unit], Registers[name].no, value) ELSE <<NoWord>>
Zeros(unit, names) == [i \in DOMAIN names |-> EMIT(unit, names[i], {})[1]]

(* A field with a number in it.                                            *)
F(reg, f, n) == Field(reg, f, Bits(n))

-----------------------------------------------------------------------------
BankShares == EMIT("CNA", "CNA_CBUF_CON0", F("CNA_CBUF_CON0", "WEIGHT_BANK", 1)
                                             \cup F("CNA_CBUF_CON0", "DATA_BANK", 1))

Pointers(reg) == F(reg, "POINTER_PP_MODE", 1) \cup F(reg, "EXECUTER_PP_EN", 1)
                   \cup F(reg, "POINTER_PP_EN", 1)

Conv == EMIT("CNA", "CNA_CONV_CON1", F("CNA_CONV_CON1", "IN_PRECISION", 2)
                                       \cup F("CNA_CONV_CON1", "PROC_PRECISION", 2))

Prologue ==
  BankShares \o Zeros("CNA", <<"CNA_DCOMP_REGNUM", "CNA_DCOMP_CTRL">>) \o Conv
    \o EMIT("DPU", "DPU_S_POINTER", Pointers("DPU_S_POINTER"))
    \o EMIT("DPU", "DPU_RDMA_RDMA_S_POINTER", Pointers("DPU_RDMA_RDMA_S_POINTER"))

BanksOneShare ==                         \* mutant: no bank for the weights
  EMIT("CNA", "CNA_CBUF_CON0", F("CNA_CBUF_CON0", "DATA_BANK", 1))
BanksAgain == BankShares                 \* "CBUF_CON0 again (Mesa does this)"

Sizes(c) ==
  Conv
    \o EMIT("CNA", "CNA_CONV_CON2", F("CNA_CONV_CON2", "FEATURE_GRAINS", 52))
    \o EMIT("CNA", "CNA_CONV_CON3", F("CNA_CONV_CON3", "CONV_X_STRIDE", 1)
                                      \cup F("CNA_CONV_CON3", "CONV_Y_STRIDE", 1))
    \o EMIT("CNA", "CNA_DATA_SIZE0", F("CNA_DATA_SIZE0", "DATAIN_WIDTH", 1)
                                       \cup F("CNA_DATA_SIZE0", "DATAIN_HEIGHT", c.m))
    \o EMIT("CNA", "CNA_DATA_SIZE1", F("CNA_DATA_SIZE1", "DATAIN_CHANNEL_REAL", c.k - 1)
                                       \cup F("CNA_DATA_SIZE1", "DATAIN_CHANNEL", c.k))
    \o EMIT("CNA", "CNA_DATA_SIZE2", F("CNA_DATA_SIZE2", "DATAOUT_WIDTH", 1))
    \o EMIT("CNA", "CNA_DATA_SIZE3", F("CNA_DATA_SIZE3", "DATAOUT_ATOMICS", c.m))
    \o EMIT("CNA", "CNA_WEIGHT_SIZE0", IntBits(c.k * c.n))
    \o EMIT("CNA", "CNA_WEIGHT_SIZE1", IntBits(c.k))
    \o EMIT("CNA", "CNA_WEIGHT_SIZE2", F("CNA_WEIGHT_SIZE2", "WEIGHT_WIDTH", 1)
                                         \cup F("CNA_WEIGHT_SIZE2", "WEIGHT_HEIGHT", 1)
                                         \cup F("CNA_WEIGHT_SIZE2", "WEIGHT_KERNELS", c.n))
    \o BanksAgain
    \o EMIT("CNA", "CNA_CBUF_CON1", F("CNA_CBUF_CON1", "DATA_ENTRIES", c.m * c.k))

Input ==
  EMIT("CNA", "CNA_CVT_CON0", F("CNA_CVT_CON0", "DATA_SIGN", 1)
                                \cup F("CNA_CVT_CON0", "CVT_TYPE", 1)
                                \cup F("CNA_CVT_CON0", "CVT_BYPASS", 1))
    \o EMIT("CNA", "CNA_CVT_CON1", F("CNA_CVT_CON1", "CVT_SCALE0", 1))
    \o EMIT("CNA", "CNA_CVT_CON2", F("CNA_CVT_CON2", "CVT_SCALE1", 1))
    \o EMIT("CNA", "CNA_CVT_CON3", F("CNA_CVT_CON3", "CVT_SCALE2", 1))
    \o EMIT("CNA", "CNA_CVT_CON4", F("CNA_CVT_CON4", "CVT_SCALE3", 1))
    \o Zeros("CNA", <<"CNA_FC_CON0", "CNA_FC_CON1", "CNA_PAD_CON0">>)
    \o EMIT("CNA", "CNA_FEATURE_DATA_ADDR", InputDma)
    \o Zeros("CNA",
         << "CNA_FC_CON2", "CNA_FC_DATA_SIZE0", "CNA_FC_DATA_SIZE1", "CNA_DCOMP_CTRL",
            "CNA_DCOMP_REGNUM" >>)
    \o EMIT("CNA", "CNA_DCOMP_ADDR0", WeightsDma)
    \o Zeros("CNA",
         << "CNA_DCOMP_AMOUNT0", "CNA_DCOMP_AMOUNT1", "CNA_DCOMP_AMOUNT2",
            "CNA_DCOMP_AMOUNT3", "CNA_DCOMP_AMOUNT4", "CNA_DCOMP_AMOUNT5",
            "CNA_DCOMP_AMOUNT6", "CNA_DCOMP_AMOUNT7", "CNA_DCOMP_AMOUNT8",
            "CNA_DCOMP_AMOUNT9", "CNA_DCOMP_AMOUNT10", "CNA_DCOMP_AMOUNT11",
            "CNA_DCOMP_AMOUNT12", "CNA_DCOMP_AMOUNT13", "CNA_DCOMP_AMOUNT14",
            "CNA_DCOMP_AMOUNT15", "CNA_CVT_CON5", "CNA_PAD_CON1" >>)

Core(c) ==
  EMIT("CORE", "CORE_MISC_CFG", F("CORE_MISC_CFG", "QD_EN", 1))
    \o EMIT("CORE", "CORE_DATAOUT_SIZE_0", F("CORE_DATAOUT_SIZE_0", "DATAOUT_WIDTH", 1)
                                        \cup F("CORE_DATAOUT_SIZE_0", "DATAOUT_HEIGHT", c.m - 1))
    \o EMIT("CORE", "CORE_DATAOUT_SIZE_1", F("CORE_DATAOUT_SIZE_1", "DATAOUT_CHANNEL", c.n - 1))
    \o Zeros("CORE", <<"CORE_CLIP_TRUNCATE">>)
    \o RAW(Target["CORE"] + 1, \h3030, {})

(* The stride and the height are ints that no field cuts.                  *)
Output(c) ==
  EMIT("DPU", "DPU_FEATURE_MODE_CFG", F("DPU_FEATURE_MODE_CFG", "BURST_LEN", 15)
                                        \cup F("DPU_FEATURE_MODE_CFG", "OUTPUT_MODE", 2))
    \o Zeros("DPU", <<"DPU_DATA_FORMAT", "DPU_OFFSET_PEND">>)
    \o EMIT("DPU", "DPU_DST_BASE_ADDR", OutputDma)
    \o EMIT("DPU", "DPU_DST_SURF_STRIDE", TwiceBits(c.m * c.n))
    \o Zeros("DPU", <<"DPU_DATA_CUBE_WIDTH">>)
    \o EMIT("DPU", "DPU_DATA_CUBE_HEIGHT", IntBits(c.m - 1))
    \o Zeros("DPU", <<"DPU_DATA_CUBE_NOTCH_ADDR">>)
    \o EMIT("DPU", "DPU_DATA_CUBE_CHANNEL", F("DPU_DATA_CUBE_CHANNEL", "ORIG_CHANNEL", c.n - 1)
                                          \cup F("DPU_DATA_CUBE_CHANNEL", "CHANNEL", c.n - 1))
    \o EMIT("DPU", "DPU_BS_CFG",
            F("DPU_BS_CFG", "BS_ALU_ALGO", 2) \cup F("DPU_BS_CFG", "BS_ALU_SRC", 1)
              \cup F("DPU_BS_CFG", "BS_RELU_BYPASS", 1) \cup F("DPU_BS_CFG", "BS_MUL_BYPASS", 1))
    \o Zeros("DPU", <<"DPU_BS_ALU_CFG", "DPU_BS_MUL_CFG", "DPU_BS_RELUX_CMP_VALUE">>)
    \o EMIT("DPU", "DPU_BS_OW_CFG", F("DPU_BS_OW_CFG", "SIZE_E_2", 1)
              \cup F("DPU_BS_OW_CFG", "SIZE_E_1", 1) \cup F("DPU_BS_OW_CFG", "SIZE_E_0", 1))
    \o Zeros("DPU", <<"DPU_BS_OW_OP">>)
    \o EMIT("DPU", "DPU_WDMA_SIZE_0", F("DPU_WDMA_SIZE_0", "CHANNEL_WDMA", c.n - 1))
    \o EMIT("DPU", "DPU_WDMA_SIZE_1", F("DPU_WDMA_SIZE_1", "HEIGHT_WDMA", c.m - 1))

(* EW_CFG and LUT_CFG take fields declared nowhere (EW_ALU_SRC,            *)
(* EW_MUL_BYPASS, LUT_LE_FUNCTION).                                        *)
Stages ==
  EMIT("DPU", "DPU_BN_CFG", F("DPU_BN_CFG", "BN_BYPASS", 1))
    \o Zeros("DPU",
         << "DPU_BN_ALU_CFG", "DPU_BN_MUL_CFG", "DPU_BN_RELUX_CMP_VALUE", "DPU_BN_OW_CFG" >>)
    \o <<NoWord>>
    \o Zeros("DPU",
         << "DPU_EW_ALU_CFG", "DPU_EW_ALU_CVT_OFFSET_VALUE", "DPU_EW_ALU_CVT_SCALE_VALUE",
            "DPU_EW_ALU_CVT_TRUNCATE_VALUE", "DPU_EW_MUL_CFG", "DPU_EW_MUL_CVT_OFFSET_VALUE",
            "DPU_EW_MUL_CVT_SCALE_VALUE", "DPU_EW_MUL_CVT_TRUNCATE_VALUE",
            "DPU_EW_RELUX_CMP_VALUE", "DPU_EW_OW_CFG", "DPU_OUT_CVT_CFG",
            "DPU_OUT_CVT_OFFSET", "DPU_OUT_CVT_SCALE", "DPU_OUT_CVT_SHIFT",
            "DPU_SURFACE_ADD" >>)
    \o <<NoWord>>
    \o Zeros("DPU",
         << "DPU_LUT_INFO", "DPU_LUT_LE_START_LOW", "DPU_LUT_LE_START_HIGH",
            "DPU_LUT_LE_END_LOW", "DPU_LUT_LE_END_HIGH", "DPU_LUT_LO_START_LOW",
            "DPU_LUT_LO_START_HIGH", "DPU_LUT_LO_END_LOW", "DPU_LUT_LO_END_HIGH",
            "DPU_LUT_LE_SLOPE_SCALE", "DPU_LUT_LE_SLOPE_SHIFT", "DPU_LUT_LO_SLOPE_SCALE",
            "DPU_LUT_LO_SLOPE_SHIFT" >>)

Rdma(c) ==
  Zeros("DPU", <<"DPU_RDMA_RDMA_CFG", "DPU_RDMA_RDMA_DATA_CUBE_WIDTH">>)
    \o EMIT("DPU", "DPU_RDMA_RDMA_DATA_CUBE_HEIGHT", IntBits(c.m - 1))
    \o EMIT("DPU", "DPU_RDMA_RDMA_DATA_CUBE_CHANNEL", IntBits(c.n - 1))
    \o EMIT("DPU", "DPU_RDMA_RDMA_BASE_ADDR", OutputDma)
    \o EMIT("DPU", "DPU_RDMA_RDMA_SURF_STRIDE", TwiceBits(c.m * c.n))
    \o Zeros("DPU", <<"DPU_RDMA_RDMA_SURF_NOTCH", "DPU_RDMA_RDMA_PAD_CFG">>)
    \o EMIT("DPU", "DPU_RDMA_RDMA_WEIGHT",
            UNION {F("DPU_RDMA_RDMA_WEIGHT", f, 1) :
                     f \in {"E_WEIGHT", "N_WEIGHT", "B_WEIGHT", "M_WEIGHT"}})
    \o Zeros("DPU", <<"DPU_RDMA_RDMA_EW_SURF_NOTCH">>)
    \o Zeros("PC", <<"PC_BASE_ADDRESS", "PC_REGISTER_AMOUNTS">>)

-----------------------------------------------------------------------------
(* The two commands at the end that name no unit: the "magic value"        *)
(* 0x0041000000000000, and the enable with target 0x81, RESERVED_0 = 14    *)
(* and OP_EN = 1.                                                          *)
Ending ==
  RAW(\h41, 0, {})
    \o RAW(\h81, Registers["PC_OPERATION_ENABLE"].no,
           Shl(Bits(14), 1) \cup F("PC_OPERATION_ENABLE", "OP_EN", 1))

gen_matmul_fp16(c) ==
  Prologue \o Sizes(c) \o Input \o Core(c) \o Output(c) \o Stages \o Rdma(c) \o Ending
=============================================================================
