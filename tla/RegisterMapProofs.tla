------------------------- MODULE RegisterMapProofs -------------------------
(***************************************************************************)
(* The registers of mesa_registers.h: a name stands in one group, no two   *)
(* registers have one number, rkt_get_target finds the unit that a         *)
(* register is named for, and what is read from their fields.              *)
(***************************************************************************)
EXTENDS RegisterMap, RegcmdWordsProofs

(* The names in each group.                                                *)
LEMMA GroupNames ==
  /\ DOMAIN PcRegs = {"PC_OPERATION_ENABLE", "PC_BASE_ADDRESS", "PC_REGISTER_AMOUNTS"}
  /\ DOMAIN CnaEnable = {"CNA_S_POINTER", "CNA_OPERATION_ENABLE"}
  /\ DOMAIN CnaConv = {"CNA_CONV_CON1", "CNA_CONV_CON2", "CNA_CONV_CON3"}
  /\ DOMAIN CnaSizes =
       {"CNA_DATA_SIZE0", "CNA_DATA_SIZE1", "CNA_DATA_SIZE2", "CNA_DATA_SIZE3",
        "CNA_WEIGHT_SIZE0", "CNA_WEIGHT_SIZE1", "CNA_WEIGHT_SIZE2"}
  /\ DOMAIN CnaBuffer = {"CNA_CBUF_CON0", "CNA_CBUF_CON1"}
  /\ DOMAIN CnaConvert =
       {"CNA_CVT_CON0", "CNA_CVT_CON1", "CNA_CVT_CON2", "CNA_CVT_CON3", "CNA_CVT_CON4"}
  /\ DOMAIN CnaFetch =
       {"CNA_FC_CON0", "CNA_FC_CON1", "CNA_PAD_CON0", "CNA_FEATURE_DATA_ADDR", "CNA_FC_CON2",
        "CNA_DMA_CON0", "CNA_DMA_CON1", "CNA_DMA_CON2"}
  /\ DOMAIN CnaFullConnect = {"CNA_FC_DATA_SIZE0", "CNA_FC_DATA_SIZE1"}
  /\ DOMAIN CnaDecompress =
       {"CNA_DCOMP_CTRL", "CNA_DCOMP_REGNUM", "CNA_DCOMP_ADDR0", "CNA_DCOMP_AMOUNT0",
        "CNA_DCOMP_AMOUNT1", "CNA_DCOMP_AMOUNT2", "CNA_DCOMP_AMOUNT3", "CNA_DCOMP_AMOUNT4",
        "CNA_DCOMP_AMOUNT5", "CNA_DCOMP_AMOUNT6", "CNA_DCOMP_AMOUNT7", "CNA_DCOMP_AMOUNT8",
        "CNA_DCOMP_AMOUNT9", "CNA_DCOMP_AMOUNT10", "CNA_DCOMP_AMOUNT11", "CNA_DCOMP_AMOUNT12",
        "CNA_DCOMP_AMOUNT13", "CNA_DCOMP_AMOUNT14", "CNA_DCOMP_AMOUNT15"}
  /\ DOMAIN CnaPad = {"CNA_CVT_CON5", "CNA_PAD_CON1"}
  /\ DOMAIN CoreRegs =
       {"CORE_MISC_CFG", "CORE_DATAOUT_SIZE_0", "CORE_DATAOUT_SIZE_1", "CORE_CLIP_TRUNCATE"}
  /\ DOMAIN DpuEnable = {"DPU_S_POINTER", "DPU_OPERATION_ENABLE"}
  /\ DOMAIN DpuFeature =
       {"DPU_FEATURE_MODE_CFG", "DPU_DATA_FORMAT", "DPU_OFFSET_PEND", "DPU_DST_BASE_ADDR",
        "DPU_DST_SURF_STRIDE"}
  /\ DOMAIN DpuCube =
       {"DPU_DATA_CUBE_WIDTH", "DPU_DATA_CUBE_HEIGHT", "DPU_DATA_CUBE_NOTCH_ADDR",
        "DPU_DATA_CUBE_CHANNEL"}
  /\ DOMAIN DpuBs =
       {"DPU_BS_CFG", "DPU_BS_ALU_CFG", "DPU_BS_MUL_CFG", "DPU_BS_RELUX_CMP_VALUE",
        "DPU_BS_OW_CFG", "DPU_BS_OW_OP"}
  /\ DOMAIN DpuWdma = {"DPU_WDMA_SIZE_0", "DPU_WDMA_SIZE_1"}
  /\ DOMAIN DpuBn = {"DPU_BN_CFG", "DPU_BN_ALU_CFG", "DPU_BN_MUL_CFG", "DPU_BN_RELUX_CMP_VALUE"}
  /\ DOMAIN DpuEw =
       {"DPU_EW_CFG", "DPU_EW_CVT_OFFSET_VALUE", "DPU_EW_CVT_SCALE_VALUE",
        "DPU_EW_RELUX_CMP_VALUE"}
  /\ DOMAIN DpuOutput = {"DPU_OUT_CVT_OFFSET", "DPU_OUT_CVT_SCALE", "DPU_OUT_CVT_SHIFT"}
  /\ DOMAIN DpuOperands =
       {"DPU_EW_OP_VALUE_0", "DPU_EW_OP_VALUE_1", "DPU_EW_OP_VALUE_2", "DPU_EW_OP_VALUE_3",
        "DPU_EW_OP_VALUE_4", "DPU_EW_OP_VALUE_5", "DPU_EW_OP_VALUE_6", "DPU_EW_OP_VALUE_7"}
  /\ DOMAIN DpuLut =
       {"DPU_SURFACE_ADD", "DPU_LUT_ACCESS_CFG", "DPU_LUT_ACCESS_DATA", "DPU_LUT_CFG",
        "DPU_LUT_INFO"}
  /\ DOMAIN DpuLutRanges =
       {"DPU_LUT_LE_START", "DPU_LUT_LE_END", "DPU_LUT_LO_START", "DPU_LUT_LO_END",
        "DPU_LUT_LE_SLOPE_SCALE", "DPU_LUT_LE_SLOPE_SHIFT", "DPU_LUT_LO_SLOPE_SCALE",
        "DPU_LUT_LO_SLOPE_SHIFT"}
  /\ DOMAIN RdmaEnable = {"DPU_RDMA_RDMA_S_POINTER", "DPU_RDMA_RDMA_OPERATION_ENABLE"}
  /\ DOMAIN RdmaCube =
       {"DPU_RDMA_RDMA_DATA_CUBE_WIDTH", "DPU_RDMA_RDMA_DATA_CUBE_HEIGHT",
        "DPU_RDMA_RDMA_DATA_CUBE_CHANNEL"}
  /\ DOMAIN RdmaSurface =
       {"DPU_RDMA_RDMA_SURF_NOTCH", "DPU_RDMA_RDMA_PAD_CFG", "DPU_RDMA_RDMA_WEIGHT",
        "DPU_RDMA_RDMA_EW_SURF_NOTCH"}
<1>1. DOMAIN PcRegs = {"PC_OPERATION_ENABLE", "PC_BASE_ADDRESS", "PC_REGISTER_AMOUNTS"}
  BY DEF PcRegs
<1>2. DOMAIN CnaEnable = {"CNA_S_POINTER", "CNA_OPERATION_ENABLE"}
  BY DEF CnaEnable
<1>3. DOMAIN CnaConv = {"CNA_CONV_CON1", "CNA_CONV_CON2", "CNA_CONV_CON3"}
  BY DEF CnaConv
<1>4. DOMAIN CnaSizes =
         {"CNA_DATA_SIZE0", "CNA_DATA_SIZE1", "CNA_DATA_SIZE2", "CNA_DATA_SIZE3",
          "CNA_WEIGHT_SIZE0", "CNA_WEIGHT_SIZE1", "CNA_WEIGHT_SIZE2"}
  BY DEF CnaSizes
<1>5. DOMAIN CnaBuffer = {"CNA_CBUF_CON0", "CNA_CBUF_CON1"}
  BY DEF CnaBuffer
<1>6. DOMAIN CnaConvert =
         {"CNA_CVT_CON0", "CNA_CVT_CON1", "CNA_CVT_CON2", "CNA_CVT_CON3", "CNA_CVT_CON4"}
  BY DEF CnaConvert
<1>7. DOMAIN CnaFetch =
         {"CNA_FC_CON0", "CNA_FC_CON1", "CNA_PAD_CON0", "CNA_FEATURE_DATA_ADDR", "CNA_FC_CON2",
          "CNA_DMA_CON0", "CNA_DMA_CON1", "CNA_DMA_CON2"}
  BY DEF CnaFetch
<1>8. DOMAIN CnaFullConnect = {"CNA_FC_DATA_SIZE0", "CNA_FC_DATA_SIZE1"}
  BY DEF CnaFullConnect
<1>9. DOMAIN CnaDecompress =
         {"CNA_DCOMP_CTRL", "CNA_DCOMP_REGNUM", "CNA_DCOMP_ADDR0", "CNA_DCOMP_AMOUNT0",
          "CNA_DCOMP_AMOUNT1", "CNA_DCOMP_AMOUNT2", "CNA_DCOMP_AMOUNT3", "CNA_DCOMP_AMOUNT4",
          "CNA_DCOMP_AMOUNT5", "CNA_DCOMP_AMOUNT6", "CNA_DCOMP_AMOUNT7", "CNA_DCOMP_AMOUNT8",
          "CNA_DCOMP_AMOUNT9", "CNA_DCOMP_AMOUNT10", "CNA_DCOMP_AMOUNT11", "CNA_DCOMP_AMOUNT12",
          "CNA_DCOMP_AMOUNT13", "CNA_DCOMP_AMOUNT14", "CNA_DCOMP_AMOUNT15"}
  BY DEF CnaDecompress
<1>10. DOMAIN CnaPad = {"CNA_CVT_CON5", "CNA_PAD_CON1"}
  BY DEF CnaPad
<1>11. DOMAIN CoreRegs =
         {"CORE_MISC_CFG", "CORE_DATAOUT_SIZE_0", "CORE_DATAOUT_SIZE_1", "CORE_CLIP_TRUNCATE"}
  BY DEF CoreRegs
<1>12. DOMAIN DpuEnable = {"DPU_S_POINTER", "DPU_OPERATION_ENABLE"}
  BY DEF DpuEnable
<1>13. DOMAIN DpuFeature =
         {"DPU_FEATURE_MODE_CFG", "DPU_DATA_FORMAT", "DPU_OFFSET_PEND", "DPU_DST_BASE_ADDR",
          "DPU_DST_SURF_STRIDE"}
  BY DEF DpuFeature
<1>14. DOMAIN DpuCube =
         {"DPU_DATA_CUBE_WIDTH", "DPU_DATA_CUBE_HEIGHT", "DPU_DATA_CUBE_NOTCH_ADDR",
          "DPU_DATA_CUBE_CHANNEL"}
  BY DEF DpuCube
<1>15. DOMAIN DpuBs =
         {"DPU_BS_CFG", "DPU_BS_ALU_CFG", "DPU_BS_MUL_CFG", "DPU_BS_RELUX_CMP_VALUE",
          "DPU_BS_OW_CFG", "DPU_BS_OW_OP"}
  BY DEF DpuBs
<1>16. DOMAIN DpuWdma = {"DPU_WDMA_SIZE_0", "DPU_WDMA_SIZE_1"}
  BY DEF DpuWdma
<1>17. DOMAIN DpuBn = {"DPU_BN_CFG", "DPU_BN_ALU_CFG", "DPU_BN_MUL_CFG", "DPU_BN_RELUX_CMP_VALUE"}
  BY DEF DpuBn
<1>18. DOMAIN DpuEw =
         {"DPU_EW_CFG", "DPU_EW_CVT_OFFSET_VALUE", "DPU_EW_CVT_SCALE_VALUE",
          "DPU_EW_RELUX_CMP_VALUE"}
  BY DEF DpuEw
<1>19. DOMAIN DpuOutput = {"DPU_OUT_CVT_OFFSET", "DPU_OUT_CVT_SCALE", "DPU_OUT_CVT_SHIFT"}
  BY DEF DpuOutput
<1>20. DOMAIN DpuOperands =
         {"DPU_EW_OP_VALUE_0", "DPU_EW_OP_VALUE_1", "DPU_EW_OP_VALUE_2", "DPU_EW_OP_VALUE_3",
          "DPU_EW_OP_VALUE_4", "DPU_EW_OP_VALUE_5", "DPU_EW_OP_VALUE_6", "DPU_EW_OP_VALUE_7"}
  BY DEF DpuOperands
<1>21. DOMAIN DpuLut =
         {"DPU_SURFACE_ADD", "DPU_LUT_ACCESS_CFG", "DPU_LUT_ACCESS_DATA", "DPU_LUT_CFG",
          "DPU_LUT_INFO"}
  BY DEF DpuLut
<1>22. DOMAIN DpuLutRanges =
         {"DPU_LUT_LE_START", "DPU_LUT_LE_END", "DPU_LUT_LO_START", "DPU_LUT_LO_END",
          "DPU_LUT_LE_SLOPE_SCALE", "DPU_LUT_LE_SLOPE_SHIFT", "DPU_LUT_LO_SLOPE_SCALE",
          "DPU_LUT_LO_SLOPE_SHIFT"}
  BY DEF DpuLutRanges
<1>23. DOMAIN RdmaEnable = {"DPU_RDMA_RDMA_S_POINTER", "DPU_RDMA_RDMA_OPERATION_ENABLE"}
  BY DEF RdmaEnable
<1>24. DOMAIN RdmaCube =
         {"DPU_RDMA_RDMA_DATA_CUBE_WIDTH", "DPU_RDMA_RDMA_DATA_CUBE_HEIGHT",
          "DPU_RDMA_RDMA_DATA_CUBE_CHANNEL"}
  BY DEF RdmaCube
<1>25. DOMAIN RdmaSurface =
         {"DPU_RDMA_RDMA_SURF_NOTCH", "DPU_RDMA_RDMA_PAD_CFG", "DPU_RDMA_RDMA_WEIGHT",
          "DPU_RDMA_RDMA_EW_SURF_NOTCH"}
  BY DEF RdmaSurface
<1> QED
  BY <1>1, <1>2, <1>3, <1>4, <1>5, <1>6, <1>7, <1>8, <1>9, <1>10, <1>11, <1>12, <1>13, <1>14,
     <1>15, <1>16, <1>17, <1>18, <1>19, <1>20, <1>21, <1>22, <1>23, <1>24, <1>25

(* The groups of registers that there are.                                 *)
LEMMA AllGroups ==
  /\ {PcRegs, CnaEnable, CnaConv, CnaSizes, CnaBuffer, CnaConvert, CnaFetch, CnaFullConnect,
      CnaDecompress, CnaPad, CoreRegs, DpuEnable, DpuFeature, DpuCube, DpuBs, DpuWdma, DpuBn,
      DpuEw, DpuOutput, DpuOperands, DpuLut, DpuLutRanges, RdmaEnable, RdmaCube, RdmaSurface}
       \subseteq Groups
  /\ \A g \in Groups : g \in {PcRegs, CnaEnable, CnaConv, CnaSizes, CnaBuffer, CnaConvert,
        CnaFetch, CnaFullConnect, CnaDecompress, CnaPad, CoreRegs, DpuEnable, DpuFeature, DpuCube,
        DpuBs, DpuWdma, DpuBn, DpuEw, DpuOutput, DpuOperands, DpuLut, DpuLutRanges, RdmaEnable,
        RdmaCube, RdmaSurface}
BY DEF Groups

(* Each name stands in one of them.                                        *)
LEMMA OneGroup ==
  \A g, h \in Groups : \A x : x \in DOMAIN g /\ x \in DOMAIN h => h = g
<1>1. \A h \in Groups : \A x : x \in DOMAIN PcRegs /\ x \in DOMAIN h => h = PcRegs
  BY SMTT(90), GroupNames, AllGroups
<1>2. \A h \in Groups : \A x : x \in DOMAIN CnaEnable /\ x \in DOMAIN h => h = CnaEnable
  BY SMTT(90), GroupNames, AllGroups
<1>3. \A h \in Groups : \A x : x \in DOMAIN CnaConv /\ x \in DOMAIN h => h = CnaConv
  BY SMTT(90), GroupNames, AllGroups
<1>4. \A h \in Groups : \A x : x \in DOMAIN CnaSizes /\ x \in DOMAIN h => h = CnaSizes
  BY SMTT(90), GroupNames, AllGroups
<1>5. \A h \in Groups : \A x : x \in DOMAIN CnaBuffer /\ x \in DOMAIN h => h = CnaBuffer
  BY SMTT(90), GroupNames, AllGroups
<1>6. \A h \in Groups : \A x : x \in DOMAIN CnaConvert /\ x \in DOMAIN h => h = CnaConvert
  BY SMTT(90), GroupNames, AllGroups
<1>7. \A h \in Groups : \A x : x \in DOMAIN CnaFetch /\ x \in DOMAIN h => h = CnaFetch
  BY SMTT(90), GroupNames, AllGroups
<1>8. \A h \in Groups : \A x : x \in DOMAIN CnaFullConnect /\ x \in DOMAIN h => h = CnaFullConnect
  BY SMTT(90), GroupNames, AllGroups
<1>9. \A h \in Groups : \A x : x \in DOMAIN CnaDecompress /\ x \in DOMAIN h => h = CnaDecompress
  BY SMTT(90), GroupNames, AllGroups
<1>10. \A h \in Groups : \A x : x \in DOMAIN CnaPad /\ x \in DOMAIN h => h = CnaPad
  BY SMTT(90), GroupNames, AllGroups
<1>11. \A h \in Groups : \A x : x \in DOMAIN CoreRegs /\ x \in DOMAIN h => h = CoreRegs
  BY SMTT(90), GroupNames, AllGroups
<1>12. \A h \in Groups : \A x : x \in DOMAIN DpuEnable /\ x \in DOMAIN h => h = DpuEnable
  BY SMTT(90), GroupNames, AllGroups
<1>13. \A h \in Groups : \A x : x \in DOMAIN DpuFeature /\ x \in DOMAIN h => h = DpuFeature
  BY SMTT(90), GroupNames, AllGroups
<1>14. \A h \in Groups : \A x : x \in DOMAIN DpuCube /\ x \in DOMAIN h => h = DpuCube
  BY SMTT(90), GroupNames, AllGroups
<1>15. \A h \in Groups : \A x : x \in DOMAIN DpuBs /\ x \in DOMAIN h => h = DpuBs
  BY SMTT(90), GroupNames, AllGroups
<1>16. \A h \in Groups : \A x : x \in DOMAIN DpuWdma /\ x \in DOMAIN h => h = DpuWdma
  BY SMTT(90), GroupNames, AllGroups
<1>17. \A h \in Groups : \A x : x \in DOMAIN DpuBn /\ x \in DOMAIN h => h = DpuBn
  BY SMTT(90), GroupNames, AllGroups
<1>18. \A h \in Groups : \A x : x \in DOMAIN DpuEw /\ x \in DOMAIN h => h = DpuEw
  BY SMTT(90), GroupNames, AllGroups
<1>19. \A h \in Groups : \A x : x \in DOMAIN DpuOutput /\ x \in DOMAIN h => h = DpuOutput
  BY SMTT(90), GroupNames, AllGroups
<1>20. \A h \in Groups : \A x : x \in DOMAIN DpuOperands /\ x \in DOMAIN h => h = DpuOperands
  BY SMTT(90), GroupNames, AllGroups
<1>21. \A h \in Groups : \A x : x \in DOMAIN DpuLut /\ x \in DOMAIN h => h = DpuLut
  BY SMTT(90), GroupNames, AllGroups
<1>22. \A h \in Groups : \A x : x \in DOMAIN DpuLutRanges /\ x \in DOMAIN h => h = DpuLutRanges
  BY SMTT(90), GroupNames, AllGroups
<1>23. \A h \in Groups : \A x : x \in DOMAIN RdmaEnable /\ x \in DOMAIN h => h = RdmaEnable
  BY SMTT(90), GroupNames, AllGroups
<1>24. \A h \in Groups : \A x : x \in DOMAIN RdmaCube /\ x \in DOMAIN h => h = RdmaCube
  BY SMTT(90), GroupNames, AllGroups
<1>25. \A h \in Groups : \A x : x \in DOMAIN RdmaSurface /\ x \in DOMAIN h => h = RdmaSurface
  BY SMTT(90), GroupNames, AllGroups
<1> QED
  BY AllGroups, <1>1, <1>2, <1>3, <1>4, <1>5, <1>6, <1>7, <1>8, <1>9, <1>10, <1>11, <1>12, <1>13,
     <1>14, <1>15, <1>16, <1>17, <1>18, <1>19, <1>20, <1>21, <1>22, <1>23, <1>24, <1>25

(* A name that stands in one group only is found there.                    *)
LEMMA Found ==
  ASSUME NEW g \in Groups, NEW x \in DOMAIN g, \A h \in Groups : x \in DOMAIN h => h = g
  PROVE  Registers[x] = g[x]
<1>1. x \in UNION {DOMAIN h : h \in Groups}
  BY Zenon
<1>2. (CHOOSE h \in Groups : x \in DOMAIN h) = g
  BY Zenon
<1> QED
  BY <1>1, <1>2, Zenon DEF Registers

(* So Registers has what the group has.                                    *)
LEMMA InGroups ==
  /\ \A x \in DOMAIN PcRegs : Registers[x] = PcRegs[x]
  /\ \A x \in DOMAIN CnaEnable : Registers[x] = CnaEnable[x]
  /\ \A x \in DOMAIN CnaConv : Registers[x] = CnaConv[x]
  /\ \A x \in DOMAIN CnaSizes : Registers[x] = CnaSizes[x]
  /\ \A x \in DOMAIN CnaBuffer : Registers[x] = CnaBuffer[x]
  /\ \A x \in DOMAIN CnaConvert : Registers[x] = CnaConvert[x]
  /\ \A x \in DOMAIN CnaFetch : Registers[x] = CnaFetch[x]
  /\ \A x \in DOMAIN CnaFullConnect : Registers[x] = CnaFullConnect[x]
  /\ \A x \in DOMAIN CnaDecompress : Registers[x] = CnaDecompress[x]
  /\ \A x \in DOMAIN CnaPad : Registers[x] = CnaPad[x]
  /\ \A x \in DOMAIN CoreRegs : Registers[x] = CoreRegs[x]
  /\ \A x \in DOMAIN DpuEnable : Registers[x] = DpuEnable[x]
  /\ \A x \in DOMAIN DpuFeature : Registers[x] = DpuFeature[x]
  /\ \A x \in DOMAIN DpuCube : Registers[x] = DpuCube[x]
  /\ \A x \in DOMAIN DpuBs : Registers[x] = DpuBs[x]
  /\ \A x \in DOMAIN DpuWdma : Registers[x] = DpuWdma[x]
  /\ \A x \in DOMAIN DpuBn : Registers[x] = DpuBn[x]
  /\ \A x \in DOMAIN DpuEw : Registers[x] = DpuEw[x]
  /\ \A x \in DOMAIN DpuOutput : Registers[x] = DpuOutput[x]
  /\ \A x \in DOMAIN DpuOperands : Registers[x] = DpuOperands[x]
  /\ \A x \in DOMAIN DpuLut : Registers[x] = DpuLut[x]
  /\ \A x \in DOMAIN DpuLutRanges : Registers[x] = DpuLutRanges[x]
  /\ \A x \in DOMAIN RdmaEnable : Registers[x] = RdmaEnable[x]
  /\ \A x \in DOMAIN RdmaCube : Registers[x] = RdmaCube[x]
  /\ \A x \in DOMAIN RdmaSurface : Registers[x] = RdmaSurface[x]
<1>1. \A g \in Groups : \A x \in DOMAIN g : Registers[x] = g[x]
  <2> SUFFICES ASSUME NEW g \in Groups, NEW x \in DOMAIN g PROVE Registers[x] = g[x]
    OBVIOUS
  <2>1. \A h \in Groups : x \in DOMAIN h => h = g
    BY OneGroup, Zenon
  <2> QED
    BY <2>1, Found
<1> QED
  BY <1>1, AllGroups

(* The names of the registers are those of the groups.                     *)
LEMMA RegisterNames ==
  /\ \A x \in DOMAIN Registers : \E g \in Groups : x \in DOMAIN g
  /\ \A g \in Groups : \A x \in DOMAIN g : x \in DOMAIN Registers
BY DEF Registers

-----------------------------------------------------------------------------
(* Numbers.                                                                *)

(* The numbers of some registers: between two bounds, four bytes apart, no *)
(* two the same.                                                           *)
Spread(names, first, last) ==
  \A x \in names :
    /\ Registers[x].no \in first..last
    /\ Registers[x].no % 4 = 0
    /\ \A y \in names : Registers[y].no = Registers[x].no => y = x

(* The numbers of each group lie between its first and its last.           *)
LEMMA GroupNumbers ==
  /\ Spread(DOMAIN PcRegs, \h8, \h14)
  /\ Spread(DOMAIN CnaEnable, \h1004, \h1008)
  /\ Spread(DOMAIN CnaConv, \h100C, \h1014)
  /\ Spread(DOMAIN CnaSizes, \h1020, \h1038)
  /\ Spread(DOMAIN CnaBuffer, \h1040, \h1044)
  /\ Spread(DOMAIN CnaConvert, \h104C, \h105C)
  /\ Spread(DOMAIN CnaFetch, \h1060, \h1080)
  /\ Spread(DOMAIN CnaFullConnect, \h1084, \h1088)
  /\ Spread(DOMAIN CnaDecompress, \h1100, \h117C)
  /\ Spread(DOMAIN CnaPad, \h1180, \h1184)
  /\ Spread(DOMAIN CoreRegs, \h3010, \h301C)
  /\ Spread(DOMAIN DpuEnable, \h4004, \h4008)
  /\ Spread(DOMAIN DpuFeature, \h400C, \h4024)
  /\ Spread(DOMAIN DpuCube, \h4030, \h403C)
  /\ Spread(DOMAIN DpuBs, \h4040, \h4054)
  /\ Spread(DOMAIN DpuWdma, \h4058, \h405C)
  /\ Spread(DOMAIN DpuBn, \h4060, \h406C)
  /\ Spread(DOMAIN DpuEw, \h4070, \h407C)
  /\ Spread(DOMAIN DpuOutput, \h4080, \h4088)
  /\ Spread(DOMAIN DpuOperands, \h4090, \h40AC)
  /\ Spread(DOMAIN DpuLut, \h40C0, \h410C)
  /\ Spread(DOMAIN DpuLutRanges, \h4110, \h412C)
  /\ Spread(DOMAIN RdmaEnable, \h5004, \h5008)
  /\ Spread(DOMAIN RdmaCube, \h500C, \h5014)
  /\ Spread(DOMAIN RdmaSurface, \h504C, \h506C)
<1>1. Spread(DOMAIN PcRegs, \h8, \h14)
  BY InGroups, GroupNames DEF Spread, PcRegs, R, Whole
<1>2. Spread(DOMAIN CnaEnable, \h1004, \h1008)
  BY InGroups, GroupNames DEF Spread, CnaEnable, R, Whole
<1>3. Spread(DOMAIN CnaConv, \h100C, \h1014)
  BY InGroups, GroupNames DEF Spread, CnaConv, R, Whole
<1>4. Spread(DOMAIN CnaSizes, \h1020, \h1038)
  BY InGroups, GroupNames DEF Spread, CnaSizes, R, Whole
<1>5. Spread(DOMAIN CnaBuffer, \h1040, \h1044)
  BY InGroups, GroupNames DEF Spread, CnaBuffer, R, Whole
<1>6. Spread(DOMAIN CnaConvert, \h104C, \h105C)
  BY InGroups, GroupNames DEF Spread, CnaConvert, R, Whole
<1>7. Spread(DOMAIN CnaFetch, \h1060, \h1080)
  BY InGroups, GroupNames DEF Spread, CnaFetch, R, Whole
<1>8. Spread(DOMAIN CnaFullConnect, \h1084, \h1088)
  BY InGroups, GroupNames DEF Spread, CnaFullConnect, R, Whole
<1>9. Spread(DOMAIN CnaDecompress, \h1100, \h117C)
  <2>1. /\ Registers["CNA_DCOMP_CTRL"].no = \h1100
        /\ Registers["CNA_DCOMP_REGNUM"].no = \h1104
        /\ Registers["CNA_DCOMP_ADDR0"].no = \h1110
        /\ Registers["CNA_DCOMP_AMOUNT0"].no = \h1140
        /\ Registers["CNA_DCOMP_AMOUNT1"].no = \h1144
        /\ Registers["CNA_DCOMP_AMOUNT2"].no = \h1148
        /\ Registers["CNA_DCOMP_AMOUNT3"].no = \h114C
        /\ Registers["CNA_DCOMP_AMOUNT4"].no = \h1150
        /\ Registers["CNA_DCOMP_AMOUNT5"].no = \h1154
        /\ Registers["CNA_DCOMP_AMOUNT6"].no = \h1158
        /\ Registers["CNA_DCOMP_AMOUNT7"].no = \h115C
        /\ Registers["CNA_DCOMP_AMOUNT8"].no = \h1160
        /\ Registers["CNA_DCOMP_AMOUNT9"].no = \h1164
        /\ Registers["CNA_DCOMP_AMOUNT10"].no = \h1168
        /\ Registers["CNA_DCOMP_AMOUNT11"].no = \h116C
        /\ Registers["CNA_DCOMP_AMOUNT12"].no = \h1170
        /\ Registers["CNA_DCOMP_AMOUNT13"].no = \h1174
        /\ Registers["CNA_DCOMP_AMOUNT14"].no = \h1178
        /\ Registers["CNA_DCOMP_AMOUNT15"].no = \h117C
    BY SMTT(90), InGroups, GroupNames DEF CnaDecompress, R, Whole
  <2> QED
    BY SMTT(90), <2>1, GroupNames DEF Spread
<1>10. Spread(DOMAIN CnaPad, \h1180, \h1184)
  BY InGroups, GroupNames DEF Spread, CnaPad, R, Whole
<1>11. Spread(DOMAIN CoreRegs, \h3010, \h301C)
  BY InGroups, GroupNames DEF Spread, CoreRegs, R, Whole
<1>12. Spread(DOMAIN DpuEnable, \h4004, \h4008)
  BY InGroups, GroupNames DEF Spread, DpuEnable, R, Whole
<1>13. Spread(DOMAIN DpuFeature, \h400C, \h4024)
  BY InGroups, GroupNames DEF Spread, DpuFeature, R, Whole
<1>14. Spread(DOMAIN DpuCube, \h4030, \h403C)
  BY InGroups, GroupNames DEF Spread, DpuCube, R, Whole
<1>15. Spread(DOMAIN DpuBs, \h4040, \h4054)
  BY SMTT(90), InGroups, GroupNames DEF Spread, DpuBs, R, Whole
<1>16. Spread(DOMAIN DpuWdma, \h4058, \h405C)
  BY InGroups, GroupNames DEF Spread, DpuWdma, R, Whole
<1>17. Spread(DOMAIN DpuBn, \h4060, \h406C)
  BY SMTT(300), InGroups, GroupNames DEF Spread, DpuBn, R, Whole
<1>18. Spread(DOMAIN DpuEw, \h4070, \h407C)
  BY InGroups, GroupNames DEF Spread, DpuEw, R, Whole
<1>19. Spread(DOMAIN DpuOutput, \h4080, \h4088)
  BY InGroups, GroupNames DEF Spread, DpuOutput, R, Whole
<1>20. Spread(DOMAIN DpuOperands, \h4090, \h40AC)
  BY InGroups, GroupNames DEF Spread, DpuOperands, R, Whole
<1>21. Spread(DOMAIN DpuLut, \h40C0, \h410C)
  BY InGroups, GroupNames DEF Spread, DpuLut, R, Whole
<1>22. Spread(DOMAIN DpuLutRanges, \h4110, \h412C)
  BY InGroups, GroupNames DEF Spread, DpuLutRanges, R, Whole
<1>23. Spread(DOMAIN RdmaEnable, \h5004, \h5008)
  BY InGroups, GroupNames DEF Spread, RdmaEnable, R, Whole
<1>24. Spread(DOMAIN RdmaCube, \h500C, \h5014)
  BY InGroups, GroupNames DEF Spread, RdmaCube, R, Whole
<1>25. Spread(DOMAIN RdmaSurface, \h504C, \h506C)
  BY InGroups, GroupNames DEF Spread, RdmaSurface, R, Whole
<1> QED
  BY <1>1, <1>2, <1>3, <1>4, <1>5, <1>6, <1>7, <1>8, <1>9, <1>10, <1>11, <1>12, <1>13, <1>14,
     <1>15, <1>16, <1>17, <1>18, <1>19, <1>20, <1>21, <1>22, <1>23, <1>24, <1>25

(* They are of 16 bits, and no two registers have one number.              *)
LEMMA NumberBounds ==
  \A x \in DOMAIN Registers :
    Registers[x].no \in Nat /\ 0 < Registers[x].no /\ Registers[x].no < 65536
<1> TAKE x \in DOMAIN Registers
<1>1. PICK g \in Groups : x \in DOMAIN g
  BY RegisterNames
<1>2. PICK a : a = Registers[x].no
  OBVIOUS
<1>3. \/ g = PcRegs /\ a \in \h8..\h14
      \/ g = CnaEnable /\ a \in \h1004..\h1008
      \/ g = CnaConv /\ a \in \h100C..\h1014
      \/ g = CnaSizes /\ a \in \h1020..\h1038
      \/ g = CnaBuffer /\ a \in \h1040..\h1044
      \/ g = CnaConvert /\ a \in \h104C..\h105C
      \/ g = CnaFetch /\ a \in \h1060..\h1080
      \/ g = CnaFullConnect /\ a \in \h1084..\h1088
      \/ g = CnaDecompress /\ a \in \h1100..\h117C
      \/ g = CnaPad /\ a \in \h1180..\h1184
      \/ g = CoreRegs /\ a \in \h3010..\h301C
      \/ g = DpuEnable /\ a \in \h4004..\h4008
      \/ g = DpuFeature /\ a \in \h400C..\h4024
      \/ g = DpuCube /\ a \in \h4030..\h403C
      \/ g = DpuBs /\ a \in \h4040..\h4054
      \/ g = DpuWdma /\ a \in \h4058..\h405C
      \/ g = DpuBn /\ a \in \h4060..\h406C
      \/ g = DpuEw /\ a \in \h4070..\h407C
      \/ g = DpuOutput /\ a \in \h4080..\h4088
      \/ g = DpuOperands /\ a \in \h4090..\h40AC
      \/ g = DpuLut /\ a \in \h40C0..\h410C
      \/ g = DpuLutRanges /\ a \in \h4110..\h412C
      \/ g = RdmaEnable /\ a \in \h5004..\h5008
      \/ g = RdmaCube /\ a \in \h500C..\h5014
      \/ g = RdmaSurface /\ a \in \h504C..\h506C
  BY <1>1, <1>2, AllGroups, GroupNumbers DEF Spread
<1>4. a \in Nat /\ 0 < a /\ a < 65536
  BY <1>3
<1> QED
  BY <1>2, <1>4

(* No two registers have one number.                                       *)
LEMMA NumbersDiffer ==
  \A x, y \in DOMAIN Registers : Registers[x].no = Registers[y].no => x = y
<1> SUFFICES ASSUME NEW x \in DOMAIN Registers, NEW y \in DOMAIN Registers,
                    Registers[x].no = Registers[y].no
             PROVE  x = y
  OBVIOUS
<1>1. PICK g \in Groups : x \in DOMAIN g
  BY RegisterNames
<1>2. PICK h \in Groups : y \in DOMAIN h
  BY RegisterNames
<1>3. PICK a : a = Registers[x].no
  OBVIOUS
<1>4. a = Registers[y].no
  BY <1>3
<1>5. \/ g = PcRegs /\ a \in \h8..\h14
      \/ g = CnaEnable /\ a \in \h1004..\h1008
      \/ g = CnaConv /\ a \in \h100C..\h1014
      \/ g = CnaSizes /\ a \in \h1020..\h1038
      \/ g = CnaBuffer /\ a \in \h1040..\h1044
      \/ g = CnaConvert /\ a \in \h104C..\h105C
      \/ g = CnaFetch /\ a \in \h1060..\h1080
      \/ g = CnaFullConnect /\ a \in \h1084..\h1088
      \/ g = CnaDecompress /\ a \in \h1100..\h117C
      \/ g = CnaPad /\ a \in \h1180..\h1184
      \/ g = CoreRegs /\ a \in \h3010..\h301C
      \/ g = DpuEnable /\ a \in \h4004..\h4008
      \/ g = DpuFeature /\ a \in \h400C..\h4024
      \/ g = DpuCube /\ a \in \h4030..\h403C
      \/ g = DpuBs /\ a \in \h4040..\h4054
      \/ g = DpuWdma /\ a \in \h4058..\h405C
      \/ g = DpuBn /\ a \in \h4060..\h406C
      \/ g = DpuEw /\ a \in \h4070..\h407C
      \/ g = DpuOutput /\ a \in \h4080..\h4088
      \/ g = DpuOperands /\ a \in \h4090..\h40AC
      \/ g = DpuLut /\ a \in \h40C0..\h410C
      \/ g = DpuLutRanges /\ a \in \h4110..\h412C
      \/ g = RdmaEnable /\ a \in \h5004..\h5008
      \/ g = RdmaCube /\ a \in \h500C..\h5014
      \/ g = RdmaSurface /\ a \in \h504C..\h506C
  BY <1>1, <1>3, AllGroups, GroupNumbers DEF Spread
<1>6. \/ h = PcRegs /\ a \in \h8..\h14
      \/ h = CnaEnable /\ a \in \h1004..\h1008
      \/ h = CnaConv /\ a \in \h100C..\h1014
      \/ h = CnaSizes /\ a \in \h1020..\h1038
      \/ h = CnaBuffer /\ a \in \h1040..\h1044
      \/ h = CnaConvert /\ a \in \h104C..\h105C
      \/ h = CnaFetch /\ a \in \h1060..\h1080
      \/ h = CnaFullConnect /\ a \in \h1084..\h1088
      \/ h = CnaDecompress /\ a \in \h1100..\h117C
      \/ h = CnaPad /\ a \in \h1180..\h1184
      \/ h = CoreRegs /\ a \in \h3010..\h301C
      \/ h = DpuEnable /\ a \in \h4004..\h4008
      \/ h = DpuFeature /\ a \in \h400C..\h4024
      \/ h = DpuCube /\ a \in \h4030..\h403C
      \/ h = DpuBs /\ a \in \h4040..\h4054
      \/ h = DpuWdma /\ a \in \h4058..\h405C
      \/ h = DpuBn /\ a \in \h4060..\h406C
      \/ h = DpuEw /\ a \in \h4070..\h407C
      \/ h = DpuOutput /\ a \in \h4080..\h4088
      \/ h = DpuOperands /\ a \in \h4090..\h40AC
      \/ h = DpuLut /\ a \in \h40C0..\h410C
      \/ h = DpuLutRanges /\ a \in \h4110..\h412C
      \/ h = RdmaEnable /\ a \in \h5004..\h5008
      \/ h = RdmaCube /\ a \in \h500C..\h5014
      \/ h = RdmaSurface /\ a \in \h504C..\h506C
  BY <1>2, <1>4, AllGroups, GroupNumbers DEF Spread
<1>7. g = h
  <2>0. a \in Nat
    BY <1>5
  <2>1. CASE g = PcRegs /\ a \in \h8..\h14
    BY SMTT(90), <2>1, <1>6
  <2>2. CASE g = CnaEnable /\ a \in \h1004..\h1008
    BY <2>2, <1>6
  <2>3. CASE g = CnaConv /\ a \in \h100C..\h1014
    BY <2>3, <1>6
  <2>4. CASE g = CnaSizes /\ a \in \h1020..\h1038
    BY SMTT(90), <2>4, <1>6
  <2>5. CASE g = CnaBuffer /\ a \in \h1040..\h1044
    BY <2>5, <1>6
  <2>6. CASE g = CnaConvert /\ a \in \h104C..\h105C
    BY SMTT(90), <2>6, <1>6
  <2>7. CASE g = CnaFetch /\ a \in \h1060..\h1080
    BY SMTT(90), <2>7, <1>6
  <2>8. CASE g = CnaFullConnect /\ a \in \h1084..\h1088
    BY <2>8, <1>6
  <2>9. CASE g = CnaDecompress /\ a \in \h1100..\h117C
    BY SMTT(90), <2>9, <1>6
  <2>10. CASE g = CnaPad /\ a \in \h1180..\h1184
    BY <2>10, <1>6
  <2>11. CASE g = CoreRegs /\ a \in \h3010..\h301C
    BY SMTT(90), <2>11, <1>6
  <2>12. CASE g = DpuEnable /\ a \in \h4004..\h4008
    BY <2>12, <1>6
  <2>13. CASE g = DpuFeature /\ a \in \h400C..\h4024
    BY SMTT(90), <2>13, <1>6
  <2>14. CASE g = DpuCube /\ a \in \h4030..\h403C
    BY SMTT(90), <2>14, <1>6
  <2>15. CASE g = DpuBs /\ a \in \h4040..\h4054
    BY SMTT(90), <2>15, <1>6
  <2>16. CASE g = DpuWdma /\ a \in \h4058..\h405C
    BY <2>16, <1>6
  <2>17. CASE g = DpuBn /\ a \in \h4060..\h406C
    BY SMTT(90), <2>17, <1>6
  <2>18. CASE g = DpuEw /\ a \in \h4070..\h407C
    BY SMTT(90), <2>18, <1>6
  <2>19. CASE g = DpuOutput /\ a \in \h4080..\h4088
    BY SMTT(90), <2>19, <1>6
  <2>20. CASE g = DpuOperands /\ a \in \h4090..\h40AC
    BY SMTT(90), <2>20, <1>6
  <2>21. CASE g = DpuLut /\ a \in \h40C0..\h410C
    BY SMTT(90), <2>21, <1>6
  <2>22. CASE g = DpuLutRanges /\ a \in \h4110..\h412C
    BY SMTT(90), <2>22, <1>6
  <2>23. CASE g = RdmaEnable /\ a \in \h5004..\h5008
    BY <2>23, <1>6
  <2>24. CASE g = RdmaCube /\ a \in \h500C..\h5014
    BY SMTT(90), <2>24, <1>6
  <2>25. CASE g = RdmaSurface /\ a \in \h504C..\h506C
    BY SMTT(90), <2>25, <1>6
  <2> QED
    BY <1>5, <2>1, <2>2, <2>3, <2>4, <2>5, <2>6, <2>7, <2>8, <2>9, <2>10, <2>11, <2>12, <2>13,
       <2>14, <2>15, <2>16, <2>17, <2>18, <2>19, <2>20, <2>21, <2>22, <2>23, <2>24, <2>25
<1>8. \A p, q \in DOMAIN g : Registers[p].no = Registers[q].no => p = q
  BY SMTT(90), AllGroups, GroupNumbers DEF Spread
<1> QED
  BY <1>1, <1>2, <1>7, <1>8

(* What a field holds is the bits of the word in its place.                *)
LEMMA FieldRead ==
  ASSUME NEW reg, NEW f, NEW s \in Nat, NEW w \in Nat, Registers[reg].fields[f] = <<s, w>>,
         NEW word \in SUBSET Nat, NEW x \in SUBSET Low(w),
         \A i \in 0..w-1 : i + s \in word <=> i \in x
  PROVE  FieldOf(reg, f, word) = x
<1>1. Shift(reg, f) = s /\ Width(reg, f) = w
  BY DEF Shift, Width
<1>2. Mask(reg, f) = s .. s + w - 1
  BY <1>1 DEF Mask
<1>3. FieldOf(reg, f, word) = Shr(word \cap (s .. s + w - 1), s)
  BY <1>1, <1>2 DEF FieldOf
<1>4. ASSUME NEW i \in Nat
      PROVE  i \in Shr(word \cap (s .. s + w - 1), s) <=> i \in x
  <2>1. i \in Shr(word \cap (s .. s + w - 1), s) <=> i + s \in word \cap (s .. s + w - 1)
    BY ShiftedBits
  <2>2. i + s \in s .. s + w - 1 <=> i \in 0..w-1
    OBVIOUS
  <2>3. i \in x => i \in 0..w-1
    BY DEF Low
  <2> QED
    BY <2>1, <2>2, <2>3
<1>5. Shr(word \cap (s .. s + w - 1), s) \subseteq Nat /\ x \subseteq Nat
  BY ShiftedWords DEF Low
<1> QED
  BY <1>3, <1>4, <1>5

-----------------------------------------------------------------------------
(* Units by number.                                                        *)

(* Words(first, last) is the register numbers from first to last, four     *)
(* apart.                                                                  *)
LEMMA WordsBetween ==
  \A first, last \in Nat : first <= last =>
    \A no \in Words(first, last) : no \in Nat /\ first <= no /\ no <= last
<1> SUFFICES ASSUME NEW first \in Nat, NEW last \in Nat, first <= last,
                    NEW i \in 0 .. (last - first) \div 4
             PROVE  first + 4 * i \in first..last
  BY DEF Words
<1>1. 4 * ((last - first) \div 4) <= last - first
  OBVIOUS
<1> QED
  BY <1>1

(* A number of one of these ranges is one of its words.                    *)
LEMMA WordsHave ==
  ASSUME NEW first \in Nat, NEW last \in Nat, NEW no \in first..last, (no - first) % 4 = 0
  PROVE  no \in Words(first, last)
<1> DEFINE i == (no - first) \div 4
<1>1. i \in 0 .. (last - first) \div 4 /\ no = first + 4 * i
  OBVIOUS
<1> QED
  BY <1>1 DEF Words

(* The units' numbers do not overlap.                                      *)
LEMMA UnitRanges ==
  /\ \A no \in UnitRegs["PC"] : no \in Nat /\ \h0 <= no /\ no <= \h3C
  /\ \A no \in UnitRegs["CNA"] : no \in Nat /\ \h1000 <= no /\ no <= \h1184
  /\ \A no \in UnitRegs["CORE"] : no \in Nat /\ \h3000 <= no /\ no <= \h301C
  /\ \A no \in UnitRegs["DPU"] : no \in Nat /\ \h4000 <= no /\ no <= \h412C
  /\ \A no \in UnitRegs["DPU_RDMA"] : no \in Nat /\ \h5000 <= no /\ no <= \h506C
  /\ \A no \in UnitRegs["PPU"] : no \in Nat /\ \h6000 <= no /\ no <= \h60DC
  /\ \A no \in UnitRegs["PPU_RDMA"] : no \in Nat /\ \h7000 <= no /\ no <= \h7030
  /\ \A no \in UnitRegs["DDMA"] : no \in Nat /\ \h8000 <= no /\ no <= \h8030
  /\ \A no \in UnitRegs["SDMA"] : no \in Nat /\ \h9000 <= no /\ no <= \h9030
  /\ \A no \in UnitRegs["GLOBAL"] : no \in Nat /\ \hF008 <= no /\ no <= \hF008
<1>1. \A no \in UnitRegs["PC"] : no \in Nat /\ \h0 <= no /\ no <= \h3C
  <2>1. UnitRegs["PC"] = PcNumbers
    BY DEF UnitRegs
  <2> QED
    BY <2>1, WordsBetween DEF PcNumbers
<1>2. \A no \in UnitRegs["CNA"] : no \in Nat /\ \h1000 <= no /\ no <= \h1184
  <2>1. UnitRegs["CNA"] = CnaNumbers
    BY DEF UnitRegs
  <2> QED
    BY <2>1, WordsBetween DEF CnaNumbers
<1>3. \A no \in UnitRegs["CORE"] : no \in Nat /\ \h3000 <= no /\ no <= \h301C
  <2>1. UnitRegs["CORE"] = CoreNumbers
    BY DEF UnitRegs
  <2> QED
    BY <2>1, WordsBetween DEF CoreNumbers
<1>4. \A no \in UnitRegs["DPU"] : no \in Nat /\ \h4000 <= no /\ no <= \h412C
  <2>1. UnitRegs["DPU"] = DpuNumbers
    BY DEF UnitRegs
  <2> QED
    BY <2>1, WordsBetween DEF DpuNumbers
<1>5. \A no \in UnitRegs["DPU_RDMA"] : no \in Nat /\ \h5000 <= no /\ no <= \h506C
  <2>1. UnitRegs["DPU_RDMA"] = RdmaNumbers
    BY DEF UnitRegs
  <2> QED
    BY <2>1, WordsBetween DEF RdmaNumbers
<1>6. \A no \in UnitRegs["PPU"] : no \in Nat /\ \h6000 <= no /\ no <= \h60DC
  <2>1. UnitRegs["PPU"] = PpuNumbers
    BY DEF UnitRegs
  <2> QED
    BY <2>1, WordsBetween DEF PpuNumbers
<1>7. \A no \in UnitRegs["PPU_RDMA"] : no \in Nat /\ \h7000 <= no /\ no <= \h7030
  BY WordsBetween DEF UnitRegs
<1>8. \A no \in UnitRegs["DDMA"] : no \in Nat /\ \h8000 <= no /\ no <= \h8030
  BY WordsBetween DEF UnitRegs
<1>9. \A no \in UnitRegs["SDMA"] : no \in Nat /\ \h9000 <= no /\ no <= \h9030
  BY WordsBetween DEF UnitRegs
<1>10. \A no \in UnitRegs["GLOBAL"] : no \in Nat /\ \hF008 <= no /\ no <= \hF008
  BY WordsBetween DEF UnitRegs
<1> QED
  BY <1>1, <1>2, <1>3, <1>4, <1>5, <1>6, <1>7, <1>8, <1>9, <1>10

(* The units.                                                              *)
LEMMA UnitNames ==
  DOMAIN UnitRegs =
    {"PC", "CNA", "CORE", "DPU", "DPU_RDMA", "PPU", "PPU_RDMA", "DDMA", "SDMA", "GLOBAL"}
BY DEF UnitRegs

(* So rkt_get_target finds the unit that has the number.                   *)
LEMMA TargetFound ==
  ASSUME NEW u \in DOMAIN UnitRegs, NEW no \in UnitRegs[u]
  PROVE  rkt_get_target(no) = Target[u]
<1>1. \A v \in DOMAIN UnitRegs : no \in UnitRegs[v] => v = u
  BY UnitNames, UnitRanges
<1>2. (CHOOSE v \in DOMAIN UnitRegs : no \in UnitRegs[v]) = u
  BY <1>1, Zenon
<1> QED
  BY <1>2, Zenon DEF rkt_get_target
-----------------------------------------------------------------------------
(* The registers that configure the CNA, the CORE and the DPU: all but the *)
(* enables and the CNA's register pointer, which no list writes.           *)
CnaConfig ==
  DOMAIN CnaConv \cup DOMAIN CnaSizes \cup DOMAIN CnaBuffer \cup DOMAIN CnaConvert
    \cup DOMAIN CnaFetch \cup DOMAIN CnaFullConnect \cup DOMAIN CnaDecompress
    \cup DOMAIN CnaPad
CoreConfig == DOMAIN CoreRegs
DpuConfig ==
  {"DPU_S_POINTER"} \cup DOMAIN DpuFeature \cup DOMAIN DpuCube \cup DOMAIN DpuBs
    \cup DOMAIN DpuWdma \cup DOMAIN DpuBn \cup DOMAIN DpuEw \cup DOMAIN DpuOutput
    \cup DOMAIN DpuOperands \cup DOMAIN DpuLut \cup DOMAIN DpuLutRanges
Config == CnaConfig \cup CoreConfig \cup DpuConfig

(* The numbers of a group belong to its unit.                              *)
LEMMA UnitHas ==
  /\ \A x \in DOMAIN PcRegs : Registers[x].no \in PcNumbers
  /\ \A x \in DOMAIN CnaEnable : Registers[x].no \in CnaNumbers
  /\ \A x \in DOMAIN CnaConv : Registers[x].no \in CnaNumbers
  /\ \A x \in DOMAIN CnaSizes : Registers[x].no \in CnaNumbers
  /\ \A x \in DOMAIN CnaBuffer : Registers[x].no \in CnaNumbers
  /\ \A x \in DOMAIN CnaConvert : Registers[x].no \in CnaNumbers
  /\ \A x \in DOMAIN CnaFetch : Registers[x].no \in CnaNumbers
  /\ \A x \in DOMAIN CnaFullConnect : Registers[x].no \in CnaNumbers
  /\ \A x \in DOMAIN CnaDecompress : Registers[x].no \in CnaNumbers
  /\ \A x \in DOMAIN CnaPad : Registers[x].no \in CnaNumbers
  /\ \A x \in DOMAIN CoreRegs : Registers[x].no \in CoreNumbers
  /\ \A x \in DOMAIN DpuEnable : Registers[x].no \in DpuNumbers
  /\ \A x \in DOMAIN DpuFeature : Registers[x].no \in DpuNumbers
  /\ \A x \in DOMAIN DpuCube : Registers[x].no \in DpuNumbers
  /\ \A x \in DOMAIN DpuBs : Registers[x].no \in DpuNumbers
  /\ \A x \in DOMAIN DpuWdma : Registers[x].no \in DpuNumbers
  /\ \A x \in DOMAIN DpuBn : Registers[x].no \in DpuNumbers
  /\ \A x \in DOMAIN DpuEw : Registers[x].no \in DpuNumbers
  /\ \A x \in DOMAIN DpuOutput : Registers[x].no \in DpuNumbers
  /\ \A x \in DOMAIN DpuOperands : Registers[x].no \in DpuNumbers
  /\ \A x \in DOMAIN DpuLut : Registers[x].no \in DpuNumbers
  /\ \A x \in DOMAIN DpuLutRanges : Registers[x].no \in DpuNumbers
<1>0. \A first, last, no \in Nat :
        first <= no /\ no <= last /\ (no - first) % 4 = 0 => no \in Words(first, last)
  BY WordsHave
<1>1. \A x \in DOMAIN PcRegs : Registers[x].no \in PcNumbers
  <2> SUFFICES ASSUME NEW x \in DOMAIN PcRegs PROVE Registers[x].no \in PcNumbers
    OBVIOUS
  <2>1. PICK no : no = Registers[x].no
    OBVIOUS
  <2>2. no % 4 = 0 /\ (no \in \h8..\h8 \/ no \in \h10..\h14)
    BY <2>1, InGroups, GroupNames DEF PcRegs, R, Whole
  <2>3. no \in \h8..\h8 => no \in Words(\h0, \h8)
    BY <2>2, <1>0
  <2>4. no \in \h10..\h14 => no \in Words(\h10, \h14)
    BY <2>2, <1>0
  <2> QED
    BY <2>1, <2>2, <2>3, <2>4 DEF PcNumbers
<1>2. \A x \in DOMAIN CnaEnable : Registers[x].no \in CnaNumbers
  <2> SUFFICES ASSUME NEW x \in DOMAIN CnaEnable PROVE Registers[x].no \in CnaNumbers
    OBVIOUS
  <2>1. PICK no : no = Registers[x].no
    OBVIOUS
  <2>2. no \in \h1004..\h1008 /\ no % 4 = 0
    BY <2>1, GroupNumbers DEF Spread
  <2>3. no \in Words(\h1000, \h1014)
    BY <2>2, <1>0
  <2> QED
    BY <2>1, <2>3 DEF CnaNumbers
<1>3. \A x \in DOMAIN CnaConv : Registers[x].no \in CnaNumbers
  <2> SUFFICES ASSUME NEW x \in DOMAIN CnaConv PROVE Registers[x].no \in CnaNumbers
    OBVIOUS
  <2>1. PICK no : no = Registers[x].no
    OBVIOUS
  <2>2. no \in \h100C..\h1014 /\ no % 4 = 0
    BY <2>1, GroupNumbers DEF Spread
  <2>3. no \in Words(\h1000, \h1014)
    BY <2>2, <1>0
  <2> QED
    BY <2>1, <2>3 DEF CnaNumbers
<1>4. \A x \in DOMAIN CnaSizes : Registers[x].no \in CnaNumbers
  <2> SUFFICES ASSUME NEW x \in DOMAIN CnaSizes PROVE Registers[x].no \in CnaNumbers
    OBVIOUS
  <2>1. PICK no : no = Registers[x].no
    OBVIOUS
  <2>2. no \in \h1020..\h1038 /\ no % 4 = 0
    BY <2>1, GroupNumbers DEF Spread
  <2>3. no \in Words(\h1020, \h1038)
    BY <2>2, <1>0
  <2> QED
    BY <2>1, <2>3 DEF CnaNumbers
<1>5. \A x \in DOMAIN CnaBuffer : Registers[x].no \in CnaNumbers
  <2> SUFFICES ASSUME NEW x \in DOMAIN CnaBuffer PROVE Registers[x].no \in CnaNumbers
    OBVIOUS
  <2>1. PICK no : no = Registers[x].no
    OBVIOUS
  <2>2. no \in \h1040..\h1044 /\ no % 4 = 0
    BY <2>1, GroupNumbers DEF Spread
  <2>3. no \in Words(\h1040, \h1044)
    BY SMTT(300), <2>2, <1>0
  <2> QED
    BY <2>1, <2>3 DEF CnaNumbers
<1>6. \A x \in DOMAIN CnaConvert : Registers[x].no \in CnaNumbers
  <2> SUFFICES ASSUME NEW x \in DOMAIN CnaConvert PROVE Registers[x].no \in CnaNumbers
    OBVIOUS
  <2>1. PICK no : no = Registers[x].no
    OBVIOUS
  <2>2. no \in \h104C..\h105C /\ no % 4 = 0
    BY <2>1, GroupNumbers DEF Spread
  <2>3. no \in Words(\h104C, \h1068)
    BY <2>2, <1>0
  <2> QED
    BY <2>1, <2>3 DEF CnaNumbers
<1>7. \A x \in DOMAIN CnaFetch : Registers[x].no \in CnaNumbers
  <2> SUFFICES ASSUME NEW x \in DOMAIN CnaFetch PROVE Registers[x].no \in CnaNumbers
    OBVIOUS
  <2>1. PICK no : no = Registers[x].no
    OBVIOUS
  <2>2. no % 4 = 0 /\ (no \in \h1060..\h1068 \/ no \in \h1070..\h1080)
    BY <2>1, InGroups, GroupNames DEF CnaFetch, R, Whole
  <2>3. no \in \h1060..\h1068 => no \in Words(\h104C, \h1068)
    BY <2>2, <1>0
  <2>4. no \in \h1070..\h1080 => no \in Words(\h1070, \h1088)
    BY <2>2, <1>0
  <2> QED
    BY <2>1, <2>2, <2>3, <2>4 DEF CnaNumbers
<1>8. \A x \in DOMAIN CnaFullConnect : Registers[x].no \in CnaNumbers
  <2> SUFFICES ASSUME NEW x \in DOMAIN CnaFullConnect PROVE Registers[x].no \in CnaNumbers
    OBVIOUS
  <2>1. PICK no : no = Registers[x].no
    OBVIOUS
  <2>2. no \in \h1084..\h1088 /\ no % 4 = 0
    BY <2>1, GroupNumbers DEF Spread
  <2>3. no \in Words(\h1070, \h1088)
    BY <2>2, <1>0
  <2> QED
    BY <2>1, <2>3 DEF CnaNumbers
<1>9. \A x \in DOMAIN CnaDecompress : Registers[x].no \in CnaNumbers
  <2> SUFFICES ASSUME NEW x \in DOMAIN CnaDecompress PROVE Registers[x].no \in CnaNumbers
    OBVIOUS
  <2>1. PICK no : no = Registers[x].no
    OBVIOUS
  <2>2. no % 4 = 0 /\ (no \in \h1100..\h1104 \/ no = \h1110 \/ no \in \h1140..\h117C)
    BY SMTT(90), <2>1, InGroups, GroupNames DEF CnaDecompress, R, Whole
  <2>3. no \in \h1100..\h1104 => no \in Words(\h1100, \h1104)
    BY <2>2, <1>0
  <2>4. no \in \h1140..\h117C => no \in Words(\h1140, \h1184)
    BY <2>2, <1>0
  <2> QED
    BY <2>1, <2>2, <2>3, <2>4 DEF CnaNumbers
<1>10. \A x \in DOMAIN CnaPad : Registers[x].no \in CnaNumbers
  <2> SUFFICES ASSUME NEW x \in DOMAIN CnaPad PROVE Registers[x].no \in CnaNumbers
    OBVIOUS
  <2>1. PICK no : no = Registers[x].no
    OBVIOUS
  <2>2. no \in \h1180..\h1184 /\ no % 4 = 0
    BY <2>1, GroupNumbers DEF Spread
  <2>3. no \in Words(\h1140, \h1184)
    BY <2>2, <1>0
  <2> QED
    BY <2>1, <2>3 DEF CnaNumbers
<1>11. \A x \in DOMAIN CoreRegs : Registers[x].no \in CoreNumbers
  <2> SUFFICES ASSUME NEW x \in DOMAIN CoreRegs PROVE Registers[x].no \in CoreNumbers
    OBVIOUS
  <2>1. PICK no : no = Registers[x].no
    OBVIOUS
  <2>2. no \in \h3010..\h301C /\ no % 4 = 0
    BY <2>1, GroupNumbers DEF Spread
  <2>3. no \in Words(\h3000, \h301C)
    BY <2>2, <1>0
  <2> QED
    BY <2>1, <2>3 DEF CoreNumbers
<1>12. \A x \in DOMAIN DpuEnable : Registers[x].no \in DpuNumbers
  <2> SUFFICES ASSUME NEW x \in DOMAIN DpuEnable PROVE Registers[x].no \in DpuNumbers
    OBVIOUS
  <2>1. PICK no : no = Registers[x].no
    OBVIOUS
  <2>2. no \in \h4004..\h4008 /\ no % 4 = 0
    BY <2>1, GroupNumbers DEF Spread
  <2>3. no \in Words(\h4000, \h4014)
    BY <2>2, <1>0
  <2> QED
    BY <2>1, <2>3 DEF DpuNumbers
<1>13. \A x \in DOMAIN DpuFeature : Registers[x].no \in DpuNumbers
  <2> SUFFICES ASSUME NEW x \in DOMAIN DpuFeature PROVE Registers[x].no \in DpuNumbers
    OBVIOUS
  <2>1. PICK no : no = Registers[x].no
    OBVIOUS
  <2>2. no % 4 = 0 /\ (no \in \h400C..\h4014 \/ no \in \h4020..\h4024)
    BY <2>1, InGroups, GroupNames DEF DpuFeature, R, Whole
  <2>3. no \in \h400C..\h4014 => no \in Words(\h4000, \h4014)
    BY <2>2, <1>0
  <2>4. no \in \h4020..\h4024 => no \in Words(\h4020, \h4024)
    BY <2>2, <1>0
  <2> QED
    BY <2>1, <2>2, <2>3, <2>4 DEF DpuNumbers
<1>14. \A x \in DOMAIN DpuCube : Registers[x].no \in DpuNumbers
  <2> SUFFICES ASSUME NEW x \in DOMAIN DpuCube PROVE Registers[x].no \in DpuNumbers
    OBVIOUS
  <2>1. PICK no : no = Registers[x].no
    OBVIOUS
  <2>2. no \in \h4030..\h403C /\ no % 4 = 0
    BY <2>1, GroupNumbers DEF Spread
  <2>3. no \in Words(\h4030, \h4088)
    BY <2>2, <1>0
  <2> QED
    BY <2>1, <2>3 DEF DpuNumbers
<1>15. \A x \in DOMAIN DpuBs : Registers[x].no \in DpuNumbers
  <2> SUFFICES ASSUME NEW x \in DOMAIN DpuBs PROVE Registers[x].no \in DpuNumbers
    OBVIOUS
  <2>1. PICK no : no = Registers[x].no
    OBVIOUS
  <2>2. no \in \h4040..\h4054 /\ no % 4 = 0
    BY <2>1, GroupNumbers DEF Spread
  <2>3. no \in Words(\h4030, \h4088)
    BY <2>2, <1>0
  <2> QED
    BY <2>1, <2>3 DEF DpuNumbers
<1>16. \A x \in DOMAIN DpuWdma : Registers[x].no \in DpuNumbers
  <2> SUFFICES ASSUME NEW x \in DOMAIN DpuWdma PROVE Registers[x].no \in DpuNumbers
    OBVIOUS
  <2>1. PICK no : no = Registers[x].no
    OBVIOUS
  <2>2. no \in \h4058..\h405C /\ no % 4 = 0
    BY <2>1, GroupNumbers DEF Spread
  <2>3. no \in Words(\h4030, \h4088)
    BY <2>2, <1>0
  <2> QED
    BY <2>1, <2>3 DEF DpuNumbers
<1>17. \A x \in DOMAIN DpuBn : Registers[x].no \in DpuNumbers
  <2> SUFFICES ASSUME NEW x \in DOMAIN DpuBn PROVE Registers[x].no \in DpuNumbers
    OBVIOUS
  <2>1. PICK no : no = Registers[x].no
    OBVIOUS
  <2>2. no \in \h4060..\h406C /\ no % 4 = 0
    BY <2>1, GroupNumbers DEF Spread
  <2>3. no \in Words(\h4030, \h4088)
    BY <2>2, <1>0
  <2> QED
    BY <2>1, <2>3 DEF DpuNumbers
<1>18. \A x \in DOMAIN DpuEw : Registers[x].no \in DpuNumbers
  <2> SUFFICES ASSUME NEW x \in DOMAIN DpuEw PROVE Registers[x].no \in DpuNumbers
    OBVIOUS
  <2>1. PICK no : no = Registers[x].no
    OBVIOUS
  <2>2. no \in \h4070..\h407C /\ no % 4 = 0
    BY <2>1, GroupNumbers DEF Spread
  <2>3. no \in Words(\h4030, \h4088)
    BY <2>2, <1>0
  <2> QED
    BY <2>1, <2>3 DEF DpuNumbers
<1>19. \A x \in DOMAIN DpuOutput : Registers[x].no \in DpuNumbers
  <2> SUFFICES ASSUME NEW x \in DOMAIN DpuOutput PROVE Registers[x].no \in DpuNumbers
    OBVIOUS
  <2>1. PICK no : no = Registers[x].no
    OBVIOUS
  <2>2. no \in \h4080..\h4088 /\ no % 4 = 0
    BY <2>1, GroupNumbers DEF Spread
  <2>3. no \in Words(\h4030, \h4088)
    BY <2>2, <1>0
  <2> QED
    BY <2>1, <2>3 DEF DpuNumbers
<1>20. \A x \in DOMAIN DpuOperands : Registers[x].no \in DpuNumbers
  <2> SUFFICES ASSUME NEW x \in DOMAIN DpuOperands PROVE Registers[x].no \in DpuNumbers
    OBVIOUS
  <2>1. PICK no : no = Registers[x].no
    OBVIOUS
  <2>2. no \in \h4090..\h40AC /\ no % 4 = 0
    BY <2>1, GroupNumbers DEF Spread
  <2>3. no \in Words(\h4090, \h40AC)
    BY <2>2, <1>0
  <2> QED
    BY <2>1, <2>3 DEF DpuNumbers
<1>21. \A x \in DOMAIN DpuLut : Registers[x].no \in DpuNumbers
  <2> SUFFICES ASSUME NEW x \in DOMAIN DpuLut PROVE Registers[x].no \in DpuNumbers
    OBVIOUS
  <2>1. PICK no : no = Registers[x].no
    OBVIOUS
  <2>2. no % 4 = 0 /\ (no = \h40C0 \/ no \in \h4100..\h410C)
    BY <2>1, InGroups, GroupNames DEF DpuLut, R, Whole
  <2>3. no \in \h4100..\h410C => no \in Words(\h4100, \h412C)
    BY <2>2, <1>0
  <2> QED
    BY <2>1, <2>2, <2>3 DEF DpuNumbers
<1>22. \A x \in DOMAIN DpuLutRanges : Registers[x].no \in DpuNumbers
  <2> SUFFICES ASSUME NEW x \in DOMAIN DpuLutRanges PROVE Registers[x].no \in DpuNumbers
    OBVIOUS
  <2>1. PICK no : no = Registers[x].no
    OBVIOUS
  <2>2. no \in \h4110..\h412C /\ no % 4 = 0
    BY <2>1, GroupNumbers DEF Spread
  <2>3. no \in Words(\h4100, \h412C)
    BY <2>2, <1>0
  <2> QED
    BY <2>1, <2>3 DEF DpuNumbers
<1> QED
  BY <1>1, <1>2, <1>3, <1>4, <1>5, <1>6, <1>7, <1>8, <1>9, <1>10, <1>11, <1>12, <1>13, <1>14,
     <1>15, <1>16, <1>17, <1>18, <1>19, <1>20, <1>21, <1>22

(* So rkt_get_target finds the unit of each.                               *)
LEMMA ConfigTargets ==
  /\ \A r \in CnaConfig : /\ r \in DOMAIN Registers /\ Registers[r].no \in CnaNumbers
                          /\ rkt_get_target(Registers[r].no) = \h200
  /\ \A r \in CoreConfig : /\ r \in DOMAIN Registers /\ Registers[r].no \in CoreNumbers
                           /\ rkt_get_target(Registers[r].no) = \h800
  /\ \A r \in DpuConfig : /\ r \in DOMAIN Registers /\ Registers[r].no \in DpuNumbers
                          /\ rkt_get_target(Registers[r].no) = \h1000
<1>1. /\ \A no \in CnaNumbers : rkt_get_target(no) = \h200
      /\ \A no \in CoreNumbers : rkt_get_target(no) = \h800
      /\ \A no \in DpuNumbers : rkt_get_target(no) = \h1000
  <2>1. /\ UnitRegs["CNA"] = CnaNumbers /\ UnitRegs["CORE"] = CoreNumbers
        /\ UnitRegs["DPU"] = DpuNumbers
    BY DEF UnitRegs
  <2>2. Target["CNA"] = \h200 /\ Target["CORE"] = \h800 /\ Target["DPU"] = \h1000
    BY DEF Target
  <2>3. {"CNA", "CORE", "DPU"} \subseteq DOMAIN UnitRegs
    BY UnitNames
  <2> QED
    BY <2>1, <2>2, <2>3, TargetFound
<1>2. "DPU_S_POINTER" \in DOMAIN DpuEnable
  BY GroupNames
<1>3. /\ \A r \in CnaConfig : r \in DOMAIN Registers /\ Registers[r].no \in CnaNumbers
      /\ \A r \in CoreConfig : r \in DOMAIN Registers /\ Registers[r].no \in CoreNumbers
      /\ \A r \in DpuConfig : r \in DOMAIN Registers /\ Registers[r].no \in DpuNumbers
  <2>1. \A g \in Groups : \A x \in DOMAIN g : x \in DOMAIN Registers
    BY RegisterNames
  <2>2. \A r \in CnaConfig : r \in DOMAIN Registers /\ Registers[r].no \in CnaNumbers
    BY <2>1, AllGroups, UnitHas DEF CnaConfig
  <2>3. \A r \in CoreConfig : r \in DOMAIN Registers /\ Registers[r].no \in CoreNumbers
    BY <2>1, AllGroups, UnitHas DEF CoreConfig
  <2>4. \A r \in DpuConfig : r \in DOMAIN Registers /\ Registers[r].no \in DpuNumbers
    BY <2>1, <1>2, AllGroups, UnitHas DEF DpuConfig
  <2> QED
    BY <2>2, <2>3, <2>4
<1> QED
  BY <1>1, <1>3

(* The others.                                                             *)
LEMMA OtherTargets ==
  /\ \A r \in {"PC_OPERATION_ENABLE", "PC_BASE_ADDRESS", "PC_REGISTER_AMOUNTS"} :
       r \in DOMAIN Registers /\ rkt_get_target(Registers[r].no) = \h100
  /\ \A r \in {"CNA_OPERATION_ENABLE"} :
       r \in DOMAIN Registers /\ rkt_get_target(Registers[r].no) = \h200
  /\ \A r \in {"DPU_OPERATION_ENABLE"} :
       r \in DOMAIN Registers /\ rkt_get_target(Registers[r].no) = \h1000
  /\ Registers["PC_OPERATION_ENABLE"].no = \h8
  /\ Registers["PC_BASE_ADDRESS"].no = \h10
  /\ Registers["PC_REGISTER_AMOUNTS"].no = \h14
  /\ Registers["CNA_OPERATION_ENABLE"].no = \h1008
  /\ Registers["DPU_OPERATION_ENABLE"].no = \h4008
<1>1. /\ Registers["PC_OPERATION_ENABLE"].no = \h8
      /\ Registers["PC_BASE_ADDRESS"].no = \h10
      /\ Registers["PC_REGISTER_AMOUNTS"].no = \h14
  BY InGroups, GroupNames DEF PcRegs, R
<1>2. Registers["CNA_OPERATION_ENABLE"].no = \h1008
  BY InGroups, GroupNames DEF CnaEnable, R
<1>3. Registers["DPU_OPERATION_ENABLE"].no = \h4008
  BY InGroups, GroupNames DEF DpuEnable, R
<1>4. {"PC_OPERATION_ENABLE", "PC_BASE_ADDRESS", "PC_REGISTER_AMOUNTS", "CNA_OPERATION_ENABLE",
       "DPU_OPERATION_ENABLE"} \subseteq DOMAIN Registers
  BY RegisterNames, AllGroups, GroupNames
<1>5. /\ UnitRegs["PC"] = PcNumbers /\ UnitRegs["CNA"] = CnaNumbers
      /\ UnitRegs["DPU"] = DpuNumbers
  BY DEF UnitRegs
<1>6. Target["PC"] = \h100 /\ Target["CNA"] = \h200 /\ Target["DPU"] = \h1000
  BY DEF Target
<1>7. {"PC", "CNA", "DPU"} \subseteq DOMAIN UnitRegs
  BY UnitNames
<1>8. /\ \A no \in PcNumbers : rkt_get_target(no) = \h100
      /\ \A no \in CnaNumbers : rkt_get_target(no) = \h200
      /\ \A no \in DpuNumbers : rkt_get_target(no) = \h1000
  BY <1>5, <1>6, <1>7, TargetFound
<1> QED
  BY SMTT(90), <1>1, <1>2, <1>3, <1>4, <1>8, UnitHas, GroupNames

(* Every register configures a unit, or is one of these, or belongs to the *)
(* PC or the DPU's read DMA.                                               *)
LEMMA AllRegisters ==
  \A x \in DOMAIN Registers :
    \/ x \in CnaConfig
    \/ x \in CoreConfig
    \/ x \in DpuConfig
    \/ x \in {"CNA_S_POINTER", "CNA_OPERATION_ENABLE", "DPU_OPERATION_ENABLE"}
    \/ x \in {"PC_OPERATION_ENABLE", "PC_BASE_ADDRESS", "PC_REGISTER_AMOUNTS"}
    \/ \h5000 < Registers[x].no /\ Registers[x].no < \h6000
<1> SUFFICES ASSUME NEW g \in Groups, NEW x \in DOMAIN g, x \in DOMAIN Registers
             PROVE  \/ x \in CnaConfig
                    \/ x \in CoreConfig
                    \/ x \in DpuConfig
                    \/ x \in {"CNA_S_POINTER", "CNA_OPERATION_ENABLE", "DPU_OPERATION_ENABLE"}
                    \/ x \in {"PC_OPERATION_ENABLE", "PC_BASE_ADDRESS", "PC_REGISTER_AMOUNTS"}
                    \/ \h5000 < Registers[x].no /\ Registers[x].no < \h6000
  BY RegisterNames
<1>1. CASE g \in {CnaConv, CnaSizes, CnaBuffer, CnaConvert, CnaFetch, CnaFullConnect,
                   CnaDecompress, CnaPad}
  BY <1>1 DEF CnaConfig
<1>2. CASE g = CoreRegs
  BY <1>2 DEF CoreConfig
<1>3. CASE g \in {DpuFeature, DpuCube, DpuBs, DpuWdma, DpuBn, DpuEw, DpuOutput, DpuOperands,
                   DpuLut, DpuLutRanges}
  BY <1>3 DEF DpuConfig
<1>4. CASE g \in {PcRegs, CnaEnable, DpuEnable}
  BY <1>4, GroupNames DEF DpuConfig
<1>5. CASE g \in {RdmaEnable, RdmaCube, RdmaSurface}
  <2>1. PICK no : no = Registers[x].no
    OBVIOUS
  <2>2. no \in \h5004..\h506C
    BY <1>5, <2>1, GroupNumbers DEF Spread
  <2> QED
    BY <2>1, <2>2
<1> QED
  BY <1>1, <1>2, <1>3, <1>4, <1>5, AllGroups

-----------------------------------------------------------------------------
(* The fields that the lists have numbers for.                             *)
FieldIs(reg, f, s, w) ==
  /\ s \in Nat /\ w \in 0..30 /\ s + w <= 32
  /\ f \in DOMAIN Registers[reg].fields /\ Registers[reg].fields[f] = <<s, w>>

WholeIs(reg, f) == f \in DOMAIN Registers[reg].fields /\ Registers[reg].fields[f] = <<0, 32>>

(* Where the fields of the job's registers are.                            *)
LEMMA FieldPlaces ==
  /\ FieldIs("PC_OPERATION_ENABLE", "OP_EN", 0, 1)
  /\ FieldIs("CNA_CONV_CON1", "IN_PRECISION", 4, 3)
  /\ FieldIs("CNA_CONV_CON1", "PROC_PRECISION", 7, 3)
  /\ FieldIs("CNA_CONV_CON2", "FEATURE_GRAINS", 4, 10)
  /\ FieldIs("CNA_CONV_CON3", "CONV_X_STRIDE", 0, 3)
  /\ FieldIs("CNA_CONV_CON3", "CONV_Y_STRIDE", 3, 3)
  /\ FieldIs("CNA_DATA_SIZE0", "DATAIN_WIDTH", 16, 11)
  /\ FieldIs("CNA_DATA_SIZE0", "DATAIN_HEIGHT", 0, 11)
  /\ FieldIs("CNA_DATA_SIZE1", "DATAIN_CHANNEL_REAL", 16, 14)
  /\ FieldIs("CNA_DATA_SIZE1", "DATAIN_CHANNEL", 0, 16)
  /\ FieldIs("CNA_DATA_SIZE2", "DATAOUT_WIDTH", 0, 11)
  /\ FieldIs("CNA_DATA_SIZE3", "DATAOUT_ATOMICS", 0, 22)
  /\ WholeIs("CNA_WEIGHT_SIZE0", "VALUE")
  /\ FieldIs("CNA_WEIGHT_SIZE1", "WEIGHT_BYTES_PER_KERNEL", 0, 19)
  /\ FieldIs("CNA_WEIGHT_SIZE2", "WEIGHT_WIDTH", 24, 5)
  /\ FieldIs("CNA_WEIGHT_SIZE2", "WEIGHT_HEIGHT", 16, 5)
  /\ FieldIs("CNA_WEIGHT_SIZE2", "WEIGHT_KERNELS", 0, 14)
  /\ FieldIs("CNA_CBUF_CON0", "WEIGHT_BANK", 4, 4)
  /\ FieldIs("CNA_CBUF_CON0", "DATA_BANK", 0, 4)
  /\ FieldIs("CNA_CBUF_CON1", "DATA_ENTRIES", 0, 14)
  /\ FieldIs("CNA_CVT_CON0", "DATA_SIGN", 3, 1)
  /\ FieldIs("CNA_CVT_CON0", "CVT_TYPE", 1, 1)
  /\ FieldIs("CNA_CVT_CON0", "CVT_BYPASS", 0, 1)
  /\ FieldIs("CNA_CVT_CON1", "CVT_SCALE0", 16, 16)
  /\ FieldIs("CNA_CVT_CON2", "CVT_SCALE1", 16, 16)
  /\ FieldIs("CNA_CVT_CON3", "CVT_SCALE2", 16, 16)
  /\ FieldIs("CNA_CVT_CON4", "CVT_SCALE3", 16, 16)
  /\ WholeIs("CNA_FEATURE_DATA_ADDR", "VALUE")
  /\ FieldIs("CNA_DMA_CON0", "WEIGHT_BURST_LEN", 16, 4)
  /\ FieldIs("CNA_DMA_CON0", "DATA_BURST_LEN", 0, 4)
  /\ FieldIs("CNA_DMA_CON1", "LINE_STRIDE", 0, 28)
  /\ FieldIs("CNA_DMA_CON2", "SURF_STRIDE", 0, 28)
  /\ FieldIs("CNA_FC_DATA_SIZE0", "DMA_WIDTH", 16, 14)
  /\ FieldIs("CNA_FC_DATA_SIZE0", "DMA_HEIGHT", 0, 11)
  /\ FieldIs("CNA_FC_DATA_SIZE1", "DMA_CHANNEL", 0, 16)
  /\ WholeIs("CNA_DCOMP_ADDR0", "VALUE")
  /\ FieldIs("CORE_MISC_CFG", "PROC_PRECISION", 8, 3)
  /\ FieldIs("CORE_MISC_CFG", "QD_EN", 0, 1)
  /\ FieldIs("CORE_DATAOUT_SIZE_0", "DATAOUT_HEIGHT", 16, 16)
  /\ FieldIs("CORE_DATAOUT_SIZE_0", "DATAOUT_WIDTH", 0, 16)
  /\ FieldIs("CORE_DATAOUT_SIZE_1", "DATAOUT_CHANNEL", 0, 16)
  /\ FieldIs("DPU_S_POINTER", "POINTER_PP_MODE", 3, 1)
  /\ FieldIs("DPU_S_POINTER", "EXECUTER_PP_EN", 2, 1)
  /\ FieldIs("DPU_S_POINTER", "POINTER_PP_EN", 1, 1)
  /\ FieldIs("DPU_FEATURE_MODE_CFG", "BURST_LEN", 5, 4)
  /\ FieldIs("DPU_FEATURE_MODE_CFG", "OUTPUT_MODE", 1, 2)
  /\ FieldIs("DPU_DATA_FORMAT", "OUT_PRECISION", 29, 3)
  /\ FieldIs("DPU_DATA_FORMAT", "IN_PRECISION", 26, 3)
  /\ FieldIs("DPU_DATA_FORMAT", "PROC_PRECISION", 0, 3)
  /\ WholeIs("DPU_DST_BASE_ADDR", "VALUE")
  /\ FieldIs("DPU_DST_SURF_STRIDE", "DST_SURF_STRIDE", 4, 28)
  /\ FieldIs("DPU_DATA_CUBE_HEIGHT", "HEIGHT", 0, 13)
  /\ FieldIs("DPU_DATA_CUBE_CHANNEL", "ORIG_CHANNEL", 16, 13)
  /\ FieldIs("DPU_DATA_CUBE_CHANNEL", "CHANNEL", 0, 13)
  /\ FieldIs("DPU_BS_CFG", "BS_ALU_ALGO", 16, 4)
  /\ FieldIs("DPU_BS_CFG", "BS_ALU_SRC", 8, 1)
  /\ FieldIs("DPU_BS_CFG", "BS_RELU_BYPASS", 6, 1)
  /\ FieldIs("DPU_BS_CFG", "BS_MUL_BYPASS", 4, 1)
  /\ FieldIs("DPU_BS_CFG", "BS_ALU_BYPASS", 1, 1)
  /\ FieldIs("DPU_BS_CFG", "BS_BYPASS", 0, 1)
  /\ FieldIs("DPU_BS_OW_CFG", "SIZE_E_2", 8, 3)
  /\ FieldIs("DPU_BS_OW_CFG", "SIZE_E_1", 5, 3)
  /\ FieldIs("DPU_BS_OW_CFG", "SIZE_E_0", 2, 3)
  /\ FieldIs("DPU_BS_OW_CFG", "OD_BYPASS", 1, 1)
  /\ FieldIs("DPU_WDMA_SIZE_0", "CHANNEL_WDMA", 0, 13)
  /\ FieldIs("DPU_WDMA_SIZE_1", "HEIGHT_WDMA", 16, 13)
  /\ FieldIs("DPU_BN_CFG", "BN_RELU_BYPASS", 6, 1)
  /\ FieldIs("DPU_BN_CFG", "BN_MUL_BYPASS", 4, 1)
  /\ FieldIs("DPU_BN_CFG", "BN_ALU_BYPASS", 1, 1)
  /\ FieldIs("DPU_BN_CFG", "BN_BYPASS", 0, 1)
  /\ FieldIs("DPU_EW_CFG", "EW_RELU_BYPASS", 9, 1)
  /\ FieldIs("DPU_EW_CFG", "EW_OP_CVT_BYPASS", 8, 1)
  /\ FieldIs("DPU_EW_CFG", "EW_LUT_BYPASS", 7, 1)
  /\ FieldIs("DPU_EW_CFG", "EW_OP_BYPASS", 1, 1)
  /\ FieldIs("DPU_EW_CFG", "EW_BYPASS", 0, 1)
  /\ FieldIs("DPU_EW_CVT_SCALE_VALUE", "EW_OP_CVT_SCALE", 0, 16)
  /\ FieldIs("DPU_OUT_CVT_SCALE", "FP32TOFP16_EN", 16, 1)
  /\ FieldIs("DPU_OUT_CVT_SCALE", "OUT_CVT_SCALE", 0, 16)
  /\ FieldIs("DPU_SURFACE_ADD", "SURF_ADD", 4, 28)
  /\ FieldIs("DPU_RDMA_RDMA_S_POINTER", "POINTER_PP_MODE", 3, 1)
  /\ FieldIs("DPU_RDMA_RDMA_S_POINTER", "EXECUTER_PP_EN", 2, 1)
  /\ FieldIs("DPU_RDMA_RDMA_S_POINTER", "POINTER_PP_EN", 1, 1)
  /\ FieldIs("DPU_RDMA_RDMA_WEIGHT", "E_WEIGHT", 24, 8)
  /\ FieldIs("DPU_RDMA_RDMA_WEIGHT", "N_WEIGHT", 16, 8)
  /\ FieldIs("DPU_RDMA_RDMA_WEIGHT", "B_WEIGHT", 8, 8)
  /\ FieldIs("DPU_RDMA_RDMA_WEIGHT", "M_WEIGHT", 0, 8)
<1>1. /\ FieldIs("PC_OPERATION_ENABLE", "OP_EN", 0, 1)
  BY InGroups, GroupNames DEF FieldIs, WholeIs, PcRegs, R, Whole
<1>2. /\ FieldIs("CNA_CONV_CON1", "IN_PRECISION", 4, 3)
      /\ FieldIs("CNA_CONV_CON1", "PROC_PRECISION", 7, 3)
      /\ FieldIs("CNA_CONV_CON2", "FEATURE_GRAINS", 4, 10)
      /\ FieldIs("CNA_CONV_CON3", "CONV_X_STRIDE", 0, 3)
      /\ FieldIs("CNA_CONV_CON3", "CONV_Y_STRIDE", 3, 3)
  BY InGroups, GroupNames DEF FieldIs, WholeIs, CnaConv, R, Whole
<1>3. /\ FieldIs("CNA_DATA_SIZE0", "DATAIN_WIDTH", 16, 11)
      /\ FieldIs("CNA_DATA_SIZE0", "DATAIN_HEIGHT", 0, 11)
      /\ FieldIs("CNA_DATA_SIZE1", "DATAIN_CHANNEL_REAL", 16, 14)
      /\ FieldIs("CNA_DATA_SIZE1", "DATAIN_CHANNEL", 0, 16)
      /\ FieldIs("CNA_DATA_SIZE2", "DATAOUT_WIDTH", 0, 11)
      /\ FieldIs("CNA_DATA_SIZE3", "DATAOUT_ATOMICS", 0, 22)
      /\ WholeIs("CNA_WEIGHT_SIZE0", "VALUE")
      /\ FieldIs("CNA_WEIGHT_SIZE1", "WEIGHT_BYTES_PER_KERNEL", 0, 19)
      /\ FieldIs("CNA_WEIGHT_SIZE2", "WEIGHT_WIDTH", 24, 5)
      /\ FieldIs("CNA_WEIGHT_SIZE2", "WEIGHT_HEIGHT", 16, 5)
      /\ FieldIs("CNA_WEIGHT_SIZE2", "WEIGHT_KERNELS", 0, 14)
  BY InGroups, GroupNames DEF FieldIs, WholeIs, CnaSizes, R, Whole
<1>4. /\ FieldIs("CNA_CBUF_CON0", "WEIGHT_BANK", 4, 4)
      /\ FieldIs("CNA_CBUF_CON0", "DATA_BANK", 0, 4)
      /\ FieldIs("CNA_CBUF_CON1", "DATA_ENTRIES", 0, 14)
  BY InGroups, GroupNames DEF FieldIs, WholeIs, CnaBuffer, R, Whole
<1>5. /\ FieldIs("CNA_CVT_CON0", "DATA_SIGN", 3, 1)
      /\ FieldIs("CNA_CVT_CON0", "CVT_TYPE", 1, 1)
      /\ FieldIs("CNA_CVT_CON0", "CVT_BYPASS", 0, 1)
      /\ FieldIs("CNA_CVT_CON1", "CVT_SCALE0", 16, 16)
      /\ FieldIs("CNA_CVT_CON2", "CVT_SCALE1", 16, 16)
      /\ FieldIs("CNA_CVT_CON3", "CVT_SCALE2", 16, 16)
      /\ FieldIs("CNA_CVT_CON4", "CVT_SCALE3", 16, 16)
  BY InGroups, GroupNames DEF FieldIs, WholeIs, CnaConvert, R, Whole
<1>6. /\ WholeIs("CNA_FEATURE_DATA_ADDR", "VALUE")
      /\ FieldIs("CNA_DMA_CON0", "WEIGHT_BURST_LEN", 16, 4)
      /\ FieldIs("CNA_DMA_CON0", "DATA_BURST_LEN", 0, 4)
      /\ FieldIs("CNA_DMA_CON1", "LINE_STRIDE", 0, 28)
      /\ FieldIs("CNA_DMA_CON2", "SURF_STRIDE", 0, 28)
  BY InGroups, GroupNames DEF FieldIs, WholeIs, CnaFetch, R, Whole
<1>7. /\ FieldIs("CNA_FC_DATA_SIZE0", "DMA_WIDTH", 16, 14)
      /\ FieldIs("CNA_FC_DATA_SIZE0", "DMA_HEIGHT", 0, 11)
      /\ FieldIs("CNA_FC_DATA_SIZE1", "DMA_CHANNEL", 0, 16)
  BY InGroups, GroupNames DEF FieldIs, WholeIs, CnaFullConnect, R, Whole
<1>8. /\ WholeIs("CNA_DCOMP_ADDR0", "VALUE")
  BY InGroups, GroupNames DEF FieldIs, WholeIs, CnaDecompress, R, Whole
<1>9. /\ FieldIs("CORE_MISC_CFG", "PROC_PRECISION", 8, 3)
      /\ FieldIs("CORE_MISC_CFG", "QD_EN", 0, 1)
      /\ FieldIs("CORE_DATAOUT_SIZE_0", "DATAOUT_HEIGHT", 16, 16)
      /\ FieldIs("CORE_DATAOUT_SIZE_0", "DATAOUT_WIDTH", 0, 16)
      /\ FieldIs("CORE_DATAOUT_SIZE_1", "DATAOUT_CHANNEL", 0, 16)
  BY InGroups, GroupNames DEF FieldIs, WholeIs, CoreRegs, R, Whole
<1>10. /\ FieldIs("DPU_S_POINTER", "POINTER_PP_MODE", 3, 1)
       /\ FieldIs("DPU_S_POINTER", "EXECUTER_PP_EN", 2, 1)
       /\ FieldIs("DPU_S_POINTER", "POINTER_PP_EN", 1, 1)
  BY InGroups, GroupNames DEF FieldIs, WholeIs, DpuEnable, R, Whole
<1>11. /\ FieldIs("DPU_FEATURE_MODE_CFG", "BURST_LEN", 5, 4)
       /\ FieldIs("DPU_FEATURE_MODE_CFG", "OUTPUT_MODE", 1, 2)
       /\ FieldIs("DPU_DATA_FORMAT", "OUT_PRECISION", 29, 3)
       /\ FieldIs("DPU_DATA_FORMAT", "IN_PRECISION", 26, 3)
       /\ FieldIs("DPU_DATA_FORMAT", "PROC_PRECISION", 0, 3)
       /\ WholeIs("DPU_DST_BASE_ADDR", "VALUE")
       /\ FieldIs("DPU_DST_SURF_STRIDE", "DST_SURF_STRIDE", 4, 28)
  BY InGroups, GroupNames DEF FieldIs, WholeIs, DpuFeature, R, Whole
<1>12. /\ FieldIs("DPU_DATA_CUBE_HEIGHT", "HEIGHT", 0, 13)
       /\ FieldIs("DPU_DATA_CUBE_CHANNEL", "ORIG_CHANNEL", 16, 13)
       /\ FieldIs("DPU_DATA_CUBE_CHANNEL", "CHANNEL", 0, 13)
  BY InGroups, GroupNames DEF FieldIs, WholeIs, DpuCube, R, Whole
<1>13. /\ FieldIs("DPU_BS_CFG", "BS_ALU_ALGO", 16, 4)
       /\ FieldIs("DPU_BS_CFG", "BS_ALU_SRC", 8, 1)
       /\ FieldIs("DPU_BS_CFG", "BS_RELU_BYPASS", 6, 1)
       /\ FieldIs("DPU_BS_CFG", "BS_MUL_BYPASS", 4, 1)
       /\ FieldIs("DPU_BS_CFG", "BS_ALU_BYPASS", 1, 1)
       /\ FieldIs("DPU_BS_CFG", "BS_BYPASS", 0, 1)
       /\ FieldIs("DPU_BS_OW_CFG", "SIZE_E_2", 8, 3)
       /\ FieldIs("DPU_BS_OW_CFG", "SIZE_E_1", 5, 3)
       /\ FieldIs("DPU_BS_OW_CFG", "SIZE_E_0", 2, 3)
       /\ FieldIs("DPU_BS_OW_CFG", "OD_BYPASS", 1, 1)
  BY InGroups, GroupNames DEF FieldIs, WholeIs, DpuBs, R, Whole
<1>14. /\ FieldIs("DPU_WDMA_SIZE_0", "CHANNEL_WDMA", 0, 13)
       /\ FieldIs("DPU_WDMA_SIZE_1", "HEIGHT_WDMA", 16, 13)
  BY InGroups, GroupNames DEF FieldIs, WholeIs, DpuWdma, R, Whole
<1>15. /\ FieldIs("DPU_BN_CFG", "BN_RELU_BYPASS", 6, 1)
       /\ FieldIs("DPU_BN_CFG", "BN_MUL_BYPASS", 4, 1)
       /\ FieldIs("DPU_BN_CFG", "BN_ALU_BYPASS", 1, 1)
       /\ FieldIs("DPU_BN_CFG", "BN_BYPASS", 0, 1)
  BY InGroups, GroupNames DEF FieldIs, WholeIs, DpuBn, R, Whole
<1>16. /\ FieldIs("DPU_EW_CFG", "EW_RELU_BYPASS", 9, 1)
       /\ FieldIs("DPU_EW_CFG", "EW_OP_CVT_BYPASS", 8, 1)
       /\ FieldIs("DPU_EW_CFG", "EW_LUT_BYPASS", 7, 1)
       /\ FieldIs("DPU_EW_CFG", "EW_OP_BYPASS", 1, 1)
       /\ FieldIs("DPU_EW_CFG", "EW_BYPASS", 0, 1)
       /\ FieldIs("DPU_EW_CVT_SCALE_VALUE", "EW_OP_CVT_SCALE", 0, 16)
  BY InGroups, GroupNames DEF FieldIs, WholeIs, DpuEw, R, Whole
<1>17. /\ FieldIs("DPU_OUT_CVT_SCALE", "FP32TOFP16_EN", 16, 1)
       /\ FieldIs("DPU_OUT_CVT_SCALE", "OUT_CVT_SCALE", 0, 16)
  BY InGroups, GroupNames DEF FieldIs, WholeIs, DpuOutput, R, Whole
<1>18. /\ FieldIs("DPU_SURFACE_ADD", "SURF_ADD", 4, 28)
  BY InGroups, GroupNames DEF FieldIs, WholeIs, DpuLut, R, Whole
<1>19. /\ FieldIs("DPU_RDMA_RDMA_S_POINTER", "POINTER_PP_MODE", 3, 1)
       /\ FieldIs("DPU_RDMA_RDMA_S_POINTER", "EXECUTER_PP_EN", 2, 1)
       /\ FieldIs("DPU_RDMA_RDMA_S_POINTER", "POINTER_PP_EN", 1, 1)
  BY InGroups, GroupNames DEF FieldIs, WholeIs, RdmaEnable, R, Whole
<1>20. /\ FieldIs("DPU_RDMA_RDMA_WEIGHT", "E_WEIGHT", 24, 8)
       /\ FieldIs("DPU_RDMA_RDMA_WEIGHT", "N_WEIGHT", 16, 8)
       /\ FieldIs("DPU_RDMA_RDMA_WEIGHT", "B_WEIGHT", 8, 8)
       /\ FieldIs("DPU_RDMA_RDMA_WEIGHT", "M_WEIGHT", 0, 8)
  BY InGroups, GroupNames DEF FieldIs, WholeIs, RdmaSurface, R, Whole
<1> QED
  BY <1>1, <1>2, <1>3, <1>4, <1>5, <1>6, <1>7, <1>8, <1>9, <1>10, <1>11, <1>12, <1>13, <1>14,
     <1>15, <1>16, <1>17, <1>18, <1>19, <1>20

-----------------------------------------------------------------------------
(* The bits of the targets, of the units' numbers in npu_hw.h, and of a    *)
(* few small numbers.                                                      *)
LEMMA SomeBits ==
  /\ Bits(\h100) = {8} /\ Bits(\h200) = {9} /\ Bits(\h800) = {11}
  /\ Bits(\h1000) = {12} /\ Bits(\h2000) = {13} /\ Bits(\h4000) = {14}
  /\ Bits(\h8000) = {15} /\ Bits(\h10000) = {16} /\ Bits(\h20000) = {17}
  /\ Bits(\h40000) = {18} /\ Bits(\h101) = {0, 8} /\ Bits(\h201) = {0, 9}
  /\ Bits(\h801) = {0, 11} /\ Bits(\h1001) = {0, 12} /\ Bits(\h40) = {6}
  /\ Bits(\h41) = {0, 6} /\ Bits(\h80) = {7} /\ Bits(\h81) = {0, 7}
  /\ Bits(0) = {} /\ Bits(1) = {0} /\ Bits(2) = {1}
  /\ Bits(\h8) = {3} /\ Bits(14) = {1, 2, 3}
<1>1. Bits(\h100) = {8}
  <2>1. \A i \in 0..30 : i \in Bits(\h100) <=> (\h100 \div Power[i]) % 2 = 1
    BY BitAt
  <2>2. \A i \in 0..30 : (\h100 \div Power[i]) % 2 = 1 <=> i \in {8}
    BY BitPlaces, PowerTable
  <2> QED
    BY <2>1, <2>2, SmallInRange
<1>2. Bits(\h200) = {9}
  <2>1. \A i \in 0..30 : i \in Bits(\h200) <=> (\h200 \div Power[i]) % 2 = 1
    BY BitAt
  <2>2. \A i \in 0..30 : (\h200 \div Power[i]) % 2 = 1 <=> i \in {9}
    BY BitPlaces, PowerTable
  <2> QED
    BY <2>1, <2>2, SmallInRange
<1>3. Bits(\h800) = {11}
  <2>1. \A i \in 0..30 : i \in Bits(\h800) <=> (\h800 \div Power[i]) % 2 = 1
    BY BitAt
  <2>2. \A i \in 0..30 : (\h800 \div Power[i]) % 2 = 1 <=> i \in {11}
    BY BitPlaces, PowerTable
  <2> QED
    BY <2>1, <2>2, SmallInRange
<1>4. Bits(\h1000) = {12}
  <2>1. \A i \in 0..30 : i \in Bits(\h1000) <=> (\h1000 \div Power[i]) % 2 = 1
    BY BitAt
  <2>2. \A i \in 0..30 : (\h1000 \div Power[i]) % 2 = 1 <=> i \in {12}
    BY BitPlaces, PowerTable
  <2> QED
    BY <2>1, <2>2, SmallInRange
<1>5. Bits(\h2000) = {13}
  <2>1. \A i \in 0..30 : i \in Bits(\h2000) <=> (\h2000 \div Power[i]) % 2 = 1
    BY BitAt
  <2>2. \A i \in 0..30 : (\h2000 \div Power[i]) % 2 = 1 <=> i \in {13}
    BY BitPlaces, PowerTable
  <2> QED
    BY <2>1, <2>2, SmallInRange
<1>6. Bits(\h4000) = {14}
  <2>1. \A i \in 0..30 : i \in Bits(\h4000) <=> (\h4000 \div Power[i]) % 2 = 1
    BY BitAt
  <2>2. \A i \in 0..30 : (\h4000 \div Power[i]) % 2 = 1 <=> i \in {14}
    BY BitPlaces, PowerTable
  <2> QED
    BY <2>1, <2>2, SmallInRange
<1>7. Bits(\h8000) = {15}
  <2>1. \A i \in 0..30 : i \in Bits(\h8000) <=> (\h8000 \div Power[i]) % 2 = 1
    BY BitAt
  <2>2. \A i \in 0..30 : (\h8000 \div Power[i]) % 2 = 1 <=> i \in {15}
    BY BitPlaces, PowerTable
  <2> QED
    BY <2>1, <2>2, SmallInRange
<1>8. Bits(\h10000) = {16}
  <2>1. \A i \in 0..30 : i \in Bits(\h10000) <=> (\h10000 \div Power[i]) % 2 = 1
    BY BitAt
  <2>2. \A i \in 0..30 : (\h10000 \div Power[i]) % 2 = 1 <=> i \in {16}
    BY BitPlaces, PowerTable
  <2> QED
    BY <2>1, <2>2, SmallInRange
<1>9. Bits(\h20000) = {17}
  <2>1. \A i \in 0..30 : i \in Bits(\h20000) <=> (\h20000 \div Power[i]) % 2 = 1
    BY BitAt
  <2>2. \A i \in 0..30 : (\h20000 \div Power[i]) % 2 = 1 <=> i \in {17}
    BY BitPlaces, PowerTable
  <2> QED
    BY <2>1, <2>2, SmallInRange
<1>10. Bits(\h40000) = {18}
  <2>1. \A i \in 0..30 : i \in Bits(\h40000) <=> (\h40000 \div Power[i]) % 2 = 1
    BY BitAt
  <2>2. \A i \in 0..30 : (\h40000 \div Power[i]) % 2 = 1 <=> i \in {18}
    BY BitPlaces, PowerTable
  <2> QED
    BY <2>1, <2>2, SmallInRange
<1>11. Bits(\h101) = {0, 8}
  <2>1. \A i \in 0..30 : i \in Bits(\h101) <=> (\h101 \div Power[i]) % 2 = 1
    BY BitAt
  <2>2. \A i \in 0..30 : (\h101 \div Power[i]) % 2 = 1 <=> i \in {0, 8}
    BY BitPlaces, PowerTable
  <2> QED
    BY <2>1, <2>2, SmallInRange
<1>12. Bits(\h201) = {0, 9}
  <2>1. \A i \in 0..30 : i \in Bits(\h201) <=> (\h201 \div Power[i]) % 2 = 1
    BY BitAt
  <2>2. \A i \in 0..30 : (\h201 \div Power[i]) % 2 = 1 <=> i \in {0, 9}
    BY BitPlaces, PowerTable
  <2> QED
    BY <2>1, <2>2, SmallInRange
<1>13. Bits(\h801) = {0, 11}
  <2>1. \A i \in 0..30 : i \in Bits(\h801) <=> (\h801 \div Power[i]) % 2 = 1
    BY BitAt
  <2>2. \A i \in 0..30 : (\h801 \div Power[i]) % 2 = 1 <=> i \in {0, 11}
    BY BitPlaces, PowerTable
  <2> QED
    BY <2>1, <2>2, SmallInRange
<1>14. Bits(\h1001) = {0, 12}
  <2>1. \A i \in 0..30 : i \in Bits(\h1001) <=> (\h1001 \div Power[i]) % 2 = 1
    BY BitAt
  <2>2. \A i \in 0..30 : (\h1001 \div Power[i]) % 2 = 1 <=> i \in {0, 12}
    BY BitPlaces, PowerTable
  <2> QED
    BY <2>1, <2>2, SmallInRange
<1>15. Bits(\h40) = {6}
  <2>1. \A i \in 0..30 : i \in Bits(\h40) <=> (\h40 \div Power[i]) % 2 = 1
    BY BitAt
  <2>2. \A i \in 0..30 : (\h40 \div Power[i]) % 2 = 1 <=> i \in {6}
    BY BitPlaces, PowerTable
  <2> QED
    BY <2>1, <2>2, SmallInRange
<1>16. Bits(\h41) = {0, 6}
  <2>1. \A i \in 0..30 : i \in Bits(\h41) <=> (\h41 \div Power[i]) % 2 = 1
    BY BitAt
  <2>2. \A i \in 0..30 : (\h41 \div Power[i]) % 2 = 1 <=> i \in {0, 6}
    BY BitPlaces, PowerTable
  <2> QED
    BY <2>1, <2>2, SmallInRange
<1>17. Bits(\h80) = {7}
  <2>1. \A i \in 0..30 : i \in Bits(\h80) <=> (\h80 \div Power[i]) % 2 = 1
    BY BitAt
  <2>2. \A i \in 0..30 : (\h80 \div Power[i]) % 2 = 1 <=> i \in {7}
    BY BitPlaces, PowerTable
  <2> QED
    BY <2>1, <2>2, SmallInRange
<1>18. Bits(\h81) = {0, 7}
  <2>1. \A i \in 0..30 : i \in Bits(\h81) <=> (\h81 \div Power[i]) % 2 = 1
    BY BitAt
  <2>2. \A i \in 0..30 : (\h81 \div Power[i]) % 2 = 1 <=> i \in {0, 7}
    BY BitPlaces, PowerTable
  <2> QED
    BY <2>1, <2>2, SmallInRange
<1>19. Bits(0) = {}
  <2>1. \A i \in 0..30 : i \in Bits(0) <=> (0 \div Power[i]) % 2 = 1
    BY BitAt
  <2>2. \A i \in 0..30 : (0 \div Power[i]) % 2 = 1 <=> i \in {}
    BY BitPlaces, PowerTable
  <2> QED
    BY <2>1, <2>2, SmallInRange
<1>20. Bits(1) = {0}
  <2>1. \A i \in 0..30 : i \in Bits(1) <=> (1 \div Power[i]) % 2 = 1
    BY BitAt
  <2>2. \A i \in 0..30 : (1 \div Power[i]) % 2 = 1 <=> i \in {0}
    BY BitPlaces, PowerTable
  <2> QED
    BY <2>1, <2>2, SmallInRange
<1>21. Bits(2) = {1}
  <2>1. \A i \in 0..30 : i \in Bits(2) <=> (2 \div Power[i]) % 2 = 1
    BY BitAt
  <2>2. \A i \in 0..30 : (2 \div Power[i]) % 2 = 1 <=> i \in {1}
    BY BitPlaces, PowerTable
  <2> QED
    BY <2>1, <2>2, SmallInRange
<1>22. Bits(\h8) = {3}
  <2>1. \A i \in 0..30 : i \in Bits(\h8) <=> (\h8 \div Power[i]) % 2 = 1
    BY BitAt
  <2>2. \A i \in 0..30 : (\h8 \div Power[i]) % 2 = 1 <=> i \in {3}
    BY BitPlaces, PowerTable
  <2> QED
    BY <2>1, <2>2, SmallInRange
<1>23. Bits(14) = {1, 2, 3}
  <2>1. \A i \in 0..30 : i \in Bits(14) <=> (14 \div Power[i]) % 2 = 1
    BY BitAt
  <2>2. \A i \in 0..30 : (14 \div Power[i]) % 2 = 1 <=> i \in {1, 2, 3}
    BY BitPlaces, PowerTable
  <2> QED
    BY <2>1, <2>2, SmallInRange
<1> QED
  BY <1>1, <1>2, <1>3, <1>4, <1>5, <1>6, <1>7, <1>8, <1>9, <1>10, <1>11, <1>12, <1>13, <1>14,
     <1>15, <1>16, <1>17, <1>18, <1>19, <1>20, <1>21, <1>22, <1>23

=============================================================================
