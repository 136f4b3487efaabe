------------------------- MODULE CommandListProofs -------------------------
(***************************************************************************)
(* What the lists of the generators are made of, for every call.  The list *)
(* of an rk3588 job sends each register that configures the CNA, the CORE  *)
(* and the DPU one word (Word), and each of these commands lands in the    *)
(* register of mesa_registers.h that is meant, although npu_matmul.c took  *)
(* number and unit from npu_hw.h.  No list of any generator sends two      *)
(* words to one of these registers.                                        *)
(***************************************************************************)
EXTENDS CommandFetch, RegisterMapProofs

-----------------------------------------------------------------------------
(* Lists of commands.                                                      *)
CommandsIn(s) == {s[i] : i \in DOMAIN s}
IsSeq(s) == s \in Seq(CommandsIn(s))

(* Two lists joined are a list of the commands of both.                    *)
LEMMA Joined ==
  ASSUME NEW s, NEW t, IsSeq(s), IsSeq(t)
  PROVE  IsSeq(s \o t) /\ CommandsIn(s \o t) = CommandsIn(s) \cup CommandsIn(t)
<1> DEFINE S == CommandsIn(s) \cup CommandsIn(t)
<1>1. s \in Seq(S) /\ t \in Seq(S)
  BY DEF IsSeq
<1>2. s \o t \in Seq(S) /\ Len(s \o t) = Len(s) + Len(t)
  BY <1>1
<1>3. DOMAIN s = 1..Len(s) /\ DOMAIN t = 1..Len(t) /\ DOMAIN (s \o t) = 1..Len(s)+Len(t) /\
          Len(s) \in Nat /\ Len(t) \in Nat
  BY <1>1, <1>2
<1>4. \A i \in 1..Len(s) : (s \o t)[i] = s[i]
  BY <1>1
<1>5. \A i \in 1..Len(t) : (s \o t)[i + Len(s)] = t[i]
  BY <1>1
<1>6. CommandsIn(s \o t) = S
  <2>1. ASSUME NEW i \in 1..Len(s)+Len(t) PROVE (s \o t)[i] \in S
    <3>1. CASE i \in 1..Len(s)
      BY <3>1, <1>3, <1>4 DEF CommandsIn
    <3>2. CASE i \notin 1..Len(s)
      <4>1. i - Len(s) \in 1..Len(t) /\ i = (i - Len(s)) + Len(s)
        BY <1>3, <3>2
      <4> QED
        BY <4>1, <1>3, <1>5 DEF CommandsIn
    <3> QED
      BY <3>1, <3>2
  <2>2. ASSUME NEW e \in CommandsIn(s) PROVE e \in CommandsIn(s \o t)
    BY <1>3, <1>4 DEF CommandsIn
  <2>3. ASSUME NEW e \in CommandsIn(t) PROVE e \in CommandsIn(s \o t)
    <3>1. PICK i \in 1..Len(t) : e = t[i]
      BY <1>3 DEF CommandsIn
    <3>2. i + Len(s) \in 1..Len(s)+Len(t)
      BY <1>3
    <3> QED
      BY <1>3, <1>5, <3>1, <3>2 DEF CommandsIn
  <2> QED
    BY <1>3, <2>1, <2>2, <2>3 DEF CommandsIn
<1> QED
  BY <1>2, <1>6 DEF IsSeq

(* A list of one.                                                          *)
LEMMA One == ASSUME NEW e PROVE IsSeq(<<e>>) /\ CommandsIn(<<e>>) = {e}
BY DEF IsSeq, CommandsIn

-----------------------------------------------------------------------------
(* The words an rk3588 list sends to the registers of mesa_registers.h,    *)
(* but for those that it clears.                                           *)
Sent(c) ==
  [ DPU_S_POINTER |-> Rk3588!Bits(14),
    CNA_CONV_CON1 |-> Rk3588!F(Rk3588!Precision(c), 3, 7)
                        \cup Rk3588!F(Rk3588!Precision(c), 3, 4),
    CNA_CONV_CON2 |-> Rk3588!F(Rk3588!FeatureGrains(c), 10, 4),
    CNA_CONV_CON3 |-> Rk3588!F(1, 3, 3) \cup Rk3588!F(1, 3, 0),
    CNA_DATA_SIZE0 |-> Rk3588!F(1, 11, 16) \cup Rk3588!F(c.m, 11, 0),
    CNA_DATA_SIZE1 |-> Rk3588!DataSize1(c),
    CNA_DATA_SIZE2 |-> Rk3588!F(1, 11, 0),
    CNA_DATA_SIZE3 |-> Rk3588!F(c.m, 18, 0),
    CNA_WEIGHT_SIZE0 |-> Rk3588!Bits(Rk3588!WeightBytes(c)),
    CNA_WEIGHT_SIZE1 |-> Rk3588!F(Rk3588!KernelBytes(c), 19, 0),
    CNA_WEIGHT_SIZE2 |-> Rk3588!F(1, 5, 24) \cup Rk3588!F(1, 5, 16) \cup Rk3588!WeightKernels(c),
    CNA_CBUF_CON0 |-> Rk3588!F(Banks - Rk3588!FdBanks(c), 4, 4)
                        \cup Rk3588!F(Rk3588!FdBanks(c), 4, 0),
    CNA_CBUF_CON1 |-> Rk3588!F(Rk3588!DataEntries(c), 13, 0),
    CNA_CVT_CON0 |-> Rk3588!F(1, 1, 3) \cup Rk3588!F(1, 1, 1) \cup Rk3588!F(1, 1, 0),
    CNA_CVT_CON1 |-> Rk3588!F(1, 16, 16),
    CNA_CVT_CON2 |-> Rk3588!F(1, 16, 16),
    CNA_CVT_CON3 |-> Rk3588!F(1, 16, 16),
    CNA_CVT_CON4 |-> Rk3588!F(1, 16, 16),
    CNA_FEATURE_DATA_ADDR |-> InputDma,
    CNA_DMA_CON0 |-> Rk3588!F(15, 4, 16) \cup Rk3588!F(15, 4, 0),
    CNA_DMA_CON1 |-> Rk3588!F(Rk3588!LineStride, 28, 0),
    CNA_DMA_CON2 |-> Rk3588!F(Rk3588!SurfStride(c), 28, 0),
    CNA_FC_DATA_SIZE0 |-> Rk3588!F(1, 11, 16) \cup Rk3588!F(c.m, 11, 0),
    CNA_FC_DATA_SIZE1 |-> Rk3588!F(c.k, 16, 0),
    CNA_DCOMP_ADDR0 |-> WeightsDma,
    CORE_MISC_CFG |-> Rk3588!F(Rk3588!Precision(c), 3, 8) \cup Rk3588!F(Rk3588!QdEn(c), 1, 0),
    CORE_DATAOUT_SIZE_0 |-> Rk3588!F(Rk3588!LastRow(c), 16, 16),
    CORE_DATAOUT_SIZE_1 |-> Rk3588!F(Rk3588!LastKernel(c), 16, 0),
    DPU_FEATURE_MODE_CFG |-> Rk3588!F(15, 4, 5) \cup Rk3588!F(2, 2, 1),
    DPU_DATA_FORMAT |-> Rk3588!F(Rk3588!OutPrecision(c), 3, 29)
                          \cup Rk3588!F(Rk3588!Precision(c), 3, 26)
                          \cup Rk3588!F(Rk3588!Precision(c), 3, 0),
    DPU_DST_BASE_ADDR |-> OutputDma,
    DPU_DST_SURF_STRIDE |-> Rk3588!F(c.m, 28, 4),
    DPU_DATA_CUBE_HEIGHT |-> Rk3588!F(Rk3588!LastRow(c), 13, 0),
    DPU_DATA_CUBE_CHANNEL |-> Rk3588!F(Rk3588!LastKernel(c), 13, 16)
                                \cup Rk3588!F(Rk3588!LastKernel(c), 13, 0),
    DPU_BS_CFG |-> Rk3588!Bypass,
    DPU_BS_OW_CFG |-> Rk3588!F(Rk3588!SizeE(c), 3, 8) \cup Rk3588!F(Rk3588!SizeE(c), 3, 5)
                        \cup Rk3588!F(Rk3588!SizeE(c), 3, 2) \cup {1},
    DPU_WDMA_SIZE_0 |-> Rk3588!F(Rk3588!LastKernel(c), 13, 0),
    DPU_WDMA_SIZE_1 |-> Rk3588!F(Rk3588!LastRow(c), 13, 16),
    DPU_BN_CFG |-> Rk3588!Bypass,
    DPU_EW_CFG |-> {9, 8, 7, 1, 0},
    DPU_EW_CVT_SCALE_VALUE |-> Rk3588!Bits(1),
    DPU_OUT_CVT_SCALE |-> Rk3588!F(Rk3588!ToFp16(c), 1, 16) \cup Rk3588!F(1, 16, 0),
    DPU_SURFACE_ADD |-> Rk3588!F(Rk3588!SurfAdd(c), 28, 4) ]

Word(c, r) == IF r \in DOMAIN Sent(c) THEN Sent(c)[r] ELSE {}

(* Their names.                                                            *)
LEMMA SentNames ==
  \A c : DOMAIN Sent(c) =
    {"DPU_S_POINTER", "CNA_CONV_CON1", "CNA_CONV_CON2", "CNA_CONV_CON3", "CNA_DATA_SIZE0",
     "CNA_DATA_SIZE1", "CNA_DATA_SIZE2", "CNA_DATA_SIZE3", "CNA_WEIGHT_SIZE0", "CNA_WEIGHT_SIZE1",
     "CNA_WEIGHT_SIZE2", "CNA_CBUF_CON0", "CNA_CBUF_CON1", "CNA_CVT_CON0", "CNA_CVT_CON1",
     "CNA_CVT_CON2", "CNA_CVT_CON3", "CNA_CVT_CON4", "CNA_FEATURE_DATA_ADDR", "CNA_DMA_CON0",
     "CNA_DMA_CON1", "CNA_DMA_CON2", "CNA_FC_DATA_SIZE0", "CNA_FC_DATA_SIZE1", "CNA_DCOMP_ADDR0",
     "CORE_MISC_CFG", "CORE_DATAOUT_SIZE_0", "CORE_DATAOUT_SIZE_1", "DPU_FEATURE_MODE_CFG",
     "DPU_DATA_FORMAT", "DPU_DST_BASE_ADDR", "DPU_DST_SURF_STRIDE", "DPU_DATA_CUBE_HEIGHT",
     "DPU_DATA_CUBE_CHANNEL", "DPU_BS_CFG", "DPU_BS_OW_CFG", "DPU_WDMA_SIZE_0", "DPU_WDMA_SIZE_1",
     "DPU_BN_CFG", "DPU_EW_CFG", "DPU_EW_CVT_SCALE_VALUE", "DPU_OUT_CVT_SCALE", "DPU_SURFACE_ADD"}
BY SMTT(90) DEF Sent

(* The words.                                                              *)
LEMMA WordsSent ==
  \A c : /\ Sent(c)["DPU_S_POINTER"] = Rk3588!Bits(14)
         /\ Sent(c)["CNA_CONV_CON1"] = Rk3588!F(Rk3588!Precision(c), 3, 7)
                                         \cup Rk3588!F(Rk3588!Precision(c), 3, 4)
         /\ Sent(c)["CNA_CONV_CON2"] = Rk3588!F(Rk3588!FeatureGrains(c), 10, 4)
         /\ Sent(c)["CNA_CONV_CON3"] = Rk3588!F(1, 3, 3) \cup Rk3588!F(1, 3, 0)
         /\ Sent(c)["CNA_DATA_SIZE0"] = Rk3588!F(1, 11, 16) \cup Rk3588!F(c.m, 11, 0)
         /\ Sent(c)["CNA_DATA_SIZE1"] = Rk3588!DataSize1(c)
         /\ Sent(c)["CNA_DATA_SIZE2"] = Rk3588!F(1, 11, 0)
         /\ Sent(c)["CNA_DATA_SIZE3"] = Rk3588!F(c.m, 18, 0)
         /\ Sent(c)["CNA_WEIGHT_SIZE0"] = Rk3588!Bits(Rk3588!WeightBytes(c))
         /\ Sent(c)["CNA_WEIGHT_SIZE1"] = Rk3588!F(Rk3588!KernelBytes(c), 19, 0)
         /\ Sent(c)["CNA_WEIGHT_SIZE2"] = Rk3588!F(1, 5, 24) \cup Rk3588!F(1, 5, 16)
                                            \cup Rk3588!WeightKernels(c)
         /\ Sent(c)["CNA_CBUF_CON0"] = Rk3588!F(Banks - Rk3588!FdBanks(c), 4, 4)
                                         \cup Rk3588!F(Rk3588!FdBanks(c), 4, 0)
         /\ Sent(c)["CNA_CBUF_CON1"] = Rk3588!F(Rk3588!DataEntries(c), 13, 0)
         /\ Sent(c)["CNA_CVT_CON0"] = Rk3588!F(1, 1, 3) \cup Rk3588!F(1, 1, 1)
                                        \cup Rk3588!F(1, 1, 0)
         /\ Sent(c)["CNA_CVT_CON1"] = Rk3588!F(1, 16, 16)
         /\ Sent(c)["CNA_CVT_CON2"] = Rk3588!F(1, 16, 16)
         /\ Sent(c)["CNA_CVT_CON3"] = Rk3588!F(1, 16, 16)
         /\ Sent(c)["CNA_CVT_CON4"] = Rk3588!F(1, 16, 16)
         /\ Sent(c)["CNA_FEATURE_DATA_ADDR"] = InputDma
         /\ Sent(c)["CNA_DMA_CON0"] = Rk3588!F(15, 4, 16) \cup Rk3588!F(15, 4, 0)
         /\ Sent(c)["CNA_DMA_CON1"] = Rk3588!F(Rk3588!LineStride, 28, 0)
         /\ Sent(c)["CNA_DMA_CON2"] = Rk3588!F(Rk3588!SurfStride(c), 28, 0)
         /\ Sent(c)["CNA_FC_DATA_SIZE0"] = Rk3588!F(1, 11, 16) \cup Rk3588!F(c.m, 11, 0)
         /\ Sent(c)["CNA_FC_DATA_SIZE1"] = Rk3588!F(c.k, 16, 0)
         /\ Sent(c)["CNA_DCOMP_ADDR0"] = WeightsDma
         /\ Sent(c)["CORE_MISC_CFG"] = Rk3588!F(Rk3588!Precision(c), 3, 8)
                                         \cup Rk3588!F(Rk3588!QdEn(c), 1, 0)
         /\ Sent(c)["CORE_DATAOUT_SIZE_0"] = Rk3588!F(Rk3588!LastRow(c), 16, 16)
         /\ Sent(c)["CORE_DATAOUT_SIZE_1"] = Rk3588!F(Rk3588!LastKernel(c), 16, 0)
         /\ Sent(c)["DPU_FEATURE_MODE_CFG"] = Rk3588!F(15, 4, 5) \cup Rk3588!F(2, 2, 1)
         /\ Sent(c)["DPU_DATA_FORMAT"] = Rk3588!F(Rk3588!OutPrecision(c), 3, 29)
                                           \cup Rk3588!F(Rk3588!Precision(c), 3, 26)
                                           \cup Rk3588!F(Rk3588!Precision(c), 3, 0)
         /\ Sent(c)["DPU_DST_BASE_ADDR"] = OutputDma
         /\ Sent(c)["DPU_DST_SURF_STRIDE"] = Rk3588!F(c.m, 28, 4)
         /\ Sent(c)["DPU_DATA_CUBE_HEIGHT"] = Rk3588!F(Rk3588!LastRow(c), 13, 0)
         /\ Sent(c)["DPU_DATA_CUBE_CHANNEL"] = Rk3588!F(Rk3588!LastKernel(c), 13, 16)
                                                 \cup Rk3588!F(Rk3588!LastKernel(c), 13, 0)
         /\ Sent(c)["DPU_BS_CFG"] = Rk3588!Bypass
         /\ Sent(c)["DPU_BS_OW_CFG"] = Rk3588!F(Rk3588!SizeE(c), 3, 8)
                                         \cup Rk3588!F(Rk3588!SizeE(c), 3, 5)
                                         \cup Rk3588!F(Rk3588!SizeE(c), 3, 2) \cup {1}
         /\ Sent(c)["DPU_WDMA_SIZE_0"] = Rk3588!F(Rk3588!LastKernel(c), 13, 0)
         /\ Sent(c)["DPU_WDMA_SIZE_1"] = Rk3588!F(Rk3588!LastRow(c), 13, 16)
         /\ Sent(c)["DPU_BN_CFG"] = Rk3588!Bypass
         /\ Sent(c)["DPU_EW_CFG"] = {9, 8, 7, 1, 0}
         /\ Sent(c)["DPU_EW_CVT_SCALE_VALUE"] = Rk3588!Bits(1)
         /\ Sent(c)["DPU_OUT_CVT_SCALE"] = Rk3588!F(Rk3588!ToFp16(c), 1, 16)
                                             \cup Rk3588!F(1, 16, 0)
         /\ Sent(c)["DPU_SURFACE_ADD"] = Rk3588!F(Rk3588!SurfAdd(c), 28, 4)
<1> TAKE c
<1>0. PICK s : s = Sent(c)
  OBVIOUS
<1>1. /\ s["DPU_S_POINTER"] = Rk3588!Bits(14)
      /\ s["CNA_CONV_CON1"] = Rk3588!F(Rk3588!Precision(c), 3, 7)
                                      \cup Rk3588!F(Rk3588!Precision(c), 3, 4)
      /\ s["CNA_CONV_CON2"] = Rk3588!F(Rk3588!FeatureGrains(c), 10, 4)
      /\ s["CNA_CONV_CON3"] = Rk3588!F(1, 3, 3) \cup Rk3588!F(1, 3, 0)
      /\ s["CNA_DATA_SIZE0"] = Rk3588!F(1, 11, 16) \cup Rk3588!F(c.m, 11, 0)
      /\ s["CNA_DATA_SIZE1"] = Rk3588!DataSize1(c)
      /\ s["CNA_DATA_SIZE2"] = Rk3588!F(1, 11, 0)
      /\ s["CNA_DATA_SIZE3"] = Rk3588!F(c.m, 18, 0)
      /\ s["CNA_WEIGHT_SIZE0"] = Rk3588!Bits(Rk3588!WeightBytes(c))
  BY <1>0 DEF Sent
<1>2. /\ s["CNA_WEIGHT_SIZE1"] = Rk3588!F(Rk3588!KernelBytes(c), 19, 0)
      /\ s["CNA_WEIGHT_SIZE2"] = Rk3588!F(1, 5, 24) \cup Rk3588!F(1, 5, 16)
                                         \cup Rk3588!WeightKernels(c)
      /\ s["CNA_CBUF_CON0"] = Rk3588!F(Banks - Rk3588!FdBanks(c), 4, 4)
                                      \cup Rk3588!F(Rk3588!FdBanks(c), 4, 0)
      /\ s["CNA_CBUF_CON1"] = Rk3588!F(Rk3588!DataEntries(c), 13, 0)
      /\ s["CNA_CVT_CON0"] = Rk3588!F(1, 1, 3) \cup Rk3588!F(1, 1, 1) \cup Rk3588!F(1, 1, 0)
      /\ s["CNA_CVT_CON1"] = Rk3588!F(1, 16, 16)
      /\ s["CNA_CVT_CON2"] = Rk3588!F(1, 16, 16)
      /\ s["CNA_CVT_CON3"] = Rk3588!F(1, 16, 16)
      /\ s["CNA_CVT_CON4"] = Rk3588!F(1, 16, 16)
  BY <1>0 DEF Sent
<1>3. /\ s["CNA_FEATURE_DATA_ADDR"] = InputDma
      /\ s["CNA_DMA_CON0"] = Rk3588!F(15, 4, 16) \cup Rk3588!F(15, 4, 0)
      /\ s["CNA_DMA_CON1"] = Rk3588!F(Rk3588!LineStride, 28, 0)
      /\ s["CNA_DMA_CON2"] = Rk3588!F(Rk3588!SurfStride(c), 28, 0)
      /\ s["CNA_FC_DATA_SIZE0"] = Rk3588!F(1, 11, 16) \cup Rk3588!F(c.m, 11, 0)
      /\ s["CNA_FC_DATA_SIZE1"] = Rk3588!F(c.k, 16, 0)
      /\ s["CNA_DCOMP_ADDR0"] = WeightsDma
      /\ s["CORE_MISC_CFG"] = Rk3588!F(Rk3588!Precision(c), 3, 8)
                                      \cup Rk3588!F(Rk3588!QdEn(c), 1, 0)
      /\ s["CORE_DATAOUT_SIZE_0"] = Rk3588!F(Rk3588!LastRow(c), 16, 16)
  BY <1>0 DEF Sent
<1>4. /\ s["CORE_DATAOUT_SIZE_1"] = Rk3588!F(Rk3588!LastKernel(c), 16, 0)
      /\ s["DPU_FEATURE_MODE_CFG"] = Rk3588!F(15, 4, 5) \cup Rk3588!F(2, 2, 1)
      /\ s["DPU_DATA_FORMAT"] = Rk3588!F(Rk3588!OutPrecision(c), 3, 29)
                                        \cup Rk3588!F(Rk3588!Precision(c), 3, 26)
                                        \cup Rk3588!F(Rk3588!Precision(c), 3, 0)
      /\ s["DPU_DST_BASE_ADDR"] = OutputDma
      /\ s["DPU_DST_SURF_STRIDE"] = Rk3588!F(c.m, 28, 4)
      /\ s["DPU_DATA_CUBE_HEIGHT"] = Rk3588!F(Rk3588!LastRow(c), 13, 0)
      /\ s["DPU_DATA_CUBE_CHANNEL"] = Rk3588!F(Rk3588!LastKernel(c), 13, 16)
                                              \cup Rk3588!F(Rk3588!LastKernel(c), 13, 0)
      /\ s["DPU_BS_CFG"] = Rk3588!Bypass
      /\ s["DPU_BS_OW_CFG"] = Rk3588!F(Rk3588!SizeE(c), 3, 8)
                                      \cup Rk3588!F(Rk3588!SizeE(c), 3, 5)
                                      \cup Rk3588!F(Rk3588!SizeE(c), 3, 2) \cup {1}
  BY <1>0 DEF Sent
<1>5. /\ s["DPU_WDMA_SIZE_0"] = Rk3588!F(Rk3588!LastKernel(c), 13, 0)
      /\ s["DPU_WDMA_SIZE_1"] = Rk3588!F(Rk3588!LastRow(c), 13, 16)
      /\ s["DPU_BN_CFG"] = Rk3588!Bypass
      /\ s["DPU_EW_CFG"] = {9, 8, 7, 1, 0}
      /\ s["DPU_EW_CVT_SCALE_VALUE"] = Rk3588!Bits(1)
      /\ s["DPU_OUT_CVT_SCALE"] = Rk3588!F(Rk3588!ToFp16(c), 1, 16) \cup Rk3588!F(1, 16, 0)
      /\ s["DPU_SURFACE_ADD"] = Rk3588!F(Rk3588!SurfAdd(c), 28, 4)
  BY <1>0 DEF Sent
<1> QED
  BY <1>0, <1>1, <1>2, <1>3, <1>4, <1>5, Zenon

(* A register that the list sends a word gets that word.                   *)
LEMMA WordIs ==
  \A c, r : Word(c, r) = IF r \in DOMAIN Sent(c) THEN Sent(c)[r] ELSE {}
BY Zenon DEF Word

(* The registers that are cleared.                                         *)
LEMMA WordsClear ==
  \A c : \A r \in
    {"CNA_FC_CON0", "CNA_FC_CON1", "CNA_PAD_CON0", "CNA_FC_CON2", "CNA_DCOMP_CTRL",
     "CNA_DCOMP_REGNUM", "CNA_DCOMP_AMOUNT0", "CNA_DCOMP_AMOUNT1", "CNA_DCOMP_AMOUNT2",
     "CNA_DCOMP_AMOUNT3", "CNA_DCOMP_AMOUNT4", "CNA_DCOMP_AMOUNT5", "CNA_DCOMP_AMOUNT6",
     "CNA_DCOMP_AMOUNT7", "CNA_DCOMP_AMOUNT8", "CNA_DCOMP_AMOUNT9", "CNA_DCOMP_AMOUNT10",
     "CNA_DCOMP_AMOUNT11", "CNA_DCOMP_AMOUNT12", "CNA_DCOMP_AMOUNT13", "CNA_DCOMP_AMOUNT14",
     "CNA_DCOMP_AMOUNT15", "CNA_CVT_CON5", "CNA_PAD_CON1", "CORE_CLIP_TRUNCATE", "CORE_3030",
     "DPU_OFFSET_PEND", "DPU_DATA_CUBE_WIDTH", "DPU_DATA_CUBE_NOTCH_ADDR", "DPU_BS_ALU_CFG",
     "DPU_BS_MUL_CFG", "DPU_BS_RELUX_CMP_VALUE", "DPU_BS_OW_OP", "DPU_BN_ALU_CFG",
     "DPU_BN_MUL_CFG", "DPU_BN_RELUX_CMP_VALUE", "DPU_EW_CVT_OFFSET_VALUE",
     "DPU_EW_RELUX_CMP_VALUE", "DPU_OUT_CVT_OFFSET", "DPU_OUT_CVT_SHIFT", "DPU_EW_OP_VALUE_0",
     "DPU_EW_OP_VALUE_1", "DPU_EW_OP_VALUE_2", "DPU_EW_OP_VALUE_3", "DPU_EW_OP_VALUE_4",
     "DPU_EW_OP_VALUE_5", "DPU_EW_OP_VALUE_6", "DPU_EW_OP_VALUE_7", "DPU_40C4",
     "DPU_LUT_ACCESS_CFG", "DPU_LUT_ACCESS_DATA", "DPU_LUT_CFG", "DPU_LUT_INFO",
     "DPU_LUT_LE_START", "DPU_LUT_LE_END", "DPU_LUT_LO_START", "DPU_LUT_LO_END",
     "DPU_LUT_LE_SLOPE_SCALE", "DPU_LUT_LE_SLOPE_SHIFT", "DPU_LUT_LO_SLOPE_SCALE",
     "DPU_LUT_LO_SLOPE_SHIFT"} :
    Word(c, r) = {}
<1> TAKE c
<1> TAKE r \in
      {"CNA_FC_CON0", "CNA_FC_CON1", "CNA_PAD_CON0", "CNA_FC_CON2", "CNA_DCOMP_CTRL",
       "CNA_DCOMP_REGNUM", "CNA_DCOMP_AMOUNT0", "CNA_DCOMP_AMOUNT1", "CNA_DCOMP_AMOUNT2",
       "CNA_DCOMP_AMOUNT3", "CNA_DCOMP_AMOUNT4", "CNA_DCOMP_AMOUNT5", "CNA_DCOMP_AMOUNT6",
       "CNA_DCOMP_AMOUNT7", "CNA_DCOMP_AMOUNT8", "CNA_DCOMP_AMOUNT9", "CNA_DCOMP_AMOUNT10",
       "CNA_DCOMP_AMOUNT11", "CNA_DCOMP_AMOUNT12", "CNA_DCOMP_AMOUNT13", "CNA_DCOMP_AMOUNT14",
       "CNA_DCOMP_AMOUNT15", "CNA_CVT_CON5", "CNA_PAD_CON1", "CORE_CLIP_TRUNCATE", "CORE_3030",
       "DPU_OFFSET_PEND", "DPU_DATA_CUBE_WIDTH", "DPU_DATA_CUBE_NOTCH_ADDR", "DPU_BS_ALU_CFG",
       "DPU_BS_MUL_CFG", "DPU_BS_RELUX_CMP_VALUE", "DPU_BS_OW_OP", "DPU_BN_ALU_CFG",
       "DPU_BN_MUL_CFG", "DPU_BN_RELUX_CMP_VALUE", "DPU_EW_CVT_OFFSET_VALUE",
       "DPU_EW_RELUX_CMP_VALUE", "DPU_OUT_CVT_OFFSET", "DPU_OUT_CVT_SHIFT", "DPU_EW_OP_VALUE_0",
       "DPU_EW_OP_VALUE_1", "DPU_EW_OP_VALUE_2", "DPU_EW_OP_VALUE_3", "DPU_EW_OP_VALUE_4",
       "DPU_EW_OP_VALUE_5", "DPU_EW_OP_VALUE_6", "DPU_EW_OP_VALUE_7", "DPU_40C4",
       "DPU_LUT_ACCESS_CFG", "DPU_LUT_ACCESS_DATA", "DPU_LUT_CFG", "DPU_LUT_INFO",
       "DPU_LUT_LE_START", "DPU_LUT_LE_END", "DPU_LUT_LO_START", "DPU_LUT_LO_END",
       "DPU_LUT_LE_SLOPE_SCALE", "DPU_LUT_LE_SLOPE_SHIFT", "DPU_LUT_LO_SLOPE_SCALE",
       "DPU_LUT_LO_SLOPE_SHIFT"}
<1>1. r \notin DOMAIN Sent(c)
  BY SentNames
<1> QED
  BY <1>1, WordIs

-----------------------------------------------------------------------------
(* The commands.                                                           *)

(* npu_hw.h has other names for two of the registers, and two registers    *)
(* that Mesa does not have.                                                *)
HwName(r) ==
  CASE r = "DPU_DST_BASE_ADDR" -> "DPU_DST_BASE_ADD"
    [] r = "CNA_DCOMP_AMOUNT0" -> "CNA_DCOMP_AMOUNT"
    [] OTHER -> r

TaskRegs == Config \cup {"CORE_3030", "DPU_40C4"}

(* The unit a register's command is for.                                   *)
Op(r) ==
  IF r \in CnaConfig THEN Rk3588!OP_REG_CNA
  ELSE IF r \in CoreConfig \cup {"CORE_3030"} THEN Rk3588!OP_REG_CORE
  ELSE Rk3588!OP_REG_DPU

SentCmd(c, r) == Rk3588!Cmd(Op(r), HwName(r), Word(c, r))

(* The names of the CNA's registers.                                       *)
LEMMA CnaNames ==
  CnaConfig =
    {"CNA_CONV_CON1", "CNA_CONV_CON2", "CNA_CONV_CON3", "CNA_DATA_SIZE0", "CNA_DATA_SIZE1",
     "CNA_DATA_SIZE2", "CNA_DATA_SIZE3", "CNA_WEIGHT_SIZE0", "CNA_WEIGHT_SIZE1",
     "CNA_WEIGHT_SIZE2", "CNA_CBUF_CON0", "CNA_CBUF_CON1", "CNA_CVT_CON0", "CNA_CVT_CON1",
     "CNA_CVT_CON2", "CNA_CVT_CON3", "CNA_CVT_CON4", "CNA_FC_CON0", "CNA_FC_CON1", "CNA_PAD_CON0",
     "CNA_FEATURE_DATA_ADDR", "CNA_FC_CON2", "CNA_DMA_CON0", "CNA_DMA_CON1", "CNA_DMA_CON2",
     "CNA_FC_DATA_SIZE0", "CNA_FC_DATA_SIZE1", "CNA_DCOMP_CTRL", "CNA_DCOMP_REGNUM",
     "CNA_DCOMP_ADDR0", "CNA_DCOMP_AMOUNT0", "CNA_DCOMP_AMOUNT1", "CNA_DCOMP_AMOUNT2",
     "CNA_DCOMP_AMOUNT3", "CNA_DCOMP_AMOUNT4", "CNA_DCOMP_AMOUNT5", "CNA_DCOMP_AMOUNT6",
     "CNA_DCOMP_AMOUNT7", "CNA_DCOMP_AMOUNT8", "CNA_DCOMP_AMOUNT9", "CNA_DCOMP_AMOUNT10",
     "CNA_DCOMP_AMOUNT11", "CNA_DCOMP_AMOUNT12", "CNA_DCOMP_AMOUNT13", "CNA_DCOMP_AMOUNT14",
     "CNA_DCOMP_AMOUNT15", "CNA_CVT_CON5", "CNA_PAD_CON1"}
BY GroupNames DEF CnaConfig

(* The names of the CORE's registers.                                      *)
LEMMA CoreNames ==
  CoreConfig =
    {"CORE_MISC_CFG", "CORE_DATAOUT_SIZE_0", "CORE_DATAOUT_SIZE_1", "CORE_CLIP_TRUNCATE"}
BY GroupNames DEF CoreConfig

(* The names of the DPU's registers.                                       *)
LEMMA DpuNames ==
  DpuConfig =
    {"DPU_S_POINTER", "DPU_FEATURE_MODE_CFG", "DPU_DATA_FORMAT", "DPU_OFFSET_PEND",
     "DPU_DST_BASE_ADDR", "DPU_DST_SURF_STRIDE", "DPU_DATA_CUBE_WIDTH", "DPU_DATA_CUBE_HEIGHT",
     "DPU_DATA_CUBE_NOTCH_ADDR", "DPU_DATA_CUBE_CHANNEL", "DPU_BS_CFG", "DPU_BS_ALU_CFG",
     "DPU_BS_MUL_CFG", "DPU_BS_RELUX_CMP_VALUE", "DPU_BS_OW_CFG", "DPU_BS_OW_OP",
     "DPU_WDMA_SIZE_0", "DPU_WDMA_SIZE_1", "DPU_BN_CFG", "DPU_BN_ALU_CFG", "DPU_BN_MUL_CFG",
     "DPU_BN_RELUX_CMP_VALUE", "DPU_EW_CFG", "DPU_EW_CVT_OFFSET_VALUE", "DPU_EW_CVT_SCALE_VALUE",
     "DPU_EW_RELUX_CMP_VALUE", "DPU_OUT_CVT_OFFSET", "DPU_OUT_CVT_SCALE", "DPU_OUT_CVT_SHIFT",
     "DPU_EW_OP_VALUE_0", "DPU_EW_OP_VALUE_1", "DPU_EW_OP_VALUE_2", "DPU_EW_OP_VALUE_3",
     "DPU_EW_OP_VALUE_4", "DPU_EW_OP_VALUE_5", "DPU_EW_OP_VALUE_6", "DPU_EW_OP_VALUE_7",
     "DPU_SURFACE_ADD", "DPU_LUT_ACCESS_CFG", "DPU_LUT_ACCESS_DATA", "DPU_LUT_CFG",
     "DPU_LUT_INFO", "DPU_LUT_LE_START", "DPU_LUT_LE_END", "DPU_LUT_LO_START", "DPU_LUT_LO_END",
     "DPU_LUT_LE_SLOPE_SCALE", "DPU_LUT_LE_SLOPE_SHIFT", "DPU_LUT_LO_SLOPE_SCALE",
     "DPU_LUT_LO_SLOPE_SHIFT"}
BY GroupNames DEF DpuConfig

(* The unit of each.                                                       *)
LEMMA Ops ==
  /\ \A r \in CnaConfig : Op(r) = Rk3588!OP_REG_CNA
  /\ \A r \in CoreConfig \cup {"CORE_3030"} : Op(r) = Rk3588!OP_REG_CORE
  /\ \A r \in DpuConfig \cup {"DPU_40C4"} : Op(r) = Rk3588!OP_REG_DPU
<1>1. \A r \in CoreConfig \cup {"CORE_3030"} : r \notin CnaConfig
  BY CnaNames, CoreNames
<1>2. \A r \in DpuConfig \cup {"DPU_40C4"} : r \notin CnaConfig
  BY CnaNames, DpuNames
<1>3. \A r \in DpuConfig \cup {"DPU_40C4"} : r \notin CoreConfig \cup {"CORE_3030"}
  BY CoreNames, DpuNames
<1> QED
  BY <1>1, <1>2, <1>3 DEF Op

Hw == Rk3588!HwRegisters

(* npu_hw.h gives each register a number of 16 bits.                       *)
LEMMA HwNumbers == \A r \in DOMAIN Hw : Hw[r] \in Nat /\ Hw[r] < 65536
BY SMTT(60) DEF Hw, Rk3588!HwRegisters

(* It is the number of mesa_registers.h.                                   *)
LEMMA NumbersAgree ==
  \A r \in Config : HwName(r) \in DOMAIN Hw /\ Hw[HwName(r)] = Registers[r].no
<1>0. PICK hw : hw = Hw
  OBVIOUS
<1>1. \A r \in DOMAIN CnaConv : HwName(r) \in DOMAIN hw /\ hw[HwName(r)] = Registers[r].no
  <2>1. \A x \in DOMAIN CnaConv : HwName(x) \in DOMAIN hw /\ hw[HwName(x)] = CnaConv[x].no
    BY <1>0 DEF CnaConv, R, Whole, HwName, Hw, Rk3588!HwRegisters
  <2> QED
    BY <2>1, InGroups
<1>2. \A r \in DOMAIN CnaSizes : HwName(r) \in DOMAIN hw /\ hw[HwName(r)] = Registers[r].no
  <2>1. \A x \in DOMAIN CnaSizes : HwName(x) \in DOMAIN hw /\ hw[HwName(x)] = CnaSizes[x].no
    BY <1>0 DEF CnaSizes, R, Whole, HwName, Hw, Rk3588!HwRegisters
  <2> QED
    BY <2>1, InGroups
<1>3. \A r \in DOMAIN CnaBuffer : HwName(r) \in DOMAIN hw /\ hw[HwName(r)] = Registers[r].no
  <2>1. \A x \in DOMAIN CnaBuffer : HwName(x) \in DOMAIN hw /\ hw[HwName(x)] = CnaBuffer[x].no
    BY <1>0 DEF CnaBuffer, R, Whole, HwName, Hw, Rk3588!HwRegisters
  <2> QED
    BY <2>1, InGroups
<1>4. \A r \in DOMAIN CnaConvert : HwName(r) \in DOMAIN hw /\ hw[HwName(r)] = Registers[r].no
  <2>1. \A x \in DOMAIN CnaConvert : HwName(x) \in DOMAIN hw /\ hw[HwName(x)] = CnaConvert[x].no
    BY <1>0 DEF CnaConvert, R, Whole, HwName, Hw, Rk3588!HwRegisters
  <2> QED
    BY <2>1, InGroups
<1>5. \A r \in DOMAIN CnaFetch : HwName(r) \in DOMAIN hw /\ hw[HwName(r)] = Registers[r].no
  <2>1. \A x \in DOMAIN CnaFetch : HwName(x) \in DOMAIN hw /\ hw[HwName(x)] = CnaFetch[x].no
    BY <1>0 DEF CnaFetch, R, Whole, HwName, Hw, Rk3588!HwRegisters
  <2> QED
    BY <2>1, InGroups
<1>6. \A r \in DOMAIN CnaFullConnect : HwName(r) \in DOMAIN hw /\ hw[HwName(r)] = Registers[r].no
  <2>1. \A x \in DOMAIN CnaFullConnect :
          HwName(x) \in DOMAIN hw /\ hw[HwName(x)] = CnaFullConnect[x].no
    BY <1>0 DEF CnaFullConnect, R, Whole, HwName, Hw, Rk3588!HwRegisters
  <2> QED
    BY <2>1, InGroups
<1>7. \A r \in DOMAIN CnaDecompress : HwName(r) \in DOMAIN hw /\ hw[HwName(r)] = Registers[r].no
  <2>1. PICK g : g = CnaDecompress
    OBVIOUS
  <2>2. \A x \in DOMAIN CnaDecompress : HwName(x) \in DOMAIN hw
    BY <1>0, GroupNames DEF HwName, Hw, Rk3588!HwRegisters
  <2>3. \A x \in DOMAIN g : hw[HwName(x)] = g[x].no
    BY <1>0, <2>1, SMTT(90) DEF CnaDecompress, R, Whole, HwName, Hw, Rk3588!HwRegisters
  <2> QED
    BY <2>1, <2>2, <2>3, InGroups
<1>8. \A r \in DOMAIN CnaPad : HwName(r) \in DOMAIN hw /\ hw[HwName(r)] = Registers[r].no
  <2>1. \A x \in DOMAIN CnaPad : HwName(x) \in DOMAIN hw /\ hw[HwName(x)] = CnaPad[x].no
    BY <1>0 DEF CnaPad, R, Whole, HwName, Hw, Rk3588!HwRegisters
  <2> QED
    BY <2>1, InGroups
<1>9. \A r \in DOMAIN CoreRegs : HwName(r) \in DOMAIN hw /\ hw[HwName(r)] = Registers[r].no
  <2>1. \A x \in DOMAIN CoreRegs : HwName(x) \in DOMAIN hw /\ hw[HwName(x)] = CoreRegs[x].no
    BY <1>0 DEF CoreRegs, R, Whole, HwName, Hw, Rk3588!HwRegisters
  <2> QED
    BY <2>1, InGroups
<1>10. \A r \in DOMAIN DpuFeature : HwName(r) \in DOMAIN hw /\ hw[HwName(r)] = Registers[r].no
  <2>1. \A x \in DOMAIN DpuFeature : HwName(x) \in DOMAIN hw /\ hw[HwName(x)] = DpuFeature[x].no
    BY <1>0 DEF DpuFeature, R, Whole, HwName, Hw, Rk3588!HwRegisters
  <2> QED
    BY <2>1, InGroups
<1>11. \A r \in DOMAIN DpuCube : HwName(r) \in DOMAIN hw /\ hw[HwName(r)] = Registers[r].no
  <2>1. \A x \in DOMAIN DpuCube : HwName(x) \in DOMAIN hw /\ hw[HwName(x)] = DpuCube[x].no
    BY <1>0 DEF DpuCube, R, Whole, HwName, Hw, Rk3588!HwRegisters
  <2> QED
    BY <2>1, InGroups
<1>12. \A r \in DOMAIN DpuBs : HwName(r) \in DOMAIN hw /\ hw[HwName(r)] = Registers[r].no
  <2>1. \A x \in DOMAIN DpuBs : HwName(x) \in DOMAIN hw /\ hw[HwName(x)] = DpuBs[x].no
    BY <1>0 DEF DpuBs, R, Whole, HwName, Hw, Rk3588!HwRegisters
  <2> QED
    BY <2>1, InGroups
<1>13. \A r \in DOMAIN DpuWdma : HwName(r) \in DOMAIN hw /\ hw[HwName(r)] = Registers[r].no
  <2>1. \A x \in DOMAIN DpuWdma : HwName(x) \in DOMAIN hw /\ hw[HwName(x)] = DpuWdma[x].no
    BY <1>0 DEF DpuWdma, R, Whole, HwName, Hw, Rk3588!HwRegisters
  <2> QED
    BY <2>1, InGroups
<1>14. \A r \in DOMAIN DpuBn : HwName(r) \in DOMAIN hw /\ hw[HwName(r)] = Registers[r].no
  <2>1. \A x \in DOMAIN DpuBn : HwName(x) \in DOMAIN hw /\ hw[HwName(x)] = DpuBn[x].no
    BY <1>0 DEF DpuBn, R, Whole, HwName, Hw, Rk3588!HwRegisters
  <2> QED
    BY <2>1, InGroups
<1>15. \A r \in DOMAIN DpuEw : HwName(r) \in DOMAIN hw /\ hw[HwName(r)] = Registers[r].no
  <2>1. \A x \in DOMAIN DpuEw : HwName(x) \in DOMAIN hw /\ hw[HwName(x)] = DpuEw[x].no
    BY <1>0 DEF DpuEw, R, Whole, HwName, Hw, Rk3588!HwRegisters
  <2> QED
    BY <2>1, InGroups
<1>16. \A r \in DOMAIN DpuOutput : HwName(r) \in DOMAIN hw /\ hw[HwName(r)] = Registers[r].no
  <2>1. \A x \in DOMAIN DpuOutput : HwName(x) \in DOMAIN hw /\ hw[HwName(x)] = DpuOutput[x].no
    BY <1>0 DEF DpuOutput, R, Whole, HwName, Hw, Rk3588!HwRegisters
  <2> QED
    BY <2>1, InGroups
<1>17. \A r \in DOMAIN DpuOperands : HwName(r) \in DOMAIN hw /\ hw[HwName(r)] = Registers[r].no
  <2>1. \A x \in DOMAIN DpuOperands : HwName(x) \in DOMAIN hw /\ hw[HwName(x)] = DpuOperands[x].no
    BY <1>0 DEF DpuOperands, R, Whole, HwName, Hw, Rk3588!HwRegisters
  <2> QED
    BY <2>1, InGroups
<1>18. \A r \in DOMAIN DpuLut : HwName(r) \in DOMAIN hw /\ hw[HwName(r)] = Registers[r].no
  <2>1. \A x \in DOMAIN DpuLut : HwName(x) \in DOMAIN hw /\ hw[HwName(x)] = DpuLut[x].no
    BY <1>0 DEF DpuLut, R, Whole, HwName, Hw, Rk3588!HwRegisters
  <2> QED
    BY <2>1, InGroups
<1>19. \A r \in DOMAIN DpuLutRanges : HwName(r) \in DOMAIN hw /\ hw[HwName(r)] = Registers[r].no
  <2>1. \A x \in DOMAIN DpuLutRanges : HwName(x) \in DOMAIN hw /\ hw[HwName(x)] = DpuLutRanges[x].no
    BY <1>0 DEF DpuLutRanges, R, Whole, HwName, Hw, Rk3588!HwRegisters
  <2> QED
    BY <2>1, InGroups
<1>20. HwName("DPU_S_POINTER") \in DOMAIN hw
      /\ hw[HwName("DPU_S_POINTER")] = Registers["DPU_S_POINTER"].no
  BY <1>0, InGroups, GroupNames DEF DpuEnable, R, HwName, Hw, Rk3588!HwRegisters
<1> QED
  BY <1>0, <1>1, <1>2, <1>3, <1>4, <1>5, <1>6, <1>7, <1>8, <1>9, <1>10, <1>11, <1>12, <1>13, <1>14,
     <1>15, <1>16, <1>17, <1>18, <1>19, <1>20
     DEF Config, CnaConfig, CoreConfig, DpuConfig

-----------------------------------------------------------------------------
(* What the NPU makes of a command of the rk3588 generator.                *)
LEMMA SameWords ==
  /\ \A n : Rk3588!Bits(n) = Bits(n)
  /\ \A op, value, reg : Rk3588!NPUOP(op, value, reg) = NPUOP(op, value, reg)
  /\ \A word, n : Rk3588!Shl(word, n) = Shl(word, n)
  /\ \A w : Rk3588!Low(w) = Low(w)
BY Zenon DEF Rk3588!Bits, Bits, Rk3588!NPUOP, NPUOP, Rk3588!Shl, Shl, Rk3588!Low, Low

(* What commands are made of is words.                                     *)
LEMMA BitsAreWords == \A n : IsWord(Bits(n))
BY DEF Bits, IsWord

(* Two words joined are a word.                                            *)
LEMMA WordsJoin == \A x, y : IsWord(x) /\ IsWord(y) => IsWord(x \cup y)
BY DEF IsWord

(* A number moved to its field is a word.                                  *)
LEMMA FieldsAreWords ==
  /\ \A x : \A w, s \in Nat : IsWord(Rk3588!F(x, w, s))
  /\ IsWord({})
<1> SUFFICES ASSUME NEW x, NEW w \in Nat, NEW s \in Nat PROVE IsWord(Rk3588!F(x, w, s))
  BY DEF IsWord
<1>1. Rk3588!F(x, w, s) = Shl(Bits(x) \cap Low(w), s)
  BY SameWords DEF Rk3588!F
<1>2. Bits(x) \cap Low(w) \in SUBSET Nat
  BY BitsAreWords DEF IsWord
<1> QED
  BY <1>1, <1>2, ShiftedWords DEF IsWord

(* The target, the value and the register number of a command.             *)
LEMMA CmdParts ==
  \A op, v : \A r \in DOMAIN Hw : IsWord(v) =>
    /\ TargetOf(Rk3588!Cmd(op, r, v)) = Cut(Bits(op), 16)
    /\ ValueOf(Rk3588!Cmd(op, r, v)) = Cut(v, 32)
    /\ RegOf(Rk3588!Cmd(op, r, v)) = Bits(Hw[r])
<1> SUFFICES ASSUME NEW op, NEW v, NEW r \in DOMAIN Hw, IsWord(v)
             PROVE  /\ TargetOf(Rk3588!Cmd(op, r, v)) = Cut(Bits(op), 16)
                    /\ ValueOf(Rk3588!Cmd(op, r, v)) = Cut(v, 32)
                    /\ RegOf(Rk3588!Cmd(op, r, v)) = Bits(Hw[r])
  OBVIOUS
<1>1. Rk3588!Cmd(op, r, v) = NPUOP(Bits(op), v, Bits(Hw[r]))
  BY SameWords DEF Rk3588!Cmd, Hw
<1>2. /\ TargetOf(Rk3588!Cmd(op, r, v)) = Cut(Bits(op), 16)
      /\ ValueOf(Rk3588!Cmd(op, r, v)) = Cut(v, 32)
      /\ RegOf(Rk3588!Cmd(op, r, v)) = Cut(Bits(Hw[r]), 16)
  BY <1>1, BitsAreWords, CommandCut
<1>3. Cut(Bits(Hw[r]), 16) = Bits(Hw[r])
  <2>1. PICK n : n = Hw[r]
    OBVIOUS
  <2>2. n \in Nat /\ n < 65536
    BY <2>1, HwNumbers
  <2>3. n < Power[16]
    BY <2>2, PowerTable
  <2>4. Bits(n) \subseteq Low(16)
    BY <2>2, <2>3, BitsFit
  <2> QED
    BY <2>1, <2>4 DEF Cut
<1> QED
  BY <1>2, <1>3

(* What is sent is a word.                                                 *)
LEMMA SentWords == \A c, r : IsWord(Word(c, r))
<1> TAKE c, r
<1>1. IsWord(InputDma) /\ IsWord(WeightsDma) /\ IsWord(OutputDma)
  BY AddressAssumption DEF IsWord, Low
<1>2. /\ IsWord({}) /\ IsWord({1}) /\ IsWord({9, 8, 7, 1, 0}) /\ IsWord(Rk3588!Bypass)
      /\ \A n : IsWord(Rk3588!Bits(n))
  BY SameWords, BitsAreWords DEF IsWord, Rk3588!Bypass
<1>3. IsWord(Rk3588!DataSize1(c)) /\ IsWord(Rk3588!WeightKernels(c))
  BY FieldsAreWords, WordsJoin DEF Rk3588!DataSize1, Rk3588!WeightKernels
<1>4. /\ IsWord(Sent(c)["DPU_S_POINTER"])
      /\ IsWord(Sent(c)["CNA_CONV_CON1"])
      /\ IsWord(Sent(c)["CNA_CONV_CON2"])
      /\ IsWord(Sent(c)["CNA_CONV_CON3"])
  <2>1. /\ IsWord(Rk3588!Bits(14))
        /\ IsWord(Rk3588!F(Rk3588!Precision(c), 3, 7) \cup Rk3588!F(Rk3588!Precision(c), 3, 4))
        /\ IsWord(Rk3588!F(Rk3588!FeatureGrains(c), 10, 4))
        /\ IsWord(Rk3588!F(1, 3, 3) \cup Rk3588!F(1, 3, 0))
    BY <1>1, <1>2, <1>3, FieldsAreWords, WordsJoin
  <2> QED
    BY <2>1, WordsSent, ZenonT(60)
<1>5. /\ IsWord(Sent(c)["CNA_DATA_SIZE0"])
      /\ IsWord(Sent(c)["CNA_DATA_SIZE1"])
      /\ IsWord(Sent(c)["CNA_DATA_SIZE2"])
      /\ IsWord(Sent(c)["CNA_DATA_SIZE3"])
  <2>1. /\ IsWord(Rk3588!F(1, 11, 16) \cup Rk3588!F(c.m, 11, 0))
        /\ IsWord(Rk3588!DataSize1(c))
        /\ IsWord(Rk3588!F(1, 11, 0))
        /\ IsWord(Rk3588!F(c.m, 18, 0))
    BY <1>1, <1>2, <1>3, FieldsAreWords, WordsJoin
  <2> QED
    BY <2>1, WordsSent, ZenonT(60)
<1>6. /\ IsWord(Sent(c)["CNA_WEIGHT_SIZE0"])
      /\ IsWord(Sent(c)["CNA_WEIGHT_SIZE1"])
      /\ IsWord(Sent(c)["CNA_WEIGHT_SIZE2"])
      /\ IsWord(Sent(c)["CNA_CBUF_CON0"])
  <2>1. /\ IsWord(Rk3588!Bits(Rk3588!WeightBytes(c)))
        /\ IsWord(Rk3588!F(Rk3588!KernelBytes(c), 19, 0))
        /\ IsWord(Rk3588!F(1, 5, 24) \cup Rk3588!F(1, 5, 16) \cup Rk3588!WeightKernels(c))
        /\ IsWord(Rk3588!F(Banks - Rk3588!FdBanks(c), 4, 4)
                    \cup Rk3588!F(Rk3588!FdBanks(c), 4, 0))
    BY <1>1, <1>2, <1>3, FieldsAreWords, WordsJoin
  <2> QED
    BY <2>1, WordsSent, Zenon
<1>7. /\ IsWord(Sent(c)["CNA_CBUF_CON1"])
      /\ IsWord(Sent(c)["CNA_CVT_CON0"])
      /\ IsWord(Sent(c)["CNA_CVT_CON1"])
      /\ IsWord(Sent(c)["CNA_CVT_CON2"])
  <2>1. /\ IsWord(Rk3588!F(Rk3588!DataEntries(c), 13, 0))
        /\ IsWord(Rk3588!F(1, 1, 3) \cup Rk3588!F(1, 1, 1) \cup Rk3588!F(1, 1, 0))
        /\ IsWord(Rk3588!F(1, 16, 16))
        /\ IsWord(Rk3588!F(1, 16, 16))
    BY <1>1, <1>2, <1>3, FieldsAreWords, WordsJoin
  <2> QED
    BY <2>1, WordsSent, ZenonT(60)
<1>8. /\ IsWord(Sent(c)["CNA_CVT_CON3"])
      /\ IsWord(Sent(c)["CNA_CVT_CON4"])
      /\ IsWord(Sent(c)["CNA_FEATURE_DATA_ADDR"])
      /\ IsWord(Sent(c)["CNA_DMA_CON0"])
  <2>1. /\ IsWord(Rk3588!F(1, 16, 16))
        /\ IsWord(Rk3588!F(1, 16, 16))
        /\ IsWord(InputDma)
        /\ IsWord(Rk3588!F(15, 4, 16) \cup Rk3588!F(15, 4, 0))
    BY <1>1, <1>2, <1>3, FieldsAreWords, WordsJoin
  <2> QED
    BY <2>1, WordsSent, ZenonT(60)
<1>9. /\ IsWord(Sent(c)["CNA_DMA_CON1"])
      /\ IsWord(Sent(c)["CNA_DMA_CON2"])
      /\ IsWord(Sent(c)["CNA_FC_DATA_SIZE0"])
      /\ IsWord(Sent(c)["CNA_FC_DATA_SIZE1"])
  <2>1. /\ IsWord(Rk3588!F(Rk3588!LineStride, 28, 0))
        /\ IsWord(Rk3588!F(Rk3588!SurfStride(c), 28, 0))
        /\ IsWord(Rk3588!F(1, 11, 16) \cup Rk3588!F(c.m, 11, 0))
        /\ IsWord(Rk3588!F(c.k, 16, 0))
    BY <1>1, <1>2, <1>3, FieldsAreWords, WordsJoin
  <2> QED
    BY <2>1, WordsSent, ZenonT(60)
<1>10. /\ IsWord(Sent(c)["CNA_DCOMP_ADDR0"])
       /\ IsWord(Sent(c)["CORE_MISC_CFG"])
       /\ IsWord(Sent(c)["CORE_DATAOUT_SIZE_0"])
       /\ IsWord(Sent(c)["CORE_DATAOUT_SIZE_1"])
  <2>1. /\ IsWord(WeightsDma)
        /\ IsWord(Rk3588!F(Rk3588!Precision(c), 3, 8) \cup Rk3588!F(Rk3588!QdEn(c), 1, 0))
        /\ IsWord(Rk3588!F(Rk3588!LastRow(c), 16, 16))
        /\ IsWord(Rk3588!F(Rk3588!LastKernel(c), 16, 0))
    BY <1>1, <1>2, <1>3, FieldsAreWords, WordsJoin
  <2> QED
    BY <2>1, WordsSent, ZenonT(60)
<1>11. /\ IsWord(Sent(c)["DPU_FEATURE_MODE_CFG"])
       /\ IsWord(Sent(c)["DPU_DATA_FORMAT"])
       /\ IsWord(Sent(c)["DPU_DST_BASE_ADDR"])
       /\ IsWord(Sent(c)["DPU_DST_SURF_STRIDE"])
  <2>1. /\ IsWord(Rk3588!F(15, 4, 5) \cup Rk3588!F(2, 2, 1))
        /\ IsWord(Rk3588!F(Rk3588!OutPrecision(c), 3, 29)
                    \cup Rk3588!F(Rk3588!Precision(c), 3, 26)
                    \cup Rk3588!F(Rk3588!Precision(c), 3, 0))
        /\ IsWord(OutputDma)
        /\ IsWord(Rk3588!F(c.m, 28, 4))
    BY <1>1, <1>2, <1>3, FieldsAreWords, WordsJoin
  <2> QED
    BY <2>1, WordsSent, ZenonT(60)
<1>12. /\ IsWord(Sent(c)["DPU_DATA_CUBE_HEIGHT"])
       /\ IsWord(Sent(c)["DPU_DATA_CUBE_CHANNEL"])
       /\ IsWord(Sent(c)["DPU_BS_CFG"])
       /\ IsWord(Sent(c)["DPU_BS_OW_CFG"])
  <2>1. /\ IsWord(Rk3588!F(Rk3588!LastRow(c), 13, 0))
        /\ IsWord(Rk3588!F(Rk3588!LastKernel(c), 13, 16)
                    \cup Rk3588!F(Rk3588!LastKernel(c), 13, 0))
        /\ IsWord(Rk3588!Bypass)
        /\ IsWord(Rk3588!F(Rk3588!SizeE(c), 3, 8) \cup Rk3588!F(Rk3588!SizeE(c), 3, 5)
                    \cup Rk3588!F(Rk3588!SizeE(c), 3, 2) \cup {1})
    BY <1>1, <1>2, <1>3, FieldsAreWords, WordsJoin
  <2> QED
    BY <2>1, WordsSent, Zenon
<1>13. /\ IsWord(Sent(c)["DPU_WDMA_SIZE_0"])
       /\ IsWord(Sent(c)["DPU_WDMA_SIZE_1"])
       /\ IsWord(Sent(c)["DPU_BN_CFG"])
       /\ IsWord(Sent(c)["DPU_EW_CFG"])
  <2>1. /\ IsWord(Rk3588!F(Rk3588!LastKernel(c), 13, 0))
        /\ IsWord(Rk3588!F(Rk3588!LastRow(c), 13, 16))
        /\ IsWord(Rk3588!Bypass)
        /\ IsWord({9, 8, 7, 1, 0})
    BY <1>1, <1>2, <1>3, FieldsAreWords, WordsJoin
  <2> QED
    BY <2>1, WordsSent, ZenonT(60)
<1>14. /\ IsWord(Sent(c)["DPU_EW_CVT_SCALE_VALUE"])
       /\ IsWord(Sent(c)["DPU_OUT_CVT_SCALE"])
       /\ IsWord(Sent(c)["DPU_SURFACE_ADD"])
  <2>1. /\ IsWord(Rk3588!Bits(1))
        /\ IsWord(Rk3588!F(Rk3588!ToFp16(c), 1, 16) \cup Rk3588!F(1, 16, 0))
        /\ IsWord(Rk3588!F(Rk3588!SurfAdd(c), 28, 4))
    BY <1>1, <1>2, <1>3, FieldsAreWords, WordsJoin
  <2> QED
    BY <2>1, WordsSent, ZenonT(60)
<1>15. \A x \in DOMAIN Sent(c) : IsWord(Sent(c)[x])
  BY <1>4, <1>5, <1>6, <1>7, <1>8, <1>9, <1>10, <1>11, <1>12, <1>13, <1>14, SentNames
<1> QED
  BY <1>2, <1>15, WordIs, Zenon

(* A register's command reaches the unit and the register it is meant for. *)
LEMMA SentLands ==
  \A c : \A r \in Config :
    /\ Key(SentCmd(c, r)) = Place(r)
    /\ Writes(SentCmd(c, r))
    /\ ValueOf(SentCmd(c, r)) = Cut(Word(c, r), 32)
<1> SUFFICES ASSUME NEW c, NEW r \in Config
             PROVE  /\ Key(SentCmd(c, r)) = Place(r)
                    /\ Writes(SentCmd(c, r))
                    /\ ValueOf(SentCmd(c, r)) = Cut(Word(c, r), 32)
  OBVIOUS
<1>1. PICK cmd : cmd = SentCmd(c, r)
  OBVIOUS
<1>2. PICK no : no = Registers[r].no
  OBVIOUS
<1>3. PICK t : t = rkt_get_target(no)
  OBVIOUS
<1>4. /\ TargetOf(cmd) = Cut(Bits(Op(r)), 16)
      /\ ValueOf(cmd) = Cut(Word(c, r), 32)
      /\ RegOf(cmd) = Bits(no)
  BY <1>1, <1>2, SentWords, CmdParts, NumbersAgree DEF SentCmd
<1>5. \/ t = \h200 /\ Op(r) = \h201
      \/ t = \h800 /\ Op(r) = \h801
      \/ t = \h1000 /\ Op(r) = \h1001
  BY <1>2, <1>3, Ops, ConfigTargets
     DEF Config, Rk3588!OP_REG_CNA, Rk3588!OP_REG_CORE, Rk3588!OP_REG_DPU
<1>6. TargetOf(cmd) = {0} \cup Bits(t) /\ 0 \notin Bits(t)
  <2>1. Bits(Op(r)) = {0} \cup Bits(t) /\ Bits(Op(r)) \subseteq 0..15 /\ 0 \notin Bits(t)
    BY <1>5, SomeBits
  <2>2. Cut(Bits(Op(r)), 16) = Bits(Op(r))
    BY <2>1 DEF Cut, Low
  <2> QED
    BY <1>4, <2>1, <2>2
<1>7. Key(cmd) = Place(r)
  <2>1. TargetOf(cmd) \ {0} = Bits(t)
    BY <1>6
  <2> QED
    BY <1>2, <1>3, <1>4, <2>1 DEF Key, Place
<1>8. Writes(cmd)
  <2>1. TargetOf({-1}) = {}
    BY DEF TargetOf, Shr
  <2>2. TargetOf(cmd) # {}
    BY <1>6
  <2> QED
    BY <2>1, <2>2 DEF Writes, Full!NoWord
<1> QED
  BY <1>1, <1>4, <1>7, <1>8

-----------------------------------------------------------------------------
(* Lists written element by element: they are lists of their elements.     *)
Lists(s, S) == IsSeq(s) /\ CommandsIn(s) = S

(* A list of one to eight commands written out is a list.                  *)
LEMMA TuplesList ==
  /\ \A a :
       Lists(<<a>>,
             {a})
  /\ \A a, b :
       Lists(<<a, b>>,
             {a, b})
  /\ \A a, b, d :
       Lists(<<a, b, d>>,
             {a, b, d})
  /\ \A a, b, d, e :
       Lists(<<a, b, d, e>>,
             {a, b, d, e})
  /\ \A a, b, d, e, f :
       Lists(<<a, b, d, e, f>>,
             {a, b, d, e, f})
  /\ \A a, b, d, e, f, g :
       Lists(<<a, b, d, e, f, g>>,
             {a, b, d, e, f, g})
  /\ \A a, b, d, e, f, g, h :
       Lists(<<a, b, d, e, f, g, h>>,
             {a, b, d, e, f, g, h})
  /\ \A a, b, d, e, f, g, h, i :
       Lists(<<a, b, d, e, f, g, h, i>>,
             {a, b, d, e, f, g, h, i})
  /\ \A a, b, d, e, f, g, h, i, j :
       Lists(<<a, b, d, e, f, g, h, i, j>>,
             {a, b, d, e, f, g, h, i, j})
  /\ \A a, b, d, e, f, g, h, i, j, k, l, m, n :
       Lists(<<a, b, d, e, f, g, h, i, j, k, l, m, n>>,
             {a, b, d, e, f, g, h, i, j, k, l, m, n})
  /\ \A a, b, d, e, f, g, h, i, j, k, l, m, n, o, p :
       Lists(<<a, b, d, e, f, g, h, i, j, k, l, m, n, o, p>>,
             {a, b, d, e, f, g, h, i, j, k, l, m, n, o, p})
  /\ \A a, b, d, e, f, g, h, i, j, k, l, m, n, o, p, q, t :
       Lists(<<a, b, d, e, f, g, h, i, j, k, l, m, n, o, p, q, t>>,
             {a, b, d, e, f, g, h, i, j, k, l, m, n, o, p, q, t})
  /\ \A a, b, d, e, f, g, h, i, j, k, l, m, n, o, p, q, t, u :
       Lists(<<a, b, d, e, f, g, h, i, j, k, l, m, n, o, p, q, t, u>>,
             {a, b, d, e, f, g, h, i, j, k, l, m, n, o, p, q, t, u})
BY DEF Lists, IsSeq, CommandsIn

(* A list of the commands of some registers, and no other.                 *)
Covers(c, s, N) == Lists(s, {SentCmd(c, r) : r \in N})

(* A list written out covers the registers of its commands.                *)
LEMMA TuplesCover ==
  /\ \A c, a :
       Covers(c, <<SentCmd(c, a)>>,
              {a})
  /\ \A c, a, b :
       Covers(c, <<SentCmd(c, a), SentCmd(c, b)>>,
              {a, b})
  /\ \A c, a, b, d :
       Covers(c, <<SentCmd(c, a), SentCmd(c, b), SentCmd(c, d)>>,
              {a, b, d})
  /\ \A c, a, b, d, e :
       Covers(c, <<SentCmd(c, a), SentCmd(c, b), SentCmd(c, d), SentCmd(c, e)>>,
              {a, b, d, e})
  /\ \A c, a, b, d, e, f :
       Covers(c, <<SentCmd(c, a), SentCmd(c, b), SentCmd(c, d), SentCmd(c, e), SentCmd(c, f)>>,
              {a, b, d, e, f})
  /\ \A c, a, b, d, e, f, g, h :
       Covers(c, <<SentCmd(c, a), SentCmd(c, b), SentCmd(c, d), SentCmd(c, e), SentCmd(c, f),
                   SentCmd(c, g), SentCmd(c, h)>>,
              {a, b, d, e, f, g, h})
  /\ \A c, a, b, d, e, f, g, h, i, j :
       Covers(c, <<SentCmd(c, a), SentCmd(c, b), SentCmd(c, d), SentCmd(c, e), SentCmd(c, f),
                   SentCmd(c, g), SentCmd(c, h), SentCmd(c, i), SentCmd(c, j)>>,
              {a, b, d, e, f, g, h, i, j})
BY DEF Covers, Lists, IsSeq, CommandsIn

(* Two lists joined cover the registers of both.                           *)
LEMMA CoversJoin ==
  \A c, s, t, N, M : Covers(c, s, N) /\ Covers(c, t, M) => Covers(c, s \o t, N \cup M)
<1> SUFFICES ASSUME NEW c, NEW s, NEW t, NEW N, NEW M, Covers(c, s, N), Covers(c, t, M)
             PROVE  Covers(c, s \o t, N \cup M)
  OBVIOUS
<1>1. IsSeq(s \o t) /\ CommandsIn(s \o t) = CommandsIn(s) \cup CommandsIn(t)
  BY Joined DEF Covers, Lists
<1> QED
  BY <1>1 DEF Covers, Lists

(* Registers that are cleared.                                             *)
LEMMA ZerosCover ==
  ASSUME NEW c, NEW op, NEW regs, NEW N, IsSeq(regs),
         CommandsIn(regs) = {HwName(r) : r \in N},
         \A r \in N : Op(r) = op /\ Word(c, r) = {}
  PROVE  Covers(c, Rk3588!Zeros(op, regs), N)
<1>1. DOMAIN regs = 1..Len(regs) /\ Len(regs) \in Nat
  BY DEF IsSeq
<1>2. PICK s : s = [i \in 1..Len(regs) |-> Rk3588!Cmd(op, regs[i], {})]
  OBVIOUS
<1>3. IsSeq(s)
  BY <1>1, <1>2 DEF IsSeq, CommandsIn
<1>4. \A r \in N : SentCmd(c, r) = Rk3588!Cmd(op, HwName(r), {})
  BY DEF SentCmd
<1>5. ASSUME NEW i \in 1..Len(regs) PROVE \E r \in N : s[i] = SentCmd(c, r)
  <2>1. PICK r \in N : regs[i] = HwName(r)
    BY <1>1 DEF CommandsIn
  <2> QED
    BY <1>2, <1>4, <2>1
<1>6. ASSUME NEW r \in N PROVE \E i \in 1..Len(regs) : s[i] = SentCmd(c, r)
  <2>1. HwName(r) \in CommandsIn(regs)
    OBVIOUS
  <2>2. PICK i \in 1..Len(regs) : regs[i] = HwName(r)
    BY <1>1, <2>1 DEF CommandsIn
  <2> QED
    BY <1>2, <1>4, <2>2
<1>7. CommandsIn(s) = {SentCmd(c, r) : r \in N}
  <2>1. DOMAIN s = 1..Len(regs)
    BY <1>2
  <2>2. {s[i] : i \in 1..Len(regs)} = {SentCmd(c, r) : r \in N}
    BY <1>5, <1>6
  <2> QED
    BY <2>1, <2>2, Zenon DEF CommandsIn
<1>8. Rk3588!Zeros(op, regs) = s
  <2>1. Rk3588!Zeros(op, regs) = [i \in 1..Len(regs) |-> Rk3588!Cmd(op, regs[i], {})]
    BY <1>1 DEF Rk3588!Zeros
  <2> QED
    BY <1>2, <2>1
<1> QED
  <2>1. Covers(c, s, N)
    BY <1>3, <1>7, Zenon DEF Covers, Lists
  <2> QED
    BY <1>8, <2>1

(* A command is sent by the macro of its unit.                             *)
LEMMA UnitSends ==
  \A c :
    /\ \A r \in CnaConfig \ {"CNA_DCOMP_AMOUNT0"} : Rk3588!Cna(r, Word(c, r)) = SentCmd(c, r)
    /\ \A r \in CoreConfig : Rk3588!Core(r, Word(c, r)) = SentCmd(c, r)
    /\ \A r \in DpuConfig \ {"DPU_DST_BASE_ADDR"} : Rk3588!Dpu(r, Word(c, r)) = SentCmd(c, r)
<1>1. /\ \A r \in CnaConfig \ {"CNA_DCOMP_AMOUNT0"} : HwName(r) = r
      /\ \A r \in CoreConfig : HwName(r) = r
      /\ \A r \in DpuConfig \ {"DPU_DST_BASE_ADDR"} : HwName(r) = r
  BY CnaNames, CoreNames, DpuNames DEF HwName
<1> QED
  BY <1>1, Ops DEF SentCmd, Rk3588!Cna, Rk3588!Core, Rk3588!Dpu

ConvSent == {"DPU_S_POINTER", "CNA_CONV_CON1", "CNA_CONV_CON2", "CNA_CONV_CON3"}

(* The convolution's registers.                                            *)
LEMMA ConvCommandsCover == \A c : Covers(c, Rk3588!ConvCommands(c), ConvSent)
<1> TAKE c
<1> DEFINE s1 == << Rk3588!Dpu("DPU_S_POINTER", Rk3588!Bits(14)),
                    Rk3588!Cna("CNA_CONV_CON1", Rk3588!F(Rk3588!Precision(c), 3, 7)
                                                  \cup Rk3588!F(Rk3588!Precision(c), 3, 4)),
                    Rk3588!Cna("CNA_CONV_CON2", Rk3588!F(Rk3588!FeatureGrains(c), 10, 4)),
                    Rk3588!Cna("CNA_CONV_CON3", Rk3588!F(1, 3, 3) \cup Rk3588!F(1, 3, 0)) >>
<1>1. Covers(c, s1, ConvSent)
  <2>1. Rk3588!Dpu("DPU_S_POINTER", Rk3588!Bits(14))
        = SentCmd(c, "DPU_S_POINTER")
    <3>1. Word(c, "DPU_S_POINTER") = Rk3588!Bits(14)
      BY WordIs, SentNames, WordsSent
    <3>2. "DPU_S_POINTER" \in DpuConfig \ {"DPU_DST_BASE_ADDR"}
      BY DpuNames
    <3> QED
      BY <3>1, <3>2, UnitSends, Zenon
  <2>2. Rk3588!Cna("CNA_CONV_CON1", Rk3588!F(Rk3588!Precision(c), 3, 7)
                                      \cup Rk3588!F(Rk3588!Precision(c), 3, 4))
        = SentCmd(c, "CNA_CONV_CON1")
    <3>1. Word(c, "CNA_CONV_CON1") = Rk3588!F(Rk3588!Precision(c), 3, 7)
                                       \cup Rk3588!F(Rk3588!Precision(c), 3, 4)
      BY WordIs, SentNames, WordsSent
    <3>2. "CNA_CONV_CON1" \in CnaConfig \ {"CNA_DCOMP_AMOUNT0"}
      BY CnaNames
    <3> QED
      BY <3>1, <3>2, UnitSends, Zenon
  <2>3. Rk3588!Cna("CNA_CONV_CON2", Rk3588!F(Rk3588!FeatureGrains(c), 10, 4))
        = SentCmd(c, "CNA_CONV_CON2")
    <3>1. Word(c, "CNA_CONV_CON2") = Rk3588!F(Rk3588!FeatureGrains(c), 10, 4)
      BY WordIs, SentNames, WordsSent
    <3>2. "CNA_CONV_CON2" \in CnaConfig \ {"CNA_DCOMP_AMOUNT0"}
      BY CnaNames
    <3> QED
      BY <3>1, <3>2, UnitSends, Zenon
  <2>4. Rk3588!Cna("CNA_CONV_CON3", Rk3588!F(1, 3, 3) \cup Rk3588!F(1, 3, 0))
        = SentCmd(c, "CNA_CONV_CON3")
    <3>1. Word(c, "CNA_CONV_CON3") = Rk3588!F(1, 3, 3) \cup Rk3588!F(1, 3, 0)
      BY WordIs, SentNames, WordsSent
    <3>2. "CNA_CONV_CON3" \in CnaConfig \ {"CNA_DCOMP_AMOUNT0"}
      BY CnaNames
    <3> QED
      BY <3>1, <3>2, UnitSends, Zenon
  <2> QED
    BY <2>1, <2>2, <2>3, <2>4, TuplesCover, Zenon DEF ConvSent
<1> HIDE DEF s1
<1>2. Rk3588!ConvCommands(c) = s1
  BY Zenon DEF Rk3588!ConvCommands, s1
<1> QED
  BY <1>1, <1>2, Zenon

DataSent == {"CNA_DATA_SIZE0", "CNA_DATA_SIZE1", "CNA_DATA_SIZE2", "CNA_DATA_SIZE3"}

(* The cube's registers.                                                   *)
LEMMA DataCommandsCover == \A c : Covers(c, Rk3588!DataCommands(c), DataSent)
<1> TAKE c
<1> DEFINE s1 == << Rk3588!Cna("CNA_DATA_SIZE0", Rk3588!F(1, 11, 16)
                                                   \cup Rk3588!F(c.m, 11, 0)),
                    Rk3588!Cna("CNA_DATA_SIZE1", Rk3588!DataSize1(c)),
                    Rk3588!Cna("CNA_DATA_SIZE2", Rk3588!F(1, 11, 0)),
                    Rk3588!Cna("CNA_DATA_SIZE3", Rk3588!F(c.m, 18, 0)) >>
<1>1. Covers(c, s1, DataSent)
  <2>1. Rk3588!Cna("CNA_DATA_SIZE0", Rk3588!F(1, 11, 16) \cup Rk3588!F(c.m, 11, 0))
        = SentCmd(c, "CNA_DATA_SIZE0")
    <3>1. Word(c, "CNA_DATA_SIZE0") = Rk3588!F(1, 11, 16) \cup Rk3588!F(c.m, 11, 0)
      BY WordIs, SentNames, WordsSent
    <3>2. "CNA_DATA_SIZE0" \in CnaConfig \ {"CNA_DCOMP_AMOUNT0"}
      BY CnaNames
    <3> QED
      BY <3>1, <3>2, UnitSends, Zenon
  <2>2. Rk3588!Cna("CNA_DATA_SIZE1", Rk3588!DataSize1(c))
        = SentCmd(c, "CNA_DATA_SIZE1")
    <3>1. Word(c, "CNA_DATA_SIZE1") = Rk3588!DataSize1(c)
      BY WordIs, SentNames, WordsSent
    <3>2. "CNA_DATA_SIZE1" \in CnaConfig \ {"CNA_DCOMP_AMOUNT0"}
      BY CnaNames
    <3> QED
      BY <3>1, <3>2, UnitSends, Zenon
  <2>3. Rk3588!Cna("CNA_DATA_SIZE2", Rk3588!F(1, 11, 0))
        = SentCmd(c, "CNA_DATA_SIZE2")
    <3>1. Word(c, "CNA_DATA_SIZE2") = Rk3588!F(1, 11, 0)
      BY WordIs, SentNames, WordsSent
    <3>2. "CNA_DATA_SIZE2" \in CnaConfig \ {"CNA_DCOMP_AMOUNT0"}
      BY CnaNames
    <3> QED
      BY <3>1, <3>2, UnitSends, Zenon
  <2>4. Rk3588!Cna("CNA_DATA_SIZE3", Rk3588!F(c.m, 18, 0))
        = SentCmd(c, "CNA_DATA_SIZE3")
    <3>1. Word(c, "CNA_DATA_SIZE3") = Rk3588!F(c.m, 18, 0)
      BY WordIs, SentNames, WordsSent
    <3>2. "CNA_DATA_SIZE3" \in CnaConfig \ {"CNA_DCOMP_AMOUNT0"}
      BY CnaNames
    <3> QED
      BY <3>1, <3>2, UnitSends, Zenon
  <2> QED
    BY <2>1, <2>2, <2>3, <2>4, TuplesCover, Zenon DEF DataSent
<1> HIDE DEF s1
<1>2. Rk3588!DataCommands(c) = s1
  BY Zenon DEF Rk3588!DataCommands, s1
<1> QED
  BY <1>1, <1>2, Zenon

WeightSent == {"CNA_WEIGHT_SIZE0", "CNA_WEIGHT_SIZE1", "CNA_WEIGHT_SIZE2"}

(* The kernels' registers.                                                 *)
LEMMA WeightCommandsCover == \A c : Covers(c, Rk3588!WeightCommands(c), WeightSent)
<1> TAKE c
<1> DEFINE s1 == << Rk3588!Cna("CNA_WEIGHT_SIZE0", Rk3588!Bits(Rk3588!WeightBytes(c))),
                    Rk3588!Cna("CNA_WEIGHT_SIZE1", Rk3588!F(Rk3588!KernelBytes(c), 19, 0)),
                    Rk3588!Cna("CNA_WEIGHT_SIZE2", Rk3588!F(1, 5, 24) \cup Rk3588!F(1, 5, 16)
                                                     \cup Rk3588!WeightKernels(c)) >>
<1>1. Covers(c, s1, WeightSent)
  <2>1. Rk3588!Cna("CNA_WEIGHT_SIZE0", Rk3588!Bits(Rk3588!WeightBytes(c)))
        = SentCmd(c, "CNA_WEIGHT_SIZE0")
    <3>1. Word(c, "CNA_WEIGHT_SIZE0") = Rk3588!Bits(Rk3588!WeightBytes(c))
      BY WordIs, SentNames, WordsSent
    <3>2. "CNA_WEIGHT_SIZE0" \in CnaConfig \ {"CNA_DCOMP_AMOUNT0"}
      BY CnaNames
    <3> QED
      BY <3>1, <3>2, UnitSends, Zenon
  <2>2. Rk3588!Cna("CNA_WEIGHT_SIZE1", Rk3588!F(Rk3588!KernelBytes(c), 19, 0))
        = SentCmd(c, "CNA_WEIGHT_SIZE1")
    <3>1. Word(c, "CNA_WEIGHT_SIZE1") = Rk3588!F(Rk3588!KernelBytes(c), 19, 0)
      BY WordIs, SentNames, WordsSent
    <3>2. "CNA_WEIGHT_SIZE1" \in CnaConfig \ {"CNA_DCOMP_AMOUNT0"}
      BY CnaNames
    <3> QED
      BY <3>1, <3>2, UnitSends, Zenon
  <2>3. Rk3588!Cna("CNA_WEIGHT_SIZE2", Rk3588!F(1, 5, 24) \cup Rk3588!F(1, 5, 16)
                                         \cup Rk3588!WeightKernels(c))
        = SentCmd(c, "CNA_WEIGHT_SIZE2")
    <3>1. Word(c, "CNA_WEIGHT_SIZE2") = Rk3588!F(1, 5, 24) \cup Rk3588!F(1, 5, 16)
                                          \cup Rk3588!WeightKernels(c)
      BY WordIs, SentNames, WordsSent
    <3>2. "CNA_WEIGHT_SIZE2" \in CnaConfig \ {"CNA_DCOMP_AMOUNT0"}
      BY CnaNames
    <3> QED
      BY <3>1, <3>2, UnitSends, Zenon
  <2> QED
    BY <2>1, <2>2, <2>3, TuplesCover, Zenon DEF WeightSent
<1> HIDE DEF s1
<1>2. Rk3588!WeightCommands(c) = s1
  BY Zenon DEF Rk3588!WeightCommands, s1
<1> QED
  BY <1>1, <1>2, Zenon

BufferSent == {"CNA_CBUF_CON0", "CNA_CBUF_CON1", "CNA_CVT_CON0", "CNA_CVT_CON1", "CNA_CVT_CON2",
               "CNA_CVT_CON3", "CNA_CVT_CON4"}

(* The buffer's registers and the conversion's.                            *)
LEMMA BufferCommandsCover == \A c : Covers(c, Rk3588!BufferCommands(c), BufferSent)
<1> TAKE c
<1> DEFINE s1 == << Rk3588!Cna("CNA_CBUF_CON0", Rk3588!F(Banks - Rk3588!FdBanks(c), 4, 4)
                                                  \cup Rk3588!F(Rk3588!FdBanks(c), 4, 0)),
                    Rk3588!Cna("CNA_CBUF_CON1", Rk3588!F(Rk3588!DataEntries(c), 13, 0)),
                    Rk3588!Cna("CNA_CVT_CON0", Rk3588!F(1, 1, 3) \cup Rk3588!F(1, 1, 1)
                                                 \cup Rk3588!F(1, 1, 0)),
                    Rk3588!Cna("CNA_CVT_CON1", Rk3588!F(1, 16, 16)),
                    Rk3588!Cna("CNA_CVT_CON2", Rk3588!F(1, 16, 16)),
                    Rk3588!Cna("CNA_CVT_CON3", Rk3588!F(1, 16, 16)),
                    Rk3588!Cna("CNA_CVT_CON4", Rk3588!F(1, 16, 16)) >>
<1>1. Covers(c, s1, BufferSent)
  <2>1. Rk3588!Cna("CNA_CBUF_CON0", Rk3588!F(Banks - Rk3588!FdBanks(c), 4, 4)
                                      \cup Rk3588!F(Rk3588!FdBanks(c), 4, 0))
        = SentCmd(c, "CNA_CBUF_CON0")
    <3>1. Word(c, "CNA_CBUF_CON0") = Rk3588!F(Banks - Rk3588!FdBanks(c), 4, 4)
                                       \cup Rk3588!F(Rk3588!FdBanks(c), 4, 0)
      BY WordIs, SentNames, WordsSent
    <3>2. "CNA_CBUF_CON0" \in CnaConfig \ {"CNA_DCOMP_AMOUNT0"}
      BY CnaNames
    <3> QED
      BY <3>1, <3>2, UnitSends, Zenon
  <2>2. Rk3588!Cna("CNA_CBUF_CON1", Rk3588!F(Rk3588!DataEntries(c), 13, 0))
        = SentCmd(c, "CNA_CBUF_CON1")
    <3>1. Word(c, "CNA_CBUF_CON1") = Rk3588!F(Rk3588!DataEntries(c), 13, 0)
      BY WordIs, SentNames, WordsSent
    <3>2. "CNA_CBUF_CON1" \in CnaConfig \ {"CNA_DCOMP_AMOUNT0"}
      BY CnaNames
    <3> QED
      BY <3>1, <3>2, UnitSends, Zenon
  <2>3. Rk3588!Cna("CNA_CVT_CON0", Rk3588!F(1, 1, 3) \cup Rk3588!F(1, 1, 1)
                                     \cup Rk3588!F(1, 1, 0))
        = SentCmd(c, "CNA_CVT_CON0")
    <3>1. Word(c, "CNA_CVT_CON0") = Rk3588!F(1, 1, 3) \cup Rk3588!F(1, 1, 1)
                                      \cup Rk3588!F(1, 1, 0)
      BY WordIs, SentNames, WordsSent
    <3>2. "CNA_CVT_CON0" \in CnaConfig \ {"CNA_DCOMP_AMOUNT0"}
      BY CnaNames
    <3> QED
      BY <3>1, <3>2, UnitSends, Zenon
  <2>4. Rk3588!Cna("CNA_CVT_CON1", Rk3588!F(1, 16, 16))
        = SentCmd(c, "CNA_CVT_CON1")
    <3>1. Word(c, "CNA_CVT_CON1") = Rk3588!F(1, 16, 16)
      BY WordIs, SentNames, WordsSent
    <3>2. "CNA_CVT_CON1" \in CnaConfig \ {"CNA_DCOMP_AMOUNT0"}
      BY CnaNames
    <3> QED
      BY <3>1, <3>2, UnitSends, Zenon
  <2>5. Rk3588!Cna("CNA_CVT_CON2", Rk3588!F(1, 16, 16))
        = SentCmd(c, "CNA_CVT_CON2")
    <3>1. Word(c, "CNA_CVT_CON2") = Rk3588!F(1, 16, 16)
      BY WordIs, SentNames, WordsSent
    <3>2. "CNA_CVT_CON2" \in CnaConfig \ {"CNA_DCOMP_AMOUNT0"}
      BY CnaNames
    <3> QED
      BY <3>1, <3>2, UnitSends, Zenon
  <2>6. Rk3588!Cna("CNA_CVT_CON3", Rk3588!F(1, 16, 16))
        = SentCmd(c, "CNA_CVT_CON3")
    <3>1. Word(c, "CNA_CVT_CON3") = Rk3588!F(1, 16, 16)
      BY WordIs, SentNames, WordsSent
    <3>2. "CNA_CVT_CON3" \in CnaConfig \ {"CNA_DCOMP_AMOUNT0"}
      BY CnaNames
    <3> QED
      BY <3>1, <3>2, UnitSends, Zenon
  <2>7. Rk3588!Cna("CNA_CVT_CON4", Rk3588!F(1, 16, 16))
        = SentCmd(c, "CNA_CVT_CON4")
    <3>1. Word(c, "CNA_CVT_CON4") = Rk3588!F(1, 16, 16)
      BY WordIs, SentNames, WordsSent
    <3>2. "CNA_CVT_CON4" \in CnaConfig \ {"CNA_DCOMP_AMOUNT0"}
      BY CnaNames
    <3> QED
      BY <3>1, <3>2, UnitSends, Zenon
  <2> QED
    BY <2>1, <2>2, <2>3, <2>4, <2>5, <2>6, <2>7, TuplesCover, Zenon DEF BufferSent
<1> HIDE DEF s1
<1>2. Rk3588!BufferCommands(c) = s1
  BY Zenon DEF Rk3588!BufferCommands, s1
<1> QED
  BY <1>1, <1>2, Zenon

InputSent == {"CNA_FC_CON0", "CNA_FC_CON1", "CNA_PAD_CON0", "CNA_FEATURE_DATA_ADDR",
              "CNA_FC_CON2", "CNA_DMA_CON0", "CNA_DMA_CON1", "CNA_DMA_CON2", "CNA_FC_DATA_SIZE0",
              "CNA_FC_DATA_SIZE1"}

(* The registers that fetch the input.                                     *)
LEMMA InputCommandsCover == \A c : Covers(c, Rk3588!InputCommands(c), InputSent)
<1> TAKE c
<1> DEFINE s1 == Rk3588!Zeros(Rk3588!OP_REG_CNA,
               <<"CNA_FC_CON0", "CNA_FC_CON1", "CNA_PAD_CON0">>)
<1> DEFINE N1 == {"CNA_FC_CON0", "CNA_FC_CON1", "CNA_PAD_CON0"}
<1> DEFINE s2 == << Rk3588!Cna("CNA_FEATURE_DATA_ADDR", InputDma) >>
<1> DEFINE N2 == {"CNA_FEATURE_DATA_ADDR"}
<1> DEFINE s3 == << Rk3588!Cna("CNA_FC_CON2", {}) >>
<1> DEFINE N3 == {"CNA_FC_CON2"}
<1> DEFINE s4 == << Rk3588!Cna("CNA_DMA_CON0", Rk3588!F(15, 4, 16) \cup Rk3588!F(15, 4, 0)),
                    Rk3588!Cna("CNA_DMA_CON1", Rk3588!F(Rk3588!LineStride, 28, 0)),
                    Rk3588!Cna("CNA_DMA_CON2", Rk3588!F(Rk3588!SurfStride(c), 28, 0)),
                    Rk3588!Cna("CNA_FC_DATA_SIZE0", Rk3588!F(1, 11, 16)
                                                      \cup Rk3588!F(c.m, 11, 0)),
                    Rk3588!Cna("CNA_FC_DATA_SIZE1", Rk3588!F(c.k, 16, 0)) >>
<1> DEFINE N4 == {"CNA_DMA_CON0", "CNA_DMA_CON1", "CNA_DMA_CON2", "CNA_FC_DATA_SIZE0",
                  "CNA_FC_DATA_SIZE1"}
<1>1. Covers(c, s1, N1)
  <2> DEFINE regs == <<"CNA_FC_CON0", "CNA_FC_CON1", "CNA_PAD_CON0">>
  <2>1. Lists(regs,
          {"CNA_FC_CON0", "CNA_FC_CON1", "CNA_PAD_CON0"})
    BY TuplesList, Zenon
  <2>2. {HwName(r) : r \in N1} =
          {"CNA_FC_CON0", "CNA_FC_CON1", "CNA_PAD_CON0"}
    BY DEF HwName
  <2>3. \A r \in N1 : Op(r) = Rk3588!OP_REG_CNA
    BY Ops, CnaNames
  <2>4. \A r \in N1 : Word(c, r) = {}
    BY WordsClear
  <2> HIDE DEF regs, N1
  <2>5. Covers(c, Rk3588!Zeros(Rk3588!OP_REG_CNA, regs), N1)
    BY <2>1, <2>2, <2>3, <2>4, ZerosCover DEF Lists
  <2> QED
    BY <2>5, Zenon DEF regs
<1>2. Covers(c, s2, N2)
  <2>1. Rk3588!Cna("CNA_FEATURE_DATA_ADDR", InputDma)
        = SentCmd(c, "CNA_FEATURE_DATA_ADDR")
    <3>1. Word(c, "CNA_FEATURE_DATA_ADDR") = InputDma
      BY WordIs, SentNames, WordsSent
    <3>2. "CNA_FEATURE_DATA_ADDR" \in CnaConfig \ {"CNA_DCOMP_AMOUNT0"}
      BY CnaNames
    <3> QED
      BY <3>1, <3>2, UnitSends, Zenon
  <2> QED
    BY <2>1, TuplesCover, Zenon
<1>3. Covers(c, s3, N3)
  <2>1. Rk3588!Cna("CNA_FC_CON2", {})
        = SentCmd(c, "CNA_FC_CON2")
    <3>1. Word(c, "CNA_FC_CON2") = {}
      BY WordsClear
    <3>2. "CNA_FC_CON2" \in CnaConfig \ {"CNA_DCOMP_AMOUNT0"}
      BY CnaNames
    <3> QED
      BY <3>1, <3>2, UnitSends, Zenon
  <2> QED
    BY <2>1, TuplesCover, Zenon
<1>4. Covers(c, s4, N4)
  <2>1. Rk3588!Cna("CNA_DMA_CON0", Rk3588!F(15, 4, 16) \cup Rk3588!F(15, 4, 0))
        = SentCmd(c, "CNA_DMA_CON0")
    <3>1. Word(c, "CNA_DMA_CON0") = Rk3588!F(15, 4, 16) \cup Rk3588!F(15, 4, 0)
      BY WordIs, SentNames, WordsSent
    <3>2. "CNA_DMA_CON0" \in CnaConfig \ {"CNA_DCOMP_AMOUNT0"}
      BY CnaNames
    <3> QED
      BY <3>1, <3>2, UnitSends, Zenon
  <2>2. Rk3588!Cna("CNA_DMA_CON1", Rk3588!F(Rk3588!LineStride, 28, 0))
        = SentCmd(c, "CNA_DMA_CON1")
    <3>1. Word(c, "CNA_DMA_CON1") = Rk3588!F(Rk3588!LineStride, 28, 0)
      BY WordIs, SentNames, WordsSent
    <3>2. "CNA_DMA_CON1" \in CnaConfig \ {"CNA_DCOMP_AMOUNT0"}
      BY CnaNames
    <3> QED
      BY <3>1, <3>2, UnitSends, Zenon
  <2>3. Rk3588!Cna("CNA_DMA_CON2", Rk3588!F(Rk3588!SurfStride(c), 28, 0))
        = SentCmd(c, "CNA_DMA_CON2")
    <3>1. Word(c, "CNA_DMA_CON2") = Rk3588!F(Rk3588!SurfStride(c), 28, 0)
      BY WordIs, SentNames, WordsSent
    <3>2. "CNA_DMA_CON2" \in CnaConfig \ {"CNA_DCOMP_AMOUNT0"}
      BY CnaNames
    <3> QED
      BY <3>1, <3>2, UnitSends, Zenon
  <2>4. Rk3588!Cna("CNA_FC_DATA_SIZE0", Rk3588!F(1, 11, 16) \cup Rk3588!F(c.m, 11, 0))
        = SentCmd(c, "CNA_FC_DATA_SIZE0")
    <3>1. Word(c, "CNA_FC_DATA_SIZE0") = Rk3588!F(1, 11, 16) \cup Rk3588!F(c.m, 11, 0)
      BY WordIs, SentNames, WordsSent
    <3>2. "CNA_FC_DATA_SIZE0" \in CnaConfig \ {"CNA_DCOMP_AMOUNT0"}
      BY CnaNames
    <3> QED
      BY <3>1, <3>2, UnitSends, Zenon
  <2>5. Rk3588!Cna("CNA_FC_DATA_SIZE1", Rk3588!F(c.k, 16, 0))
        = SentCmd(c, "CNA_FC_DATA_SIZE1")
    <3>1. Word(c, "CNA_FC_DATA_SIZE1") = Rk3588!F(c.k, 16, 0)
      BY WordIs, SentNames, WordsSent
    <3>2. "CNA_FC_DATA_SIZE1" \in CnaConfig \ {"CNA_DCOMP_AMOUNT0"}
      BY CnaNames
    <3> QED
      BY <3>1, <3>2, UnitSends, Zenon
  <2> QED
    BY <2>1, <2>2, <2>3, <2>4, <2>5, TuplesCover, Zenon
<1> HIDE DEF s1, s2, s3, s4, N1, N2, N3, N4
<1>5. Rk3588!InputCommands(c) = s1 \o s2 \o s3 \o s4
  BY Zenon DEF Rk3588!InputCommands, Rk3588!FcCon2, s1, s2, s3, s4
<1>6. Covers(c, s1 \o s2,
               N1 \cup N2)
  BY <1>1, <1>2, CoversJoin, Zenon
<1>7. Covers(c, s1 \o s2 \o s3,
               N1 \cup N2 \cup N3)
  BY <1>6, <1>3, CoversJoin, Zenon
<1>8. Covers(c, s1 \o s2 \o s3 \o s4,
               N1 \cup N2 \cup N3 \cup N4)
  BY <1>7, <1>4, CoversJoin, Zenon
<1>9. InputSent = N1 \cup N2 \cup N3 \cup N4
  BY DEF InputSent, N1, N2, N3, N4
<1> QED
  BY <1>5, <1>8, <1>9, Zenon

WeightFetchSent == {"CNA_DCOMP_CTRL", "CNA_DCOMP_REGNUM", "CNA_DCOMP_ADDR0", "CNA_DCOMP_AMOUNT0",
                    "CNA_DCOMP_AMOUNT1", "CNA_DCOMP_AMOUNT2", "CNA_DCOMP_AMOUNT3",
                    "CNA_DCOMP_AMOUNT4", "CNA_DCOMP_AMOUNT5", "CNA_DCOMP_AMOUNT6",
                    "CNA_DCOMP_AMOUNT7", "CNA_DCOMP_AMOUNT8", "CNA_DCOMP_AMOUNT9",
                    "CNA_DCOMP_AMOUNT10", "CNA_DCOMP_AMOUNT11", "CNA_DCOMP_AMOUNT12",
                    "CNA_DCOMP_AMOUNT13", "CNA_DCOMP_AMOUNT14", "CNA_DCOMP_AMOUNT15",
                    "CNA_CVT_CON5", "CNA_PAD_CON1"}

(* The registers that fetch the weights.                                   *)
LEMMA WeightFetchCommandsCover == \A c : Covers(c, Rk3588!WeightFetchCommands, WeightFetchSent)
<1> TAKE c
<1> DEFINE s1 == Rk3588!Zeros(Rk3588!OP_REG_CNA,
               <<"CNA_DCOMP_CTRL", "CNA_DCOMP_REGNUM">>)
<1> DEFINE N1 == {"CNA_DCOMP_CTRL", "CNA_DCOMP_REGNUM"}
<1> DEFINE s2 == << Rk3588!Cna("CNA_DCOMP_ADDR0", WeightsDma) >>
<1> DEFINE N2 == {"CNA_DCOMP_ADDR0"}
<1> DEFINE s3 == Rk3588!Zeros(Rk3588!OP_REG_CNA,
               <<"CNA_DCOMP_AMOUNT", "CNA_DCOMP_AMOUNT1", "CNA_DCOMP_AMOUNT2",
                 "CNA_DCOMP_AMOUNT3", "CNA_DCOMP_AMOUNT4", "CNA_DCOMP_AMOUNT5",
                 "CNA_DCOMP_AMOUNT6", "CNA_DCOMP_AMOUNT7", "CNA_DCOMP_AMOUNT8",
                 "CNA_DCOMP_AMOUNT9", "CNA_DCOMP_AMOUNT10", "CNA_DCOMP_AMOUNT11",
                 "CNA_DCOMP_AMOUNT12", "CNA_DCOMP_AMOUNT13", "CNA_DCOMP_AMOUNT14",
                 "CNA_DCOMP_AMOUNT15", "CNA_CVT_CON5", "CNA_PAD_CON1">>)
<1> DEFINE N3 == {"CNA_DCOMP_AMOUNT0", "CNA_DCOMP_AMOUNT1", "CNA_DCOMP_AMOUNT2",
                  "CNA_DCOMP_AMOUNT3", "CNA_DCOMP_AMOUNT4", "CNA_DCOMP_AMOUNT5",
                  "CNA_DCOMP_AMOUNT6", "CNA_DCOMP_AMOUNT7", "CNA_DCOMP_AMOUNT8",
                  "CNA_DCOMP_AMOUNT9", "CNA_DCOMP_AMOUNT10", "CNA_DCOMP_AMOUNT11",
                  "CNA_DCOMP_AMOUNT12", "CNA_DCOMP_AMOUNT13", "CNA_DCOMP_AMOUNT14",
                  "CNA_DCOMP_AMOUNT15", "CNA_CVT_CON5", "CNA_PAD_CON1"}
<1>1. Covers(c, s1, N1)
  <2> DEFINE regs == <<"CNA_DCOMP_CTRL", "CNA_DCOMP_REGNUM">>
  <2>1. Lists(regs,
          {"CNA_DCOMP_CTRL", "CNA_DCOMP_REGNUM"})
    BY TuplesList, Zenon
  <2>2. {HwName(r) : r \in N1} =
          {"CNA_DCOMP_CTRL", "CNA_DCOMP_REGNUM"}
    BY DEF HwName
  <2>3. \A r \in N1 : Op(r) = Rk3588!OP_REG_CNA
    BY Ops, CnaNames
  <2>4. \A r \in N1 : Word(c, r) = {}
    BY WordsClear
  <2> HIDE DEF regs, N1
  <2>5. Covers(c, Rk3588!Zeros(Rk3588!OP_REG_CNA, regs), N1)
    BY <2>1, <2>2, <2>3, <2>4, ZerosCover DEF Lists
  <2> QED
    BY <2>5, Zenon DEF regs
<1>2. Covers(c, s2, N2)
  <2>1. Rk3588!Cna("CNA_DCOMP_ADDR0", WeightsDma)
        = SentCmd(c, "CNA_DCOMP_ADDR0")
    <3>1. Word(c, "CNA_DCOMP_ADDR0") = WeightsDma
      BY WordIs, SentNames, WordsSent
    <3>2. "CNA_DCOMP_ADDR0" \in CnaConfig \ {"CNA_DCOMP_AMOUNT0"}
      BY CnaNames
    <3> QED
      BY <3>1, <3>2, UnitSends, Zenon
  <2> QED
    BY <2>1, TuplesCover, Zenon
<1>3. Covers(c, s3, N3)
  <2> DEFINE regs == <<"CNA_DCOMP_AMOUNT", "CNA_DCOMP_AMOUNT1", "CNA_DCOMP_AMOUNT2",
                       "CNA_DCOMP_AMOUNT3", "CNA_DCOMP_AMOUNT4", "CNA_DCOMP_AMOUNT5",
                       "CNA_DCOMP_AMOUNT6", "CNA_DCOMP_AMOUNT7", "CNA_DCOMP_AMOUNT8",
                       "CNA_DCOMP_AMOUNT9", "CNA_DCOMP_AMOUNT10", "CNA_DCOMP_AMOUNT11",
                       "CNA_DCOMP_AMOUNT12", "CNA_DCOMP_AMOUNT13", "CNA_DCOMP_AMOUNT14",
                       "CNA_DCOMP_AMOUNT15", "CNA_CVT_CON5", "CNA_PAD_CON1">>
  <2>1. Lists(regs,
          {"CNA_DCOMP_AMOUNT", "CNA_DCOMP_AMOUNT1", "CNA_DCOMP_AMOUNT2", "CNA_DCOMP_AMOUNT3",
           "CNA_DCOMP_AMOUNT4", "CNA_DCOMP_AMOUNT5", "CNA_DCOMP_AMOUNT6", "CNA_DCOMP_AMOUNT7",
           "CNA_DCOMP_AMOUNT8", "CNA_DCOMP_AMOUNT9", "CNA_DCOMP_AMOUNT10", "CNA_DCOMP_AMOUNT11",
           "CNA_DCOMP_AMOUNT12", "CNA_DCOMP_AMOUNT13", "CNA_DCOMP_AMOUNT14", "CNA_DCOMP_AMOUNT15",
           "CNA_CVT_CON5", "CNA_PAD_CON1"})
    BY TuplesList, ZenonT(60)
  <2>2. {HwName(r) : r \in N3} =
          {"CNA_DCOMP_AMOUNT", "CNA_DCOMP_AMOUNT1", "CNA_DCOMP_AMOUNT2", "CNA_DCOMP_AMOUNT3",
           "CNA_DCOMP_AMOUNT4", "CNA_DCOMP_AMOUNT5", "CNA_DCOMP_AMOUNT6", "CNA_DCOMP_AMOUNT7",
           "CNA_DCOMP_AMOUNT8", "CNA_DCOMP_AMOUNT9", "CNA_DCOMP_AMOUNT10", "CNA_DCOMP_AMOUNT11",
           "CNA_DCOMP_AMOUNT12", "CNA_DCOMP_AMOUNT13", "CNA_DCOMP_AMOUNT14", "CNA_DCOMP_AMOUNT15",
           "CNA_CVT_CON5", "CNA_PAD_CON1"}
    BY DEF HwName
  <2>3. \A r \in N3 : Op(r) = Rk3588!OP_REG_CNA
    BY Ops, CnaNames
  <2>4. \A r \in N3 : Word(c, r) = {}
    BY WordsClear
  <2> HIDE DEF regs, N3
  <2>5. Covers(c, Rk3588!Zeros(Rk3588!OP_REG_CNA, regs), N3)
    BY <2>1, <2>2, <2>3, <2>4, ZerosCover DEF Lists
  <2> QED
    BY <2>5, Zenon DEF regs
<1> HIDE DEF s1, s2, s3, N1, N2, N3
<1>4. Rk3588!WeightFetchCommands = s1 \o s2 \o s3
  BY Zenon DEF Rk3588!WeightFetchCommands, s1, s2, s3
<1>5. Covers(c, s1 \o s2,
               N1 \cup N2)
  BY <1>1, <1>2, CoversJoin, Zenon
<1>6. Covers(c, s1 \o s2 \o s3,
               N1 \cup N2 \cup N3)
  BY <1>5, <1>3, CoversJoin, Zenon
<1>7. WeightFetchSent = N1 \cup N2 \cup N3
  BY DEF WeightFetchSent, N1, N2, N3
<1> QED
  BY <1>4, <1>6, <1>7, Zenon

CoreSent == {"CORE_MISC_CFG", "CORE_DATAOUT_SIZE_0", "CORE_DATAOUT_SIZE_1", "CORE_CLIP_TRUNCATE",
             "CORE_3030"}

(* The CORE's registers.                                                   *)
LEMMA CoreCommandsCover == \A c : Covers(c, Rk3588!CoreCommands(c), CoreSent)
<1> TAKE c
<1> DEFINE s1 == << Rk3588!Core("CORE_MISC_CFG", Rk3588!F(Rk3588!Precision(c), 3, 8)
                                                   \cup Rk3588!F(Rk3588!QdEn(c), 1, 0)),
                    Rk3588!Core("CORE_DATAOUT_SIZE_0", Rk3588!F(Rk3588!LastRow(c), 16, 16)),
                    Rk3588!Core("CORE_DATAOUT_SIZE_1", Rk3588!F(Rk3588!LastKernel(c), 16, 0)) >>
<1> DEFINE N1 == {"CORE_MISC_CFG", "CORE_DATAOUT_SIZE_0", "CORE_DATAOUT_SIZE_1"}
<1> DEFINE s2 == Rk3588!Zeros(Rk3588!OP_REG_CORE,
               <<"CORE_CLIP_TRUNCATE", "CORE_3030">>)
<1> DEFINE N2 == {"CORE_CLIP_TRUNCATE", "CORE_3030"}
<1>1. Covers(c, s1, N1)
  <2>1. Rk3588!Core("CORE_MISC_CFG", Rk3588!F(Rk3588!Precision(c), 3, 8)
                                       \cup Rk3588!F(Rk3588!QdEn(c), 1, 0))
        = SentCmd(c, "CORE_MISC_CFG")
    <3>1. Word(c, "CORE_MISC_CFG") = Rk3588!F(Rk3588!Precision(c), 3, 8)
                                       \cup Rk3588!F(Rk3588!QdEn(c), 1, 0)
      BY WordIs, SentNames, WordsSent
    <3>2. "CORE_MISC_CFG" \in CoreConfig
      BY CoreNames
    <3> QED
      BY <3>1, <3>2, UnitSends, Zenon
  <2>2. Rk3588!Core("CORE_DATAOUT_SIZE_0", Rk3588!F(Rk3588!LastRow(c), 16, 16))
        = SentCmd(c, "CORE_DATAOUT_SIZE_0")
    <3>1. Word(c, "CORE_DATAOUT_SIZE_0") = Rk3588!F(Rk3588!LastRow(c), 16, 16)
      BY WordIs, SentNames, WordsSent
    <3>2. "CORE_DATAOUT_SIZE_0" \in CoreConfig
      BY CoreNames
    <3> QED
      BY <3>1, <3>2, UnitSends, Zenon
  <2>3. Rk3588!Core("CORE_DATAOUT_SIZE_1", Rk3588!F(Rk3588!LastKernel(c), 16, 0))
        = SentCmd(c, "CORE_DATAOUT_SIZE_1")
    <3>1. Word(c, "CORE_DATAOUT_SIZE_1") = Rk3588!F(Rk3588!LastKernel(c), 16, 0)
      BY WordIs, SentNames, WordsSent
    <3>2. "CORE_DATAOUT_SIZE_1" \in CoreConfig
      BY CoreNames
    <3> QED
      BY <3>1, <3>2, UnitSends, Zenon
  <2> QED
    BY <2>1, <2>2, <2>3, TuplesCover, Zenon
<1>2. Covers(c, s2, N2)
  <2> DEFINE regs == <<"CORE_CLIP_TRUNCATE", "CORE_3030">>
  <2>1. Lists(regs,
          {"CORE_CLIP_TRUNCATE", "CORE_3030"})
    BY TuplesList, Zenon
  <2>2. {HwName(r) : r \in N2} =
          {"CORE_CLIP_TRUNCATE", "CORE_3030"}
    BY DEF HwName
  <2>3. \A r \in N2 : Op(r) = Rk3588!OP_REG_CORE
    BY Ops, CoreNames
  <2>4. \A r \in N2 : Word(c, r) = {}
    BY WordsClear
  <2> HIDE DEF regs, N2
  <2>5. Covers(c, Rk3588!Zeros(Rk3588!OP_REG_CORE, regs), N2)
    BY <2>1, <2>2, <2>3, <2>4, ZerosCover DEF Lists
  <2> QED
    BY <2>5, Zenon DEF regs
<1> HIDE DEF s1, s2, N1, N2
<1>3. Rk3588!CoreCommands(c) = s1 \o s2
  BY Zenon DEF Rk3588!CoreCommands, s1, s2
<1>4. Covers(c, s1 \o s2,
               N1 \cup N2)
  BY <1>1, <1>2, CoversJoin, Zenon
<1>5. CoreSent = N1 \cup N2
  BY DEF CoreSent, N1, N2
<1> QED
  BY <1>3, <1>4, <1>5, Zenon

OutputSent == {"DPU_FEATURE_MODE_CFG", "DPU_DATA_FORMAT", "DPU_OFFSET_PEND", "DPU_DST_BASE_ADDR",
               "DPU_DST_SURF_STRIDE", "DPU_DATA_CUBE_WIDTH", "DPU_DATA_CUBE_HEIGHT",
               "DPU_DATA_CUBE_NOTCH_ADDR", "DPU_DATA_CUBE_CHANNEL"}

(* The DPU's output.                                                       *)
LEMMA OutputCommandsCover == \A c : Covers(c, Rk3588!OutputCommands(c), OutputSent)
<1> TAKE c
<1> DEFINE s1 == << Rk3588!Dpu("DPU_FEATURE_MODE_CFG", Rk3588!F(15, 4, 5)
                                                         \cup Rk3588!F(2, 2, 1)),
                    Rk3588!Dpu("DPU_DATA_FORMAT", Rk3588!F(Rk3588!OutPrecision(c), 3, 29)
                                                    \cup Rk3588!F(Rk3588!Precision(c), 3, 26)
                                                    \cup Rk3588!F(Rk3588!Precision(c), 3, 0)),
                    Rk3588!Dpu("DPU_OFFSET_PEND", {}),
                    Rk3588!Dpu("DPU_DST_BASE_ADD", OutputDma),
                    Rk3588!Dpu("DPU_DST_SURF_STRIDE", Rk3588!F(c.m, 28, 4)),
                    Rk3588!Dpu("DPU_DATA_CUBE_WIDTH", {}),
                    Rk3588!Dpu("DPU_DATA_CUBE_HEIGHT", Rk3588!F(Rk3588!LastRow(c), 13, 0)),
                    Rk3588!Dpu("DPU_DATA_CUBE_NOTCH_ADDR", {}),
                    Rk3588!Dpu("DPU_DATA_CUBE_CHANNEL",
                               Rk3588!F(Rk3588!LastKernel(c), 13, 16)
                                 \cup Rk3588!F(Rk3588!LastKernel(c), 13, 0)) >>
<1>1. Covers(c, s1, OutputSent)
  <2>1. Rk3588!Dpu("DPU_FEATURE_MODE_CFG", Rk3588!F(15, 4, 5) \cup Rk3588!F(2, 2, 1))
        = SentCmd(c, "DPU_FEATURE_MODE_CFG")
    <3>1. Word(c, "DPU_FEATURE_MODE_CFG") = Rk3588!F(15, 4, 5) \cup Rk3588!F(2, 2, 1)
      BY WordIs, SentNames, WordsSent
    <3>2. "DPU_FEATURE_MODE_CFG" \in DpuConfig \ {"DPU_DST_BASE_ADDR"}
      BY DpuNames
    <3> QED
      BY <3>1, <3>2, UnitSends, Zenon
  <2>2. Rk3588!Dpu("DPU_DATA_FORMAT", Rk3588!F(Rk3588!OutPrecision(c), 3, 29)
                                        \cup Rk3588!F(Rk3588!Precision(c), 3, 26)
                                        \cup Rk3588!F(Rk3588!Precision(c), 3, 0))
        = SentCmd(c, "DPU_DATA_FORMAT")
    <3>1. Word(c, "DPU_DATA_FORMAT") = Rk3588!F(Rk3588!OutPrecision(c), 3, 29)
                                         \cup Rk3588!F(Rk3588!Precision(c), 3, 26)
                                         \cup Rk3588!F(Rk3588!Precision(c), 3, 0)
      BY WordIs, SentNames, WordsSent
    <3>2. "DPU_DATA_FORMAT" \in DpuConfig \ {"DPU_DST_BASE_ADDR"}
      BY DpuNames
    <3> QED
      BY <3>1, <3>2, UnitSends, Zenon
  <2>3. Rk3588!Dpu("DPU_OFFSET_PEND", {})
        = SentCmd(c, "DPU_OFFSET_PEND")
    <3>1. Word(c, "DPU_OFFSET_PEND") = {}
      BY WordsClear
    <3>2. "DPU_OFFSET_PEND" \in DpuConfig \ {"DPU_DST_BASE_ADDR"}
      BY DpuNames
    <3> QED
      BY <3>1, <3>2, UnitSends, Zenon
  <2>4. Rk3588!Dpu("DPU_DST_BASE_ADD", OutputDma)
        = SentCmd(c, "DPU_DST_BASE_ADDR")
    <3>1. Word(c, "DPU_DST_BASE_ADDR") = OutputDma
      BY WordIs, SentNames, WordsSent
    <3>2. /\ Op("DPU_DST_BASE_ADDR") = Rk3588!OP_REG_DPU 
          /\ HwName("DPU_DST_BASE_ADDR") = "DPU_DST_BASE_ADD"
      BY Ops, DpuNames DEF HwName
    <3> QED
      BY <3>1, <3>2, Zenon DEF SentCmd, Rk3588!Dpu
  <2>5. Rk3588!Dpu("DPU_DST_SURF_STRIDE", Rk3588!F(c.m, 28, 4))
        = SentCmd(c, "DPU_DST_SURF_STRIDE")
    <3>1. Word(c, "DPU_DST_SURF_STRIDE") = Rk3588!F(c.m, 28, 4)
      BY WordIs, SentNames, WordsSent
    <3>2. "DPU_DST_SURF_STRIDE" \in DpuConfig \ {"DPU_DST_BASE_ADDR"}
      BY DpuNames
    <3> QED
      BY <3>1, <3>2, UnitSends, Zenon
  <2>6. Rk3588!Dpu("DPU_DATA_CUBE_WIDTH", {})
        = SentCmd(c, "DPU_DATA_CUBE_WIDTH")
    <3>1. Word(c, "DPU_DATA_CUBE_WIDTH") = {}
      BY WordsClear
    <3>2. "DPU_DATA_CUBE_WIDTH" \in DpuConfig \ {"DPU_DST_BASE_ADDR"}
      BY DpuNames
    <3> QED
      BY <3>1, <3>2, UnitSends, Zenon
  <2>7. Rk3588!Dpu("DPU_DATA_CUBE_HEIGHT", Rk3588!F(Rk3588!LastRow(c), 13, 0))
        = SentCmd(c, "DPU_DATA_CUBE_HEIGHT")
    <3>1. Word(c, "DPU_DATA_CUBE_HEIGHT") = Rk3588!F(Rk3588!LastRow(c), 13, 0)
      BY WordIs, SentNames, WordsSent
    <3>2. "DPU_DATA_CUBE_HEIGHT" \in DpuConfig \ {"DPU_DST_BASE_ADDR"}
      BY DpuNames
    <3> QED
      BY <3>1, <3>2, UnitSends, Zenon
  <2>8. Rk3588!Dpu("DPU_DATA_CUBE_NOTCH_ADDR", {})
        = SentCmd(c, "DPU_DATA_CUBE_NOTCH_ADDR")
    <3>1. Word(c, "DPU_DATA_CUBE_NOTCH_ADDR") = {}
      BY WordsClear
    <3>2. "DPU_DATA_CUBE_NOTCH_ADDR" \in DpuConfig \ {"DPU_DST_BASE_ADDR"}
      BY DpuNames
    <3> QED
      BY <3>1, <3>2, UnitSends, Zenon
  <2>9. Rk3588!Dpu("DPU_DATA_CUBE_CHANNEL", Rk3588!F(Rk3588!LastKernel(c), 13, 16)
                                              \cup Rk3588!F(Rk3588!LastKernel(c), 13, 0))
        = SentCmd(c, "DPU_DATA_CUBE_CHANNEL")
    <3>1. Word(c, "DPU_DATA_CUBE_CHANNEL") = Rk3588!F(Rk3588!LastKernel(c), 13, 16)
                                               \cup Rk3588!F(Rk3588!LastKernel(c), 13, 0)
      BY WordIs, SentNames, WordsSent
    <3>2. "DPU_DATA_CUBE_CHANNEL" \in DpuConfig \ {"DPU_DST_BASE_ADDR"}
      BY DpuNames
    <3> QED
      BY <3>1, <3>2, UnitSends, Zenon
  <2> QED
    BY <2>1, <2>2, <2>3, <2>4, <2>5, <2>6, <2>7, <2>8, <2>9, TuplesCover, Zenon DEF OutputSent
<1> HIDE DEF s1
<1>2. Rk3588!OutputCommands(c) = s1
  BY Zenon DEF Rk3588!OutputCommands, s1
<1> QED
  BY <1>1, <1>2, Zenon

BsSent == {"DPU_BS_CFG", "DPU_BS_ALU_CFG", "DPU_BS_MUL_CFG", "DPU_BS_RELUX_CMP_VALUE",
           "DPU_BS_OW_CFG", "DPU_BS_OW_OP", "DPU_WDMA_SIZE_0", "DPU_WDMA_SIZE_1"}

(* The DPU's first stage.                                                  *)
LEMMA BsCommandsCover == \A c : Covers(c, Rk3588!BsCommands(c), BsSent)
<1> TAKE c
<1> DEFINE s1 == << Rk3588!Dpu("DPU_BS_CFG", Rk3588!Bypass) >>
<1> DEFINE N1 == {"DPU_BS_CFG"}
<1> DEFINE s2 == Rk3588!Zeros(Rk3588!OP_REG_DPU,
               <<"DPU_BS_ALU_CFG", "DPU_BS_MUL_CFG", "DPU_BS_RELUX_CMP_VALUE">>)
<1> DEFINE N2 == {"DPU_BS_ALU_CFG", "DPU_BS_MUL_CFG", "DPU_BS_RELUX_CMP_VALUE"}
<1> DEFINE s3 == << Rk3588!Dpu("DPU_BS_OW_CFG", Rk3588!F(Rk3588!SizeE(c), 3, 8)
                                                  \cup Rk3588!F(Rk3588!SizeE(c), 3, 5)
                                                  \cup Rk3588!F(Rk3588!SizeE(c), 3, 2)
                                                  \cup {1}),
                    Rk3588!Dpu("DPU_BS_OW_OP", {}),
                    Rk3588!Dpu("DPU_WDMA_SIZE_0", Rk3588!F(Rk3588!LastKernel(c), 13, 0)),
                    Rk3588!Dpu("DPU_WDMA_SIZE_1", Rk3588!F(Rk3588!LastRow(c), 13, 16)) >>
<1> DEFINE N3 == {"DPU_BS_OW_CFG", "DPU_BS_OW_OP", "DPU_WDMA_SIZE_0", "DPU_WDMA_SIZE_1"}
<1>1. Covers(c, s1, N1)
  <2>1. Rk3588!Dpu("DPU_BS_CFG", Rk3588!Bypass)
        = SentCmd(c, "DPU_BS_CFG")
    <3>1. Word(c, "DPU_BS_CFG") = Rk3588!Bypass
      BY WordIs, SentNames, WordsSent
    <3>2. "DPU_BS_CFG" \in DpuConfig \ {"DPU_DST_BASE_ADDR"}
      BY DpuNames
    <3> QED
      BY <3>1, <3>2, UnitSends, Zenon
  <2> QED
    BY <2>1, TuplesCover, Zenon
<1>2. Covers(c, s2, N2)
  <2> DEFINE regs == <<"DPU_BS_ALU_CFG", "DPU_BS_MUL_CFG", "DPU_BS_RELUX_CMP_VALUE">>
  <2>1. Lists(regs,
          {"DPU_BS_ALU_CFG", "DPU_BS_MUL_CFG", "DPU_BS_RELUX_CMP_VALUE"})
    BY TuplesList, Zenon
  <2>2. {HwName(r) : r \in N2} =
          {"DPU_BS_ALU_CFG", "DPU_BS_MUL_CFG", "DPU_BS_RELUX_CMP_VALUE"}
    BY DEF HwName
  <2>3. \A r \in N2 : Op(r) = Rk3588!OP_REG_DPU
    BY Ops, DpuNames
  <2>4. \A r \in N2 : Word(c, r) = {}
    BY WordsClear
  <2> HIDE DEF regs, N2
  <2>5. Covers(c, Rk3588!Zeros(Rk3588!OP_REG_DPU, regs), N2)
    BY <2>1, <2>2, <2>3, <2>4, ZerosCover DEF Lists
  <2> QED
    BY <2>5, Zenon DEF regs
<1>3. Covers(c, s3, N3)
  <2>1. Rk3588!Dpu("DPU_BS_OW_CFG", Rk3588!F(Rk3588!SizeE(c), 3, 8)
                                      \cup Rk3588!F(Rk3588!SizeE(c), 3, 5)
                                      \cup Rk3588!F(Rk3588!SizeE(c), 3, 2) \cup {1})
        = SentCmd(c, "DPU_BS_OW_CFG")
    <3>1. Word(c, "DPU_BS_OW_CFG") = Rk3588!F(Rk3588!SizeE(c), 3, 8)
                                       \cup Rk3588!F(Rk3588!SizeE(c), 3, 5)
                                       \cup Rk3588!F(Rk3588!SizeE(c), 3, 2) \cup {1}
      BY WordIs, SentNames, WordsSent
    <3>2. "DPU_BS_OW_CFG" \in DpuConfig \ {"DPU_DST_BASE_ADDR"}
      BY DpuNames
    <3> QED
      BY <3>1, <3>2, UnitSends, Zenon
  <2>2. Rk3588!Dpu("DPU_BS_OW_OP", {})
        = SentCmd(c, "DPU_BS_OW_OP")
    <3>1. Word(c, "DPU_BS_OW_OP") = {}
      BY WordsClear
    <3>2. "DPU_BS_OW_OP" \in DpuConfig \ {"DPU_DST_BASE_ADDR"}
      BY DpuNames
    <3> QED
      BY <3>1, <3>2, UnitSends, Zenon
  <2>3. Rk3588!Dpu("DPU_WDMA_SIZE_0", Rk3588!F(Rk3588!LastKernel(c), 13, 0))
        = SentCmd(c, "DPU_WDMA_SIZE_0")
    <3>1. Word(c, "DPU_WDMA_SIZE_0") = Rk3588!F(Rk3588!LastKernel(c), 13, 0)
      BY WordIs, SentNames, WordsSent
    <3>2. "DPU_WDMA_SIZE_0" \in DpuConfig \ {"DPU_DST_BASE_ADDR"}
      BY DpuNames
    <3> QED
      BY <3>1, <3>2, UnitSends, Zenon
  <2>4. Rk3588!Dpu("DPU_WDMA_SIZE_1", Rk3588!F(Rk3588!LastRow(c), 13, 16))
        = SentCmd(c, "DPU_WDMA_SIZE_1")
    <3>1. Word(c, "DPU_WDMA_SIZE_1") = Rk3588!F(Rk3588!LastRow(c), 13, 16)
      BY WordIs, SentNames, WordsSent
    <3>2. "DPU_WDMA_SIZE_1" \in DpuConfig \ {"DPU_DST_BASE_ADDR"}
      BY DpuNames
    <3> QED
      BY <3>1, <3>2, UnitSends, Zenon
  <2> QED
    BY <2>1, <2>2, <2>3, <2>4, TuplesCover, Zenon
<1> HIDE DEF s1, s2, s3, N1, N2, N3
<1>4. Rk3588!BsCommands(c) = s1 \o s2 \o s3
  BY Zenon DEF Rk3588!BsCommands, s1, s2, s3
<1>5. Covers(c, s1 \o s2,
               N1 \cup N2)
  BY <1>1, <1>2, CoversJoin, Zenon
<1>6. Covers(c, s1 \o s2 \o s3,
               N1 \cup N2 \cup N3)
  BY <1>5, <1>3, CoversJoin, Zenon
<1>7. BsSent = N1 \cup N2 \cup N3
  BY DEF BsSent, N1, N2, N3
<1> QED
  BY <1>4, <1>6, <1>7, Zenon

BnAndEwSent == {"DPU_BN_CFG", "DPU_BN_ALU_CFG", "DPU_BN_MUL_CFG", "DPU_BN_RELUX_CMP_VALUE",
                "DPU_EW_CFG", "DPU_EW_CVT_OFFSET_VALUE", "DPU_EW_CVT_SCALE_VALUE",
                "DPU_EW_RELUX_CMP_VALUE", "DPU_OUT_CVT_OFFSET", "DPU_OUT_CVT_SCALE",
                "DPU_OUT_CVT_SHIFT", "DPU_EW_OP_VALUE_0", "DPU_EW_OP_VALUE_1",
                "DPU_EW_OP_VALUE_2", "DPU_EW_OP_VALUE_3", "DPU_EW_OP_VALUE_4",
                "DPU_EW_OP_VALUE_5", "DPU_EW_OP_VALUE_6", "DPU_EW_OP_VALUE_7", "DPU_SURFACE_ADD"}

(* The DPU's other stages and the conversion of its output.                *)
LEMMA BnAndEwCommandsCover == \A c : Covers(c, Rk3588!BnAndEwCommands(c), BnAndEwSent)
<1> TAKE c
<1> DEFINE s1 == << Rk3588!Dpu("DPU_BN_CFG", Rk3588!Bypass) >>
<1> DEFINE N1 == {"DPU_BN_CFG"}
<1> DEFINE s2 == Rk3588!Zeros(Rk3588!OP_REG_DPU,
               <<"DPU_BN_ALU_CFG", "DPU_BN_MUL_CFG", "DPU_BN_RELUX_CMP_VALUE">>)
<1> DEFINE N2 == {"DPU_BN_ALU_CFG", "DPU_BN_MUL_CFG", "DPU_BN_RELUX_CMP_VALUE"}
<1> DEFINE s3 == << Rk3588!Dpu("DPU_EW_CFG", {9, 8, 7, 1, 0}),
                    Rk3588!Dpu("DPU_EW_CVT_OFFSET_VALUE", {}),
                    Rk3588!Dpu("DPU_EW_CVT_SCALE_VALUE", Rk3588!Bits(1)) >>
<1> DEFINE N3 == {"DPU_EW_CFG", "DPU_EW_CVT_OFFSET_VALUE", "DPU_EW_CVT_SCALE_VALUE"}
<1> DEFINE s4 == Rk3588!Zeros(Rk3588!OP_REG_DPU,
               <<"DPU_EW_RELUX_CMP_VALUE", "DPU_OUT_CVT_OFFSET">>)
<1> DEFINE N4 == {"DPU_EW_RELUX_CMP_VALUE", "DPU_OUT_CVT_OFFSET"}
<1> DEFINE s5 == << Rk3588!Dpu("DPU_OUT_CVT_SCALE", Rk3588!F(Rk3588!ToFp16(c), 1, 16)
                                                      \cup Rk3588!F(1, 16, 0)),
                    Rk3588!Dpu("DPU_OUT_CVT_SHIFT", {}) >>
<1> DEFINE N5 == {"DPU_OUT_CVT_SCALE", "DPU_OUT_CVT_SHIFT"}
<1> DEFINE s6 == Rk3588!Zeros(Rk3588!OP_REG_DPU,
               <<"DPU_EW_OP_VALUE_0", "DPU_EW_OP_VALUE_1", "DPU_EW_OP_VALUE_2",
                 "DPU_EW_OP_VALUE_3", "DPU_EW_OP_VALUE_4", "DPU_EW_OP_VALUE_5",
                 "DPU_EW_OP_VALUE_6", "DPU_EW_OP_VALUE_7">>)
<1> DEFINE N6 == {"DPU_EW_OP_VALUE_0", "DPU_EW_OP_VALUE_1", "DPU_EW_OP_VALUE_2",
                  "DPU_EW_OP_VALUE_3", "DPU_EW_OP_VALUE_4", "DPU_EW_OP_VALUE_5",
                  "DPU_EW_OP_VALUE_6", "DPU_EW_OP_VALUE_7"}
<1> DEFINE s7 == << Rk3588!Dpu("DPU_SURFACE_ADD", Rk3588!F(Rk3588!SurfAdd(c), 28, 4)) >>
<1> DEFINE N7 == {"DPU_SURFACE_ADD"}
<1>1. Covers(c, s1, N1)
  <2>1. Rk3588!Dpu("DPU_BN_CFG", Rk3588!Bypass)
        = SentCmd(c, "DPU_BN_CFG")
    <3>1. Word(c, "DPU_BN_CFG") = Rk3588!Bypass
      BY WordIs, SentNames, WordsSent
    <3>2. "DPU_BN_CFG" \in DpuConfig \ {"DPU_DST_BASE_ADDR"}
      BY DpuNames
    <3> QED
      BY <3>1, <3>2, UnitSends, Zenon
  <2> QED
    BY <2>1, TuplesCover, Zenon
<1>2. Covers(c, s2, N2)
  <2> DEFINE regs == <<"DPU_BN_ALU_CFG", "DPU_BN_MUL_CFG", "DPU_BN_RELUX_CMP_VALUE">>
  <2>1. Lists(regs,
          {"DPU_BN_ALU_CFG", "DPU_BN_MUL_CFG", "DPU_BN_RELUX_CMP_VALUE"})
    BY TuplesList, Zenon
  <2>2. {HwName(r) : r \in N2} =
          {"DPU_BN_ALU_CFG", "DPU_BN_MUL_CFG", "DPU_BN_RELUX_CMP_VALUE"}
    BY DEF HwName
  <2>3. \A r \in N2 : Op(r) = Rk3588!OP_REG_DPU
    BY Ops, DpuNames
  <2>4. \A r \in N2 : Word(c, r) = {}
    BY WordsClear
  <2> HIDE DEF regs, N2
  <2>5. Covers(c, Rk3588!Zeros(Rk3588!OP_REG_DPU, regs), N2)
    BY <2>1, <2>2, <2>3, <2>4, ZerosCover DEF Lists
  <2> QED
    BY <2>5, Zenon DEF regs
<1>3. Covers(c, s3, N3)
  <2>1. Rk3588!Dpu("DPU_EW_CFG", {9, 8, 7, 1, 0})
        = SentCmd(c, "DPU_EW_CFG")
    <3>1. Word(c, "DPU_EW_CFG") = {9, 8, 7, 1, 0}
      BY WordIs, SentNames, WordsSent
    <3>2. "DPU_EW_CFG" \in DpuConfig \ {"DPU_DST_BASE_ADDR"}
      BY DpuNames
    <3> QED
      BY <3>1, <3>2, UnitSends, Zenon
  <2>2. Rk3588!Dpu("DPU_EW_CVT_OFFSET_VALUE", {})
        = SentCmd(c, "DPU_EW_CVT_OFFSET_VALUE")
    <3>1. Word(c, "DPU_EW_CVT_OFFSET_VALUE") = {}
      BY WordsClear
    <3>2. "DPU_EW_CVT_OFFSET_VALUE" \in DpuConfig \ {"DPU_DST_BASE_ADDR"}
      BY DpuNames
    <3> QED
      BY <3>1, <3>2, UnitSends, Zenon
  <2>3. Rk3588!Dpu("DPU_EW_CVT_SCALE_VALUE", Rk3588!Bits(1))
        = SentCmd(c, "DPU_EW_CVT_SCALE_VALUE")
    <3>1. Word(c, "DPU_EW_CVT_SCALE_VALUE") = Rk3588!Bits(1)
      BY WordIs, SentNames, WordsSent
    <3>2. "DPU_EW_CVT_SCALE_VALUE" \in DpuConfig \ {"DPU_DST_BASE_ADDR"}
      BY DpuNames
    <3> QED
      BY <3>1, <3>2, UnitSends, Zenon
  <2> QED
    BY <2>1, <2>2, <2>3, TuplesCover, Zenon
<1>4. Covers(c, s4, N4)
  <2> DEFINE regs == <<"DPU_EW_RELUX_CMP_VALUE", "DPU_OUT_CVT_OFFSET">>
  <2>1. Lists(regs,
          {"DPU_EW_RELUX_CMP_VALUE", "DPU_OUT_CVT_OFFSET"})
    BY TuplesList, Zenon
  <2>2. {HwName(r) : r \in N4} =
          {"DPU_EW_RELUX_CMP_VALUE", "DPU_OUT_CVT_OFFSET"}
    BY DEF HwName
  <2>3. \A r \in N4 : Op(r) = Rk3588!OP_REG_DPU
    BY Ops, DpuNames
  <2>4. \A r \in N4 : Word(c, r) = {}
    BY WordsClear
  <2> HIDE DEF regs, N4
  <2>5. Covers(c, Rk3588!Zeros(Rk3588!OP_REG_DPU, regs), N4)
    BY <2>1, <2>2, <2>3, <2>4, ZerosCover DEF Lists
  <2> QED
    BY <2>5, Zenon DEF regs
<1>5. Covers(c, s5, N5)
  <2>1. Rk3588!Dpu("DPU_OUT_CVT_SCALE", Rk3588!F(Rk3588!ToFp16(c), 1, 16) \cup Rk3588!F(1, 16, 0))
        = SentCmd(c, "DPU_OUT_CVT_SCALE")
    <3>1. Word(c, "DPU_OUT_CVT_SCALE") = Rk3588!F(Rk3588!ToFp16(c), 1, 16) \cup Rk3588!F(1, 16, 0)
      BY WordIs, SentNames, WordsSent
    <3>2. "DPU_OUT_CVT_SCALE" \in DpuConfig \ {"DPU_DST_BASE_ADDR"}
      BY DpuNames
    <3> QED
      BY <3>1, <3>2, UnitSends, Zenon
  <2>2. Rk3588!Dpu("DPU_OUT_CVT_SHIFT", {})
        = SentCmd(c, "DPU_OUT_CVT_SHIFT")
    <3>1. Word(c, "DPU_OUT_CVT_SHIFT") = {}
      BY WordsClear
    <3>2. "DPU_OUT_CVT_SHIFT" \in DpuConfig \ {"DPU_DST_BASE_ADDR"}
      BY DpuNames
    <3> QED
      BY <3>1, <3>2, UnitSends, Zenon
  <2> QED
    BY <2>1, <2>2, TuplesCover, Zenon
<1>6. Covers(c, s6, N6)
  <2> DEFINE regs == <<"DPU_EW_OP_VALUE_0", "DPU_EW_OP_VALUE_1", "DPU_EW_OP_VALUE_2",
                       "DPU_EW_OP_VALUE_3", "DPU_EW_OP_VALUE_4", "DPU_EW_OP_VALUE_5",
                       "DPU_EW_OP_VALUE_6", "DPU_EW_OP_VALUE_7">>
  <2>1. Lists(regs,
          {"DPU_EW_OP_VALUE_0", "DPU_EW_OP_VALUE_1", "DPU_EW_OP_VALUE_2", "DPU_EW_OP_VALUE_3",
           "DPU_EW_OP_VALUE_4", "DPU_EW_OP_VALUE_5", "DPU_EW_OP_VALUE_6", "DPU_EW_OP_VALUE_7"})
    BY TuplesList, Zenon
  <2>2. {HwName(r) : r \in N6} =
          {"DPU_EW_OP_VALUE_0", "DPU_EW_OP_VALUE_1", "DPU_EW_OP_VALUE_2", "DPU_EW_OP_VALUE_3",
           "DPU_EW_OP_VALUE_4", "DPU_EW_OP_VALUE_5", "DPU_EW_OP_VALUE_6", "DPU_EW_OP_VALUE_7"}
    BY DEF HwName
  <2>3. \A r \in N6 : Op(r) = Rk3588!OP_REG_DPU
    BY Ops, DpuNames
  <2>4. \A r \in N6 : Word(c, r) = {}
    BY WordsClear
  <2> HIDE DEF regs, N6
  <2>5. Covers(c, Rk3588!Zeros(Rk3588!OP_REG_DPU, regs), N6)
    BY <2>1, <2>2, <2>3, <2>4, ZerosCover DEF Lists
  <2> QED
    BY <2>5, Zenon DEF regs
<1>7. Covers(c, s7, N7)
  <2>1. Rk3588!Dpu("DPU_SURFACE_ADD", Rk3588!F(Rk3588!SurfAdd(c), 28, 4))
        = SentCmd(c, "DPU_SURFACE_ADD")
    <3>1. Word(c, "DPU_SURFACE_ADD") = Rk3588!F(Rk3588!SurfAdd(c), 28, 4)
      BY WordIs, SentNames, WordsSent
    <3>2. "DPU_SURFACE_ADD" \in DpuConfig \ {"DPU_DST_BASE_ADDR"}
      BY DpuNames
    <3> QED
      BY <3>1, <3>2, UnitSends, Zenon
  <2> QED
    BY <2>1, TuplesCover, Zenon
<1> HIDE DEF s1, s2, s3, s4, s5, s6, s7, N1, N2, N3, N4, N5, N6, N7
<1>8. Rk3588!BnAndEwCommands(c) = s1 \o s2 \o s3 \o s4 \o s5 \o s6 \o s7
  BY Zenon DEF Rk3588!BnAndEwCommands, s1, s2, s3, s4, s5, s6, s7
<1>9. Covers(c, s1 \o s2,
               N1 \cup N2)
  BY <1>1, <1>2, CoversJoin, Zenon
<1>10. Covers(c, s1 \o s2 \o s3,
               N1 \cup N2 \cup N3)
  BY <1>9, <1>3, CoversJoin, Zenon
<1>11. Covers(c, s1 \o s2 \o s3 \o s4,
               N1 \cup N2 \cup N3 \cup N4)
  BY <1>10, <1>4, CoversJoin, Zenon
<1>12. Covers(c, s1 \o s2 \o s3 \o s4 \o s5,
               N1 \cup N2 \cup N3 \cup N4 \cup N5)
  BY <1>11, <1>5, CoversJoin, Zenon
<1>13. Covers(c, s1 \o s2 \o s3 \o s4 \o s5 \o s6,
               N1 \cup N2 \cup N3 \cup N4 \cup N5 \cup N6)
  BY <1>12, <1>6, CoversJoin, Zenon
<1>14. Covers(c, s1 \o s2 \o s3 \o s4 \o s5 \o s6 \o s7,
               N1 \cup N2 \cup N3 \cup N4 \cup N5 \cup N6 \cup N7)
  BY <1>13, <1>7, CoversJoin, Zenon
<1>15. BnAndEwSent = N1 \cup N2 \cup N3 \cup N4 \cup N5 \cup N6 \cup N7
  BY DEF BnAndEwSent, N1, N2, N3, N4, N5, N6, N7
<1> QED
  BY <1>8, <1>14, <1>15, Zenon

LutSent == {"DPU_40C4", "DPU_LUT_ACCESS_CFG", "DPU_LUT_ACCESS_DATA", "DPU_LUT_CFG",
            "DPU_LUT_INFO", "DPU_LUT_LE_START", "DPU_LUT_LE_END", "DPU_LUT_LO_START",
            "DPU_LUT_LO_END", "DPU_LUT_LE_SLOPE_SCALE", "DPU_LUT_LE_SLOPE_SHIFT",
            "DPU_LUT_LO_SLOPE_SCALE", "DPU_LUT_LO_SLOPE_SHIFT"}

(* The DPU's tables.                                                       *)
LEMMA LutCommandsCover == \A c : Covers(c, Rk3588!LutCommands, LutSent)
<1> TAKE c
<1> DEFINE s1 == Rk3588!Zeros(Rk3588!OP_REG_DPU,
               <<"DPU_40C4", "DPU_LUT_ACCESS_CFG", "DPU_LUT_ACCESS_DATA", "DPU_LUT_CFG",
                 "DPU_LUT_INFO", "DPU_LUT_LE_START", "DPU_LUT_LE_END", "DPU_LUT_LO_START",
                 "DPU_LUT_LO_END", "DPU_LUT_LE_SLOPE_SCALE", "DPU_LUT_LE_SLOPE_SHIFT",
                 "DPU_LUT_LO_SLOPE_SCALE", "DPU_LUT_LO_SLOPE_SHIFT">>)
<1>1. Covers(c, s1, LutSent)
  <2> DEFINE regs == <<"DPU_40C4", "DPU_LUT_ACCESS_CFG", "DPU_LUT_ACCESS_DATA", "DPU_LUT_CFG",
                       "DPU_LUT_INFO", "DPU_LUT_LE_START", "DPU_LUT_LE_END", "DPU_LUT_LO_START",
                       "DPU_LUT_LO_END", "DPU_LUT_LE_SLOPE_SCALE", "DPU_LUT_LE_SLOPE_SHIFT",
                       "DPU_LUT_LO_SLOPE_SCALE", "DPU_LUT_LO_SLOPE_SHIFT">>
  <2>1. Lists(regs,
          {"DPU_40C4", "DPU_LUT_ACCESS_CFG", "DPU_LUT_ACCESS_DATA", "DPU_LUT_CFG", "DPU_LUT_INFO",
           "DPU_LUT_LE_START", "DPU_LUT_LE_END", "DPU_LUT_LO_START", "DPU_LUT_LO_END",
           "DPU_LUT_LE_SLOPE_SCALE", "DPU_LUT_LE_SLOPE_SHIFT", "DPU_LUT_LO_SLOPE_SCALE",
           "DPU_LUT_LO_SLOPE_SHIFT"})
    BY TuplesList, Zenon
  <2>2. {HwName(r) : r \in LutSent} =
          {"DPU_40C4", "DPU_LUT_ACCESS_CFG", "DPU_LUT_ACCESS_DATA", "DPU_LUT_CFG", "DPU_LUT_INFO",
           "DPU_LUT_LE_START", "DPU_LUT_LE_END", "DPU_LUT_LO_START", "DPU_LUT_LO_END",
           "DPU_LUT_LE_SLOPE_SCALE", "DPU_LUT_LE_SLOPE_SHIFT", "DPU_LUT_LO_SLOPE_SCALE",
           "DPU_LUT_LO_SLOPE_SHIFT"}
    BY DEF HwName, LutSent
  <2>3. \A r \in LutSent : Op(r) = Rk3588!OP_REG_DPU
    BY Ops, DpuNames DEF LutSent
  <2>4. \A r \in LutSent : Word(c, r) = {}
    BY WordsClear DEF LutSent
  <2> HIDE DEF regs
  <2>5. Covers(c, Rk3588!Zeros(Rk3588!OP_REG_DPU, regs), LutSent)
    BY <2>1, <2>2, <2>3, <2>4, ZerosCover DEF Lists
  <2> QED
    BY <2>5, Zenon DEF regs
<1> HIDE DEF s1
<1>2. Rk3588!LutCommands = s1
  BY Zenon DEF Rk3588!LutCommands, s1
<1> QED
  BY <1>1, <1>2, Zenon

(* An rk3588 list sends each register of TaskRegs its word, once or more,  *)
(* and then enables the job: no other register is written.                 *)
Enabling == CommandsIn(Rk3588!EnableCommands)

(* All of them together: what the whole list sends, and to which units.    *)
LEMMA TaskCovers ==
  \A c : /\ IsSeq(Rk3588!gen_matmul_task(c))
         /\ CommandsIn(Rk3588!gen_matmul_task(c)) =
              {SentCmd(c, r) : r \in TaskRegs} \cup Enabling
<1> TAKE c
<1> DEFINE s1 == Rk3588!ConvCommands(c)
<1> DEFINE s2 == Rk3588!DataCommands(c)
<1> DEFINE s3 == Rk3588!WeightCommands(c)
<1> DEFINE s4 == Rk3588!BufferCommands(c)
<1> DEFINE s5 == Rk3588!InputCommands(c)
<1> DEFINE s6 == Rk3588!WeightFetchCommands
<1> DEFINE s7 == Rk3588!CoreCommands(c)
<1> DEFINE s8 == Rk3588!OutputCommands(c)
<1> DEFINE s9 == Rk3588!BsCommands(c)
<1> DEFINE s10 == Rk3588!BnAndEwCommands(c)
<1> DEFINE s11 == Rk3588!LutCommands
<1> DEFINE last == Rk3588!EnableCommands
<1>1. Covers(c, s1, ConvSent)
  BY ConvCommandsCover, Zenon
<1>2. Covers(c, s2, DataSent)
  BY DataCommandsCover, Zenon
<1>3. Covers(c, s3, WeightSent)
  BY WeightCommandsCover, Zenon
<1>4. Covers(c, s4, BufferSent)
  BY BufferCommandsCover, Zenon
<1>5. Covers(c, s5, InputSent)
  BY InputCommandsCover, Zenon
<1>6. Covers(c, s6, WeightFetchSent)
  BY WeightFetchCommandsCover, Zenon
<1>7. Covers(c, s7, CoreSent)
  BY CoreCommandsCover, Zenon
<1>8. Covers(c, s8, OutputSent)
  BY OutputCommandsCover, Zenon
<1>9. Covers(c, s9, BsSent)
  BY BsCommandsCover, Zenon
<1>10. Covers(c, s10, BnAndEwSent)
  BY BnAndEwCommandsCover, Zenon
<1>11. Covers(c, s11, LutSent)
  BY LutCommandsCover, Zenon
<1>12. IsSeq(last) /\ CommandsIn(last) = Enabling
  BY TuplesList, Zenon DEF Lists, Rk3588!EnableCommands, Enabling
<1>13. Rk3588!gen_matmul_task(c) =
        s1 \o s2 \o s3 \o s4 \o s5 \o s6 \o s7 \o s8 \o s9 \o s10 \o s11 \o last
  BY Zenon DEF Rk3588!gen_matmul_task
<1> HIDE DEF s1, s2, s3, s4, s5, s6, s7, s8, s9, s10, s11, last
<1>14. Covers(c, s1 \o s2,
                ConvSent \cup DataSent)
  BY <1>1, <1>2, CoversJoin, Zenon
<1>15. Covers(c, s1 \o s2 \o s3,
                ConvSent \cup DataSent \cup WeightSent)
  BY <1>14, <1>3, CoversJoin, Zenon
<1>16. Covers(c, s1 \o s2 \o s3 \o s4,
                ConvSent \cup DataSent \cup WeightSent \cup BufferSent)
  BY <1>15, <1>4, CoversJoin, Zenon
<1>17. Covers(c, s1 \o s2 \o s3 \o s4 \o s5,
                ConvSent \cup DataSent \cup WeightSent \cup BufferSent \cup InputSent)
  BY <1>16, <1>5, CoversJoin, Zenon
<1>18. Covers(c, s1 \o s2 \o s3 \o s4 \o s5 \o s6,
                ConvSent \cup DataSent \cup WeightSent \cup BufferSent \cup InputSent
                  \cup WeightFetchSent)
  BY <1>17, <1>6, CoversJoin, Zenon
<1>19. Covers(c, s1 \o s2 \o s3 \o s4 \o s5 \o s6 \o s7,
                ConvSent \cup DataSent \cup WeightSent \cup BufferSent \cup InputSent
                  \cup WeightFetchSent \cup CoreSent)
  BY <1>18, <1>7, CoversJoin, Zenon
<1>20. Covers(c, s1 \o s2 \o s3 \o s4 \o s5 \o s6 \o s7 \o s8,
                ConvSent \cup DataSent \cup WeightSent \cup BufferSent \cup InputSent
                  \cup WeightFetchSent \cup CoreSent \cup OutputSent)
  BY <1>19, <1>8, CoversJoin, Zenon
<1>21. Covers(c, s1 \o s2 \o s3 \o s4 \o s5 \o s6 \o s7 \o s8 \o s9,
                ConvSent \cup DataSent \cup WeightSent \cup BufferSent \cup InputSent
                  \cup WeightFetchSent \cup CoreSent \cup OutputSent \cup BsSent)
  BY <1>20, <1>9, CoversJoin, Zenon
<1>22. Covers(c, s1 \o s2 \o s3 \o s4 \o s5 \o s6 \o s7 \o s8 \o s9 \o s10,
                ConvSent \cup DataSent \cup WeightSent \cup BufferSent \cup InputSent
                  \cup WeightFetchSent \cup CoreSent \cup OutputSent \cup BsSent \cup BnAndEwSent)
  BY <1>21, <1>10, CoversJoin, Zenon
<1>23. Covers(c, s1 \o s2 \o s3 \o s4 \o s5 \o s6 \o s7 \o s8 \o s9 \o s10 \o s11,
                ConvSent \cup DataSent \cup WeightSent \cup BufferSent \cup InputSent
                  \cup WeightFetchSent \cup CoreSent \cup OutputSent \cup BsSent \cup BnAndEwSent
                  \cup LutSent)
  BY <1>22, <1>11, CoversJoin, Zenon
<1>24. TaskRegs =
        ConvSent \cup DataSent \cup WeightSent \cup BufferSent \cup InputSent \cup WeightFetchSent
          \cup CoreSent \cup OutputSent \cup BsSent \cup BnAndEwSent \cup LutSent
  BY CnaNames, CoreNames, DpuNames DEF TaskRegs, Config, ConvSent, DataSent, WeightSent,
     BufferSent, InputSent, WeightFetchSent, CoreSent, OutputSent, BsSent, BnAndEwSent, LutSent
<1>25. Covers(c, s1 \o s2 \o s3 \o s4 \o s5 \o s6 \o s7 \o s8 \o s9 \o s10 \o s11, TaskRegs)
  BY <1>23, <1>24, Zenon
<1> QED
  BY <1>12, <1>13, <1>25, Joined DEF Covers, Lists

-----------------------------------------------------------------------------
(* Which register a key is the place of.                                   *)
Settings == Config \cup {"PC_BASE_ADDRESS", "PC_REGISTER_AMOUNTS"}

(* The bits of the units' targets.                                         *)
LEMMA TargetBits ==
  /\ Bits(Target["PC"]) = {8} /\ Bits(Target["CNA"]) = {9} /\ Bits(Target["CORE"]) = {11}
  /\ Bits(Target["DPU"]) = {12} /\ Bits(Target["DPU_RDMA"]) = {13}
  /\ Bits(Target["PPU"]) = {14} /\ Bits(Target["PPU_RDMA"]) = {15}
  /\ Bits(Target["DDMA"]) = {16} /\ Bits(Target["SDMA"]) = {17} /\ Bits(Target["GLOBAL"]) = {18}
<1>1. /\ Target["PC"] = \h100 /\ Target["CNA"] = \h200 /\ Target["CORE"] = \h800
      /\ Target["DPU"] = \h1000 /\ Target["DPU_RDMA"] = \h2000
      /\ Target["PPU"] = \h4000 /\ Target["PPU_RDMA"] = \h8000
      /\ Target["DDMA"] = \h10000 /\ Target["SDMA"] = \h20000 /\ Target["GLOBAL"] = \h40000
  BY DEF Target
<1> QED
  BY <1>1, SomeBits

(* Each unit has a target of its own.                                      *)
LEMMA TargetsDiffer ==
  \A u, v \in DOMAIN UnitRegs : Bits(Target[u]) = Bits(Target[v]) => u = v
BY UnitNames, TargetBits

(* A register number of the header has 16 bits.                            *)
Short(no) == no \in Nat /\ no < 65536

(* A unit's register numbers have 16 bits.                                 *)
LEMMA UnitNumbers ==
  \A u \in DOMAIN UnitRegs : \A no \in UnitRegs[u] : Short(no)
BY UnitNames, UnitRanges DEF Short

(* The registers of each unit that the header knows.                       *)
LEMMA KnownParts ==
  \A key : key \in Known <=>
    \E u \in DOMAIN UnitRegs : \E no \in UnitRegs[u] : key = <<Bits(Target[u]), Bits(no)>>
BY DEF Known

(* A key is known only if the unit has the register.                       *)
LEMMA KnownIs ==
  \A u \in DOMAIN UnitRegs : \A no :
    Short(no) /\ <<Bits(Target[u]), Bits(no)>> \in Known => no \in UnitRegs[u]
<1> SUFFICES ASSUME NEW u \in DOMAIN UnitRegs, NEW no, Short(no),
                    <<Bits(Target[u]), Bits(no)>> \in Known
             PROVE  no \in UnitRegs[u]
  OBVIOUS
<1>0. PICK v \in DOMAIN UnitRegs :
        \E m \in UnitRegs[v] : <<Bits(Target[u]), Bits(no)>> = <<Bits(Target[v]), Bits(m)>>
  BY KnownParts
<1>1. PICK m \in UnitRegs[v] : <<Bits(Target[u]), Bits(no)>> = <<Bits(Target[v]), Bits(m)>>
  BY <1>0
<1>2. Bits(Target[u]) = Bits(Target[v]) /\ Bits(no) = Bits(m)
  BY <1>1
<1>3. u = v
  BY <1>2, TargetsDiffer
<1>4. Short(m)
  BY UnitNumbers
<1>5. no = m
  BY <1>2, <1>4, BitsDiffer DEF Short
<1> QED
  BY <1>3, <1>5

(* The first part of a known key is the target of a unit.                  *)
LEMMA KnownUnits ==
  \A x, y : <<x, y>> \in Known =>
    x \in {{8}, {9}, {11}, {12}, {13}, {14}, {15}, {16}, {17}, {18}}
<1> SUFFICES ASSUME NEW x, NEW y, <<x, y>> \in Known
             PROVE  x \in {{8}, {9}, {11}, {12}, {13}, {14}, {15}, {16}, {17}, {18}}
  OBVIOUS
<1>1. PICK v \in DOMAIN UnitRegs : \E m \in UnitRegs[v] : <<x, y>> = <<Bits(Target[v]), Bits(m)>>
  BY KnownParts
<1>2. x = Bits(Target[v])
  BY <1>1
<1> QED
  BY <1>2, UnitNames, TargetBits

(* Two registers are never at the same place.                              *)
LEMMA PlacesDiffer ==
  \A r, q \in DOMAIN Registers : Place(r) = Place(q) => r = q
<1> SUFFICES ASSUME NEW r \in DOMAIN Registers, NEW q \in DOMAIN Registers, Place(r) = Place(q)
             PROVE  r = q
  OBVIOUS
<1>1. PICK n : n = Registers[r].no
  OBVIOUS
<1>2. PICK m : m = Registers[q].no
  OBVIOUS
<1>3. n \in Nat /\ n < 65536 /\ m \in Nat /\ m < 65536
  BY <1>1, <1>2, NumberBounds
<1>4. Bits(n) = Bits(m)
  BY <1>1, <1>2 DEF Place
<1>5. n = m
  BY <1>3, <1>4, BitsDiffer
<1> QED
  BY <1>1, <1>2, <1>5, NumbersDiffer

(* The places of the registers that are set.                               *)
LEMMA SettingPlaces ==
  \A r \in Settings :
    /\ r \in DOMAIN Registers
    /\ \E u \in {"PC", "CNA", "CORE", "DPU"} :
         /\ Registers[r].no \in UnitRegs[u]
         /\ rkt_get_target(Registers[r].no) = Target[u]
         /\ r \in Config => u # "PC"
         /\ r \notin Config => u = "PC"
<1>1. /\ UnitRegs["PC"] = PcNumbers /\ UnitRegs["CNA"] = CnaNumbers
      /\ UnitRegs["CORE"] = CoreNumbers /\ UnitRegs["DPU"] = DpuNumbers
  BY DEF UnitRegs
<1>2. /\ Target["PC"] = \h100 /\ Target["CNA"] = \h200
      /\ Target["CORE"] = \h800 /\ Target["DPU"] = \h1000
  BY DEF Target
<1> SUFFICES ASSUME NEW r \in Settings
             PROVE  /\ r \in DOMAIN Registers
                    /\ \E u \in {"PC", "CNA", "CORE", "DPU"} :
                         /\ Registers[r].no \in UnitRegs[u]
                         /\ rkt_get_target(Registers[r].no) = Target[u]
                         /\ r \in Config => u # "PC"
                         /\ r \notin Config => u = "PC"
  OBVIOUS
<1>3. CASE r \in CnaConfig
  BY <1>1, <1>2, <1>3, ConfigTargets DEF Config
<1>4. CASE r \in CoreConfig
  BY <1>1, <1>2, <1>4, ConfigTargets DEF Config
<1>5. CASE r \in DpuConfig
  BY <1>1, <1>2, <1>5, ConfigTargets DEF Config
<1>6. CASE r \notin Config
  <2>1. r \in {"PC_BASE_ADDRESS", "PC_REGISTER_AMOUNTS"}
    BY <1>6 DEF Settings
  <2>2. Registers[r].no \in PcNumbers
    BY <2>1, UnitHas, GroupNames
  <2>3. r \in DOMAIN Registers /\ rkt_get_target(Registers[r].no) = \h100
    BY <2>1, OtherTargets
  <2> QED
    BY <1>1, <1>2, <1>6, <2>2, <2>3
<1> QED
  BY <1>3, <1>4, <1>5, <1>6 DEF Config

(* They are known, and only those of the three units have a key there.     *)
LEMMA SettingKeys ==
  \A r \in Settings :
    /\ Place(r) \in Known /\ Place(r) \notin Enables
    /\ Place(r)[1] \in Units <=> r \in Config
<1> SUFFICES ASSUME NEW r \in Settings
             PROVE  /\ Place(r) \in Known /\ Place(r) \notin Enables
                    /\ Place(r)[1] \in Units <=> r \in Config
  OBVIOUS
<1>1. PICK u \in {"PC", "CNA", "CORE", "DPU"} :
        /\ Registers[r].no \in UnitRegs[u]
        /\ rkt_get_target(Registers[r].no) = Target[u]
        /\ r \in Config => u # "PC"
        /\ r \notin Config => u = "PC"
  BY SettingPlaces
<1>2. Place(r) = <<Bits(Target[u]), Bits(Registers[r].no)>>
  BY <1>1 DEF Place
<1>3. Place(r) \in Known
  BY <1>1, <1>2, KnownParts, UnitNames
<1>4. Place(r) \notin Enables
  <2>1. ASSUME NEW q \in {"PC_OPERATION_ENABLE", "CNA_OPERATION_ENABLE",
                          "DPU_OPERATION_ENABLE"}
        PROVE  Place(r) # Place(q)
    <3>1. r \in DOMAIN Registers /\ q \in DOMAIN Registers
      BY OtherTargets, SettingPlaces
    <3>2. r # q
      BY CnaNames, CoreNames, DpuNames DEF Settings, Config
    <3> QED
      BY <3>1, <3>2, PlacesDiffer
  <2> QED
    BY <2>1 DEF Enables
<1>5. Place(r)[1] \in Units <=> r \in Config
  <2>1. Units = {{9}, {11}, {12}}
    BY TargetBits DEF Units
  <2>2. Place(r)[1] = Bits(Target[u])
    BY <1>2
  <2> QED
    BY <1>1, <2>1, <2>2, TargetBits
<1> QED
  BY <1>3, <1>4, <1>5

-----------------------------------------------------------------------------
(* What a command says: if it writes a register other than the enables     *)
(* that the header knows, it is one of Settings, and it gets its value in  *)
(* W.  A list in which all commands say the same table W repeats a         *)
(* register only with the same value.                                      *)
Says(cmd, W) ==
  Writes(cmd) =>
    \/ Key(cmd) \in Enables
    \/ Key(cmd) \notin Known
    \/ \E r \in Settings : Key(cmd) = Place(r) /\ ValueOf(cmd) = W[r]

AllSay(s, W) == IsSeq(s) /\ \A cmd \in CommandsIn(s) : Says(cmd, W)

(* Two lists that say the same table, joined, still say it.                *)
LEMMA SayJoined == \A s, t, W : AllSay(s, W) /\ AllSay(t, W) => AllSay(s \o t, W)
BY Joined DEF AllSay

(* In such a list a register has one value.                                *)
LEMMA SaidOnce ==
  ASSUME NEW s, NEW W, AllSay(s, W), NEW a \in CommandsIn(s), NEW b \in CommandsIn(s),
         Writes(a), Writes(b), Key(a) = Key(b), Key(a) \in Known, Key(a) \notin Enables
  PROVE  ValueOf(a) = ValueOf(b)
<1>1. PICK r \in Settings : Key(a) = Place(r) /\ ValueOf(a) = W[r]
  BY DEF AllSay, Says
<1>2. PICK q \in Settings : Key(b) = Place(q) /\ ValueOf(b) = W[q]
  BY DEF AllSay, Says
<1>3. r \in DOMAIN Registers /\ q \in DOMAIN Registers
  BY SettingPlaces
<1>4. r = q
  BY <1>1, <1>2, <1>3, PlacesDiffer
<1> QED
  BY <1>1, <1>2, <1>4

(* What it writes in the three units is one of the registers of Config.    *)
LEMMA SaidInConfig ==
  ASSUME NEW s, NEW W, AllSay(s, W), NEW a \in CommandsIn(s),
         Writes(a), Key(a) \in Known, Key(a) \notin Enables, Key(a)[1] \in Units
  PROVE  \E r \in Config : Key(a) = Place(r)
<1>1. PICK r \in Settings : Key(a) = Place(r)
  BY DEF AllSay, Says
<1> QED
  BY <1>1, SettingKeys

-----------------------------------------------------------------------------
(* What the NPU makes of a command written with Mesa's macro.              *)

(* Such a number is a word of 16 bits, and any number one of 32.           *)
LEMMA NumberWords ==
  /\ \A no : Short(no) => Bits(no) \subseteq Low(16)
  /\ \A n : Bits(n) \subseteq Low(32)
<1>1. \A n \in Nat : n < 65536 => Bits(n) \subseteq Low(16)
  BY BitsFit, PowerTable
<1>2. \A n : Bits(n) \subseteq Low(32)
  BY DEF Bits, Low
<1> QED
  BY <1>1, <1>2 DEF Short

(* Twice a number, as an int.                                              *)
Twice(n) == Shl(Bits(n), 1) \cap Low(32)

(* The ints of the lists are words of 32 bits, made longer by their sign.  *)
LEMMA IntWords ==
  \A n : /\ Mesa!IntBits(n) = Uint64(Bits(n)) /\ Mesa!TwiceBits(n) = Uint64(Twice(n))
         /\ Full!IntBits(n) = Uint64(Bits(n)) /\ Full!TwiceBits(n) = Uint64(Twice(n))
         /\ Bits(n) \in SUBSET Low(32) /\ Twice(n) \in SUBSET Low(32)
<1>1. \A n : /\ Mesa!IntBits(n) = IntBits(n) /\ Mesa!TwiceBits(n) = TwiceBits(n)
             /\ Full!IntBits(n) = IntBits(n) /\ Full!TwiceBits(n) = TwiceBits(n)
  <2>1. \A n : Mesa!Bits(n) = Bits(n) /\ Full!Bits(n) = Bits(n)
    BY Zenon DEF Mesa!Bits, Full!Bits, Bits
  <2>2. \A w : Mesa!Uint64(w) = Uint64(w) /\ Full!Uint64(w) = Uint64(w)
    BY Zenon DEF Mesa!Uint64, Full!Uint64, Uint64
  <2>3. \A w, n : Mesa!Shl(w, n) = Shl(w, n) /\ Full!Shl(w, n) = Shl(w, n)
    BY Zenon DEF Mesa!Shl, Full!Shl, Shl
  <2>4. Mesa!Low(32) = Low(32) /\ Full!Low(32) = Low(32)
    BY Zenon DEF Mesa!Low, Full!Low, Low
  <2> QED
    BY <2>1, <2>2, <2>3, <2>4, Zenon
       DEF Mesa!IntBits, Full!IntBits, IntBits, Mesa!TwiceBits, Full!TwiceBits, TwiceBits
<1>2. \A n : Twice(n) \in SUBSET Low(32)
  BY DEF Twice
<1>3. \A n : Bits(n) \in SUBSET Low(32)
  BY NumberWords
<1> QED
  BY <1>1, <1>2, <1>3, Zenon DEF IntBits, TwiceBits, Twice

(* A setting has such a number.                                            *)
LEMMA ShortSettings == \A r \in Settings : Short(Registers[r].no)
BY SettingPlaces, NumberBounds DEF Short

(* It arrives in parts if these fit.                                       *)
LEMMA MesaParts ==
  \A t \in SUBSET Low(16) : \A v \in SUBSET Low(32), b \in SUBSET Low(16) : t # {} =>
    /\ Key(MESA_REGCMD(t, v, b)) = <<t \ {0}, b>>
    /\ ValueOf(MESA_REGCMD(t, v, b)) = v
    /\ Writes(MESA_REGCMD(t, v, b))
<1> SUFFICES ASSUME NEW t \in SUBSET Low(16), NEW v \in SUBSET Low(32),
                    NEW b \in SUBSET Low(16), t # {}
             PROVE  /\ Key(MESA_REGCMD(t, v, b)) = <<t \ {0}, b>>
                    /\ ValueOf(MESA_REGCMD(t, v, b)) = v
                    /\ Writes(MESA_REGCMD(t, v, b))
  OBVIOUS
<1>1. b \in SUBSET Low(17) /\ 16 \notin b /\ b \cap Low(16) = b
  <2>1. Low(16) \subseteq Low(17) /\ 16 \notin Low(16)
    BY DEF Low
  <2> QED
    BY <2>1
<1>2. PICK cmd : cmd = MESA_REGCMD(t, v, b)
  OBVIOUS
<1>3. /\ TargetOf(cmd) = t
      /\ ValueOf(cmd) = v \cup (IF 16 \in b THEN {0} ELSE {})
      /\ RegOf(cmd) = b \cap Low(16)
  BY <1>1, <1>2, SeventeenthBitSetsValue, ZenonT(60)
<1>4. (IF 16 \in b THEN {0} ELSE {}) = {}
  BY <1>1, Zenon
<1>5. v \cup {} = v
  OBVIOUS
<1>6. ValueOf(cmd) = v
  BY <1>3, <1>4, <1>5, Zenon
<1>7. Key(cmd) = <<t \ {0}, b>>
  BY <1>1, <1>3, Zenon DEF Key
<1>8. Writes(cmd)
  <2>1. TargetOf({-1}) = {}
    BY DEF TargetOf, Shr
  <2>2. cmd # {-1}
    BY <1>3, <2>1, Zenon
  <2> QED
    BY <1>3, <2>2, Zenon DEF Writes, Full!NoWord
<1> QED
  BY <1>2, <1>6, <1>7, <1>8, Zenon

(* A number of 17 bits sets the value's bit 0.                             *)
LEMMA LongParts ==
  \A t \in SUBSET Low(16) : \A v \in SUBSET Low(32), b \in SUBSET Low(16) : t # {} =>
    /\ Key(MESA_REGCMD(t, v, b \cup {16})) = <<t \ {0}, b>>
    /\ Writes(MESA_REGCMD(t, v, b \cup {16}))
<1> SUFFICES ASSUME NEW t \in SUBSET Low(16), NEW v \in SUBSET Low(32),
                    NEW b \in SUBSET Low(16), t # {}
             PROVE  /\ Key(MESA_REGCMD(t, v, b \cup {16})) = <<t \ {0}, b>>
                    /\ Writes(MESA_REGCMD(t, v, b \cup {16}))
  OBVIOUS
<1>1. PICK x : x = b \cup {16}
  OBVIOUS
<1>2. x \in SUBSET Low(17) /\ x \cap Low(16) = b
  <2>1. Low(17) = Low(16) \cup {16} /\ 16 \notin Low(16)
    BY DEF Low
  <2> QED
    BY <1>1, <2>1
<1>3. PICK cmd : cmd = MESA_REGCMD(t, v, x)
  OBVIOUS
<1>4. TargetOf(cmd) = t /\ RegOf(cmd) = x \cap Low(16)
  BY <1>2, <1>3, SeventeenthBitSetsValue, Zenon
<1>5. Key(cmd) = <<t \ {0}, b>>
  BY <1>2, <1>4, Zenon DEF Key
<1>6. Writes(cmd)
  <2>1. TargetOf({-1}) = {}
    BY DEF TargetOf, Shr
  <2>2. cmd # {-1}
    BY <1>4, <2>1, Zenon
  <2> QED
    BY <1>4, <2>2, Zenon DEF Writes, Full!NoWord
<1> QED
  BY <1>1, <1>3, <1>5, <1>6, Zenon

(* What the parts are for a register number of the header.                 *)
LEMMA MesaKey ==
  \A u \in {"PC", "CNA", "CORE", "DPU"} : \A v \in SUBSET Low(32) : \A no :
    Short(no) =>
      /\ Key(MESA_REGCMD(Bits(Target[u]), v, Bits(no))) = <<Bits(Target[u]), Bits(no)>>
      /\ ValueOf(MESA_REGCMD(Bits(Target[u]), v, Bits(no))) = v
      /\ Writes(MESA_REGCMD(Bits(Target[u]), v, Bits(no)))
<1>1. \A u \in {"PC", "CNA", "CORE", "DPU"} :
        Bits(Target[u]) \in SUBSET Low(16) /\ Bits(Target[u]) # {}
          /\ Bits(Target[u]) \ {0} = Bits(Target[u])
  <2>1. \A t \in {{8}, {9}, {11}, {12}} : t \in SUBSET Low(16) /\ t # {} /\ t \ {0} = t
    BY DEF Low
  <2>2. \A u \in {"PC", "CNA", "CORE", "DPU"} : Bits(Target[u]) \in {{8}, {9}, {11}, {12}}
    BY TargetBits
  <2> QED
    BY <2>1, <2>2, Zenon
<1>2. \A no : Short(no) => Bits(no) \in SUBSET Low(16)
  BY NumberWords
<1> TAKE u \in {"PC", "CNA", "CORE", "DPU"}
<1> TAKE v \in SUBSET Low(32)
<1> TAKE no
<1>3. ASSUME Short(no)
      PROVE  /\ Key(MESA_REGCMD(Bits(Target[u]), v, Bits(no))) = <<Bits(Target[u]), Bits(no)>>
             /\ ValueOf(MESA_REGCMD(Bits(Target[u]), v, Bits(no))) = v
             /\ Writes(MESA_REGCMD(Bits(Target[u]), v, Bits(no)))
  <2>1. PICK t : t = Bits(Target[u])
    OBVIOUS
  <2>2. PICK b : b = Bits(no)
    OBVIOUS
  <2>3. t \in SUBSET Low(16) /\ t # {} /\ t \ {0} = t /\ b \in SUBSET Low(16)
    BY <1>1, <1>2, <1>3, <2>1, <2>2, Zenon
  <2>4. /\ Key(MESA_REGCMD(t, v, b)) = <<t, b>>
        /\ ValueOf(MESA_REGCMD(t, v, b)) = v
        /\ Writes(MESA_REGCMD(t, v, b))
    BY <2>3, MesaParts, Zenon
  <2> QED
    BY <2>1, <2>2, <2>4, Zenon
<1> QED
  BY <1>3, Zenon

(* So it lands in the register if the unit has it.                         *)
LEMMA MesaLands ==
  \A u \in {"PC", "CNA", "CORE", "DPU"} : \A v \in SUBSET Low(32) : \A r \in DOMAIN Registers :
    Registers[r].no \in UnitRegs[u] =>
      /\ Key(MESA_REGCMD(Bits(Target[u]), v, Bits(Registers[r].no))) = Place(r)
      /\ ValueOf(MESA_REGCMD(Bits(Target[u]), v, Bits(Registers[r].no))) = v
      /\ Writes(MESA_REGCMD(Bits(Target[u]), v, Bits(Registers[r].no)))
      /\ Place(r) \in Known
<1> SUFFICES ASSUME NEW u \in {"PC", "CNA", "CORE", "DPU"}, NEW v \in SUBSET Low(32),
                    NEW r \in DOMAIN Registers, Registers[r].no \in UnitRegs[u]
             PROVE  /\ Key(MESA_REGCMD(Bits(Target[u]), v, Bits(Registers[r].no))) = Place(r)
                    /\ ValueOf(MESA_REGCMD(Bits(Target[u]), v, Bits(Registers[r].no))) = v
                    /\ Writes(MESA_REGCMD(Bits(Target[u]), v, Bits(Registers[r].no)))
                    /\ Place(r) \in Known
  OBVIOUS
<1>0. PICK no : no = Registers[r].no
  OBVIOUS
<1>1. u \in DOMAIN UnitRegs
  BY UnitNames
<1>2. Short(no)
  BY <1>0, <1>1, UnitNumbers, Zenon
<1>3. rkt_get_target(no) = Target[u]
  BY <1>0, <1>1, TargetFound, Zenon
<1>4. Place(r) = <<Bits(Target[u]), Bits(no)>>
  BY <1>0, <1>3, Zenon DEF Place
<1>5. Place(r) \in Known
  BY <1>0, <1>1, <1>4, KnownParts, Zenon
<1> QED
  BY <1>0, <1>2, <1>4, <1>5, MesaKey, ZenonT(60)

(* So it says the value of a register that is set, sent to any unit.       *)
LEMMA MesaSays ==
  \A u \in {"PC", "CNA", "CORE", "DPU"} : \A r \in Settings : \A W : W[r] \in SUBSET Low(32) =>
    Says(MESA_REGCMD(Bits(Target[u]), W[r], Bits(Registers[r].no)), W)
<1> SUFFICES ASSUME NEW u \in {"PC", "CNA", "CORE", "DPU"}, NEW r \in Settings, NEW W,
                    W[r] \in SUBSET Low(32)
             PROVE  Says(MESA_REGCMD(Bits(Target[u]), W[r], Bits(Registers[r].no)), W)
  BY Zenon
<1>2. PICK no : no = Registers[r].no
  OBVIOUS
<1>3. Short(no)
  BY <1>2, ShortSettings, Zenon
<1>4. PICK cmd : cmd = MESA_REGCMD(Bits(Target[u]), W[r], Bits(no))
  OBVIOUS
<1>5. Key(cmd) = <<Bits(Target[u]), Bits(no)>> /\ ValueOf(cmd) = W[r]
  BY <1>3, <1>4, MesaKey, ZenonT(60)
<1>6. u \in DOMAIN UnitRegs
  BY UnitNames
<1>7. ASSUME Key(cmd) \in Known PROVE Key(cmd) = Place(r)
  <2>1. no \in UnitRegs[u]
    BY <1>3, <1>5, <1>6, <1>7, KnownIs, Zenon
  <2>2. rkt_get_target(no) = Target[u]
    BY <1>6, <2>1, TargetFound, Zenon
  <2> QED
    BY <1>2, <1>5, <2>2, Zenon DEF Place
<1>8. Says(cmd, W)
  BY <1>5, <1>7, Zenon DEF Says
<1> QED
  BY <1>2, <1>4, <1>8, Zenon

(* And nothing of a register that the unit does not have.                  *)
LEMMA MesaSaysNothing ==
  \A u \in {"PC", "CNA", "CORE", "DPU"} : \A v \in SUBSET Low(32) : \A no, W :
    Short(no) /\ no \notin UnitRegs[u] =>
      Says(MESA_REGCMD(Bits(Target[u]), v, Bits(no)), W)
<1> SUFFICES ASSUME NEW u \in {"PC", "CNA", "CORE", "DPU"}, NEW v \in SUBSET Low(32),
                    NEW no, Short(no), no \notin UnitRegs[u], NEW W
             PROVE  Says(MESA_REGCMD(Bits(Target[u]), v, Bits(no)), W)
  BY Zenon
<1>1. PICK cmd : cmd = MESA_REGCMD(Bits(Target[u]), v, Bits(no))
  OBVIOUS
<1>2. Key(cmd) = <<Bits(Target[u]), Bits(no)>>
  BY <1>1, MesaKey, ZenonT(60)
<1>3. u \in DOMAIN UnitRegs
  BY UnitNames
<1>4. Key(cmd) \notin Known
  BY <1>2, <1>3, KnownIs, Zenon
<1> QED
  BY <1>1, <1>4, Zenon DEF Says

(* Nor is anything said with a negative int: its sign takes the target.    *)
LEMMA SpilledSays ==
  \A t \in SUBSET Low(16) : \A w \in SUBSET Low(32), b \in SUBSET Low(17) : \A W : 31 \in w =>
    Says(MESA_REGCMD(t, Uint64(w), b), W)
<1> SUFFICES ASSUME NEW t \in SUBSET Low(16), NEW w \in SUBSET Low(32),
                    NEW b \in SUBSET Low(17), NEW W, 31 \in w
             PROVE  Says(MESA_REGCMD(t, Uint64(w), b), W)
  BY Zenon
<1>1. PICK cmd : cmd = MESA_REGCMD(t, Uint64(w), b)
  OBVIOUS
<1>2. TargetOf(cmd) = Low(16)
  BY <1>1, NegativeTakesTarget
<1>3. Low(16) \ {0} \notin {{8}, {9}, {11}, {12}, {13}, {14}, {15}, {16}, {17}, {18}}
  <2>1. 1 \in Low(16) \ {0}
    BY DEF Low
  <2> QED
    BY <2>1
<1>4. Key(cmd) \notin Known
  BY <1>2, <1>3, KnownUnits, Zenon DEF Key
<1> QED
  BY <1>1, <1>4, Zenon DEF Says

-----------------------------------------------------------------------------
(* The numbers of the registers that Mesa's list writes.                   *)
LEMMA MesaNumbers ==
  /\ Registers["CNA_CONV_CON1"].no = \h100C /\ Registers["CNA_DATA_SIZE0"].no = \h1020
  /\ Registers["CNA_DATA_SIZE1"].no = \h1024 /\ Registers["CNA_WEIGHT_SIZE2"].no = \h1038
  /\ Registers["CNA_FEATURE_DATA_ADDR"].no = \h1070 /\ Registers["CNA_FC_CON2"].no = \h1074
<1>1. Registers["CNA_CONV_CON1"].no = \h100C
  BY InGroups, GroupNames DEF CnaConv, R
<1>2. /\ Registers["CNA_DATA_SIZE0"].no = \h1020 /\ Registers["CNA_DATA_SIZE1"].no = \h1024
      /\ Registers["CNA_WEIGHT_SIZE2"].no = \h1038
  BY InGroups, GroupNames DEF CnaSizes, R
<1>3. /\ Registers["CNA_FEATURE_DATA_ADDR"].no = \h1070 /\ Registers["CNA_FC_CON2"].no = \h1074
  BY InGroups, GroupNames DEF CnaFetch, R, Whole
<1> QED
  BY <1>1, <1>2, <1>3

(* The numbers Mesa's list and the full one have for the DPU and for no    *)
(* unit, as words.                                                         *)
LEMMA OtherBits ==
  /\ Bits(\h10008) = {3, 16}
  /\ Bits(\h10010) = {4, 16}
  /\ Bits(\h10018) = {3, 4, 16}
  /\ Bits(\h1001C) = {2, 3, 4, 16}
  /\ Bits(\h10) = {4}
  /\ Bits(\h18) = {3, 4}
  /\ Bits(\h1C) = {2, 3, 4}
<1>1. Bits(\h10008) = {3, 16}
  <2>1. \A i \in 0..30 : i \in Bits(\h10008) <=> (\h10008 \div Power[i]) % 2 = 1
    BY BitAt
  <2>2. \A i \in 0..30 : (\h10008 \div Power[i]) % 2 = 1 <=> i \in {3, 16}
    BY BitPlaces, PowerTable
  <2> QED
    BY <2>1, <2>2, SmallInRange
<1>2. Bits(\h10010) = {4, 16}
  <2>1. \A i \in 0..30 : i \in Bits(\h10010) <=> (\h10010 \div Power[i]) % 2 = 1
    BY BitAt
  <2>2. \A i \in 0..30 : (\h10010 \div Power[i]) % 2 = 1 <=> i \in {4, 16}
    BY BitPlaces, PowerTable
  <2> QED
    BY <2>1, <2>2, SmallInRange
<1>3. Bits(\h10018) = {3, 4, 16}
  <2>1. \A i \in 0..30 : i \in Bits(\h10018) <=> (\h10018 \div Power[i]) % 2 = 1
    BY BitAt
  <2>2. \A i \in 0..30 : (\h10018 \div Power[i]) % 2 = 1 <=> i \in {3, 4, 16}
    BY BitPlaces, PowerTable
  <2> QED
    BY <2>1, <2>2, SmallInRange
<1>4. Bits(\h1001C) = {2, 3, 4, 16}
  <2>1. \A i \in 0..30 : i \in Bits(\h1001C) <=> (\h1001C \div Power[i]) % 2 = 1
    BY BitAt
  <2>2. \A i \in 0..30 : (\h1001C \div Power[i]) % 2 = 1 <=> i \in {2, 3, 4, 16}
    BY BitPlaces, PowerTable
  <2> QED
    BY <2>1, <2>2, SmallInRange
<1>5. Bits(\h10) = {4}
  <2>1. \A i \in 0..30 : i \in Bits(\h10) <=> (\h10 \div Power[i]) % 2 = 1
    BY BitAt
  <2>2. \A i \in 0..30 : (\h10 \div Power[i]) % 2 = 1 <=> i \in {4}
    BY BitPlaces, PowerTable
  <2> QED
    BY <2>1, <2>2, SmallInRange
<1>6. Bits(\h18) = {3, 4}
  <2>1. \A i \in 0..30 : i \in Bits(\h18) <=> (\h18 \div Power[i]) % 2 = 1
    BY BitAt
  <2>2. \A i \in 0..30 : (\h18 \div Power[i]) % 2 = 1 <=> i \in {3, 4}
    BY BitPlaces, PowerTable
  <2> QED
    BY <2>1, <2>2, SmallInRange
<1>7. Bits(\h1C) = {2, 3, 4}
  <2>1. \A i \in 0..30 : i \in Bits(\h1C) <=> (\h1C \div Power[i]) % 2 = 1
    BY BitAt
  <2>2. \A i \in 0..30 : (\h1C \div Power[i]) % 2 = 1 <=> i \in {2, 3, 4}
    BY BitPlaces, PowerTable
  <2> QED
    BY <2>1, <2>2, SmallInRange
<1> QED
  BY <1>1, <1>2, <1>3, <1>4, <1>5, <1>6, <1>7

(* Keys that are not known: those of the two registers npu_hw.h marks as   *)
(* not documented, of the commands that name no unit, and of Mesa's        *)
(* commands for the DPU, whose numbers have a bit 16.                      *)
LongKeys == {<<{12}, {3}>>, <<{12}, {4}>>, <<{12}, {3, 4}>>, <<{12}, {2, 3, 4}>>}

(* The header has none of these registers.                                 *)
LEMMA NotKnown == \A key \in Undocumented \cup Raw \cup LongKeys : key \notin Known
<1>1. /\ {"CORE", "DPU"} \subseteq DOMAIN UnitRegs
      /\ Bits(Target["CORE"]) = {11} /\ Bits(Target["DPU"]) = {12}
  BY UnitNames, TargetBits
<1>2. <<Bits(Target["CORE"]), Bits(\h3030)>> \notin Known
  <2>1. PICK no : no = \h3030
    OBVIOUS
  <2>2. Short(no) /\ no \notin UnitRegs["CORE"]
    BY <2>1, UnitRanges DEF Short
  <2>3. <<Bits(Target["CORE"]), Bits(no)>> \notin Known
    BY <1>1, <2>2, KnownIs
  <2> QED
    BY <2>1, <2>3
<1>3. <<Bits(Target["DPU"]), Bits(\h40C4)>> \notin Known
  <2>1. PICK no : no = \h40C4
    OBVIOUS
  <2>2. Short(no) /\ no \notin UnitRegs["DPU"]
    <3>1. UnitRegs["DPU"] = DpuNumbers
      BY DEF UnitRegs
    <3>2. \A n \in Words(\h4000, \h4014) : n <= \h4014
      BY WordsBetween
    <3>3. \A n \in Words(\h4020, \h4024) : n <= \h4024
      BY WordsBetween
    <3>4. \A n \in Words(\h4030, \h4088) : n <= \h4088
      BY WordsBetween
    <3>5. \A n \in Words(\h4090, \h40AC) : n <= \h40AC
      BY WordsBetween
    <3>6. \A n \in Words(\h4100, \h412C) : n >= \h4100
      BY WordsBetween
    <3> QED
      BY <2>1, <3>1, <3>2, <3>3, <3>4, <3>5, <3>6 DEF DpuNumbers, Short
  <2>3. <<Bits(Target["DPU"]), Bits(no)>> \notin Known
    BY <1>1, <2>2, KnownIs
  <2> QED
    BY <2>1, <2>3
<1>4. \A key \in Raw : key \notin Known
  <2>1. Raw = {<<{6}, {}>>, <<{7}, {3}>>}
    <3>1. Bits(\h40) = {6} /\ Bits(\h80) = {7} /\ Bits(\h8) = {3}
      BY SomeBits
    <3> QED
      BY <3>1, Zenon DEF Raw
  <2> QED
    BY <2>1, KnownUnits
<1>5. \A key \in LongKeys : key \notin Known
  <2>1. ASSUME NEW no \in {\h8, \h10, \h18, \h1C}
        PROVE  <<{12}, Bits(no)>> \notin Known
    <3>1. Short(no) /\ no \notin UnitRegs["DPU"]
      BY UnitRanges DEF Short
    <3>2. <<Bits(Target["DPU"]), Bits(no)>> \notin Known
      BY <1>1, <3>1, KnownIs
    <3> QED
      BY <1>1, <3>2, Zenon
  <2>2. /\ Bits(\h8) = {3} /\ Bits(\h10) = {4} /\ Bits(\h18) = {3, 4} /\ Bits(\h1C) = {2, 3, 4}
    BY SomeBits, OtherBits
  <2>3. <<{12}, {3}>> \notin Known
    BY <2>1, <2>2
  <2>4. <<{12}, {4}>> \notin Known
    BY <2>1, <2>2
  <2>5. <<{12}, {3, 4}>> \notin Known
    BY <2>1, <2>2
  <2>6. <<{12}, {2, 3, 4}>> \notin Known
    BY <2>1, <2>2
  <2> QED
    BY <2>3, <2>4, <2>5, <2>6, Zenon DEF LongKeys
<1> QED
  BY <1>2, <1>3, <1>4, <1>5 DEF Undocumented

(* Where a command may go, by the generator: RegistersExist of one.        *)
Reaches(gen, cmd) ==
  Writes(cmd) =>
    \/ Key(cmd) \in Known
    \/ gen \in {"rk3588", "minimal_npu_test"} /\ Key(cmd) \in Undocumented \cup Raw
    \/ gen = "mesa" /\ Key(cmd)[1] = Bits(Target["DPU"])

(* A list of which each command says W.                                    *)
LEMMA ListSays ==
  \A s, S, W : Lists(s, S) /\ (\A cmd \in S : Says(cmd, W)) => AllSay(s, W)
BY DEF Lists, AllSay

-----------------------------------------------------------------------------
(* The rk3588 list.                                                        *)
RkWord(c) == [r \in Settings |-> Cut(Word(c, r), 32)]

(* It sends nothing to the PC's registers that are set.                    *)
LEMMA PcClear == \A c : RkWord(c)["PC_BASE_ADDRESS"] = {} /\ RkWord(c)["PC_REGISTER_AMOUNTS"] = {}
<1> TAKE c
<1>1. "PC_BASE_ADDRESS" \in Settings /\ "PC_REGISTER_AMOUNTS" \in Settings
  BY DEF Settings
<1>2. "PC_BASE_ADDRESS" \notin DOMAIN Sent(c) /\ "PC_REGISTER_AMOUNTS" \notin DOMAIN Sent(c)
  BY SentNames
<1>3. Word(c, "PC_BASE_ADDRESS") = {} /\ Word(c, "PC_REGISTER_AMOUNTS") = {}
  BY <1>2, WordIs
<1> QED
  BY <1>1, <1>3 DEF RkWord, Cut

(* The commands that enable the job: the third and the fourth name no unit.*)
LEMMA EnablingIs ==
  \A cmd \in Enabling :
    \/ ~Writes(cmd)
    \/ Key(cmd) = Place("PC_REGISTER_AMOUNTS") /\ ValueOf(cmd) = {}
    \/ Key(cmd) \in Raw
<1> DEFINE e1 == NPUOP(Bits(Rk3588!OP_NONE), {}, {})
<1> DEFINE e2 == Rk3588!Cmd(Rk3588!OP_REG_PC, "PC_REGISTER_AMOUNTS", {})
<1> DEFINE e3 == NPUOP(Bits(Rk3588!OP_40), {}, {})
<1> DEFINE e4 == Rk3588!Cmd(Rk3588!OP_ENABLE, "PC_OPERATION_ENABLE", Bits(Rk3588!PC_ENABLES))
<1>1. Enabling = {e1, e2, e3, e4}
  <2>1. Rk3588!EnableCommands = <<e1, e2, e3, e4>>
    BY SameWords, Zenon DEF Rk3588!EnableCommands
  <2>2. Lists(<<e1, e2, e3, e4>>, {e1, e2, e3, e4})
    BY TuplesList, Zenon
  <2> QED
    BY <2>1, <2>2, Zenon DEF Enabling, Lists
<1>2. ~Writes(e1)
  <2>1. TargetOf(e1) = Cut(Bits(0), 16)
    BY CommandCut, BitsAreWords DEF Rk3588!OP_NONE, IsWord
  <2>2. Cut(Bits(0), 16) = {}
    BY SomeBits DEF Cut
  <2> QED
    BY <2>1, <2>2 DEF Writes
<1>3. Key(e2) = Place("PC_REGISTER_AMOUNTS") /\ ValueOf(e2) = {}
  <2>1. "PC_REGISTER_AMOUNTS" \in DOMAIN Hw /\ Hw["PC_REGISTER_AMOUNTS"] = \h14
    BY DEF Hw, Rk3588!HwRegisters
  <2>2. IsWord({})
    BY DEF IsWord
  <2>3. /\ TargetOf(e2) = Cut(Bits(\h101), 16) /\ ValueOf(e2) = Cut({}, 32)
        /\ RegOf(e2) = Bits(\h14)
    BY <2>1, <2>2, CmdParts DEF Rk3588!OP_REG_PC
  <2>4. Bits(\h101) = {0, 8} /\ Bits(\h100) = {8}
    BY SomeBits
  <2>5. TargetOf(e2) \ {0} = Bits(\h100)
    BY <2>3, <2>4 DEF Cut, Low
  <2>6. Place("PC_REGISTER_AMOUNTS") = <<Bits(\h100), Bits(\h14)>>
    BY OtherTargets DEF Place
  <2> QED
    BY <2>3, <2>5, <2>6 DEF Key, Cut
<1>4. Key(e3) \in Raw
  <2>1. TargetOf(e3) = Cut(Bits(\h41), 16) /\ RegOf(e3) = Cut({}, 16)
    BY CommandCut, BitsAreWords DEF Rk3588!OP_40, IsWord
  <2>2. Bits(\h41) = {0, 6} /\ Bits(\h40) = {6}
    BY SomeBits
  <2>3. TargetOf(e3) \ {0} = Bits(\h40) /\ RegOf(e3) = {}
    BY <2>1, <2>2 DEF Cut, Low
  <2> QED
    BY <2>3 DEF Key, Raw
<1>5. Key(e4) \in Raw
  <2>1. "PC_OPERATION_ENABLE" \in DOMAIN Hw /\ Hw["PC_OPERATION_ENABLE"] = \h8
    BY DEF Hw, Rk3588!HwRegisters
  <2>2. TargetOf(e4) = Cut(Bits(\h81), 16) /\ RegOf(e4) = Bits(\h8)
    BY <2>1, BitsAreWords, CmdParts DEF Rk3588!OP_ENABLE
  <2>3. Bits(\h81) = {0, 7} /\ Bits(\h80) = {7}
    BY SomeBits
  <2>4. TargetOf(e4) \ {0} = Bits(\h80)
    BY <2>2, <2>3 DEF Cut, Low
  <2> QED
    BY <2>2, <2>4 DEF Key, Raw
<1> HIDE DEF e1, e2, e3, e4
<1> QED
  BY <1>1, <1>2, <1>3, <1>4, <1>5, Zenon

(* The commands for the registers that are not documented.                 *)
LEMMA UndocumentedSent ==
  \A c : \A r \in {"CORE_3030", "DPU_40C4"} : Key(SentCmd(c, r)) \in Undocumented
<1> TAKE c
<1>1. Key(SentCmd(c, "CORE_3030")) = <<Bits(Target["CORE"]), Bits(\h3030)>>
  <2>1. HwName("CORE_3030") = "CORE_3030"
    BY DEF HwName
  <2>2. "CORE_3030" \in DOMAIN Hw /\ Hw["CORE_3030"] = \h3030
    BY DEF Hw, Rk3588!HwRegisters
  <2>3. Op("CORE_3030") = \h801
    BY Ops DEF Rk3588!OP_REG_CORE
  <2>4. /\ TargetOf(SentCmd(c, "CORE_3030")) = Cut(Bits(\h801), 16)
        /\ RegOf(SentCmd(c, "CORE_3030")) = Bits(\h3030)
    BY <2>1, <2>2, <2>3, SentWords, CmdParts DEF SentCmd
  <2>5. Cut(Bits(\h801), 16) \ {0} = {11}
    BY SomeBits DEF Cut, Low
  <2> QED
    BY <2>4, <2>5, TargetBits DEF Key
<1>2. Key(SentCmd(c, "DPU_40C4")) = <<Bits(Target["DPU"]), Bits(\h40C4)>>
  <2>1. HwName("DPU_40C4") = "DPU_40C4"
    BY DEF HwName
  <2>2. "DPU_40C4" \in DOMAIN Hw /\ Hw["DPU_40C4"] = \h40C4
    BY DEF Hw, Rk3588!HwRegisters
  <2>3. Op("DPU_40C4") = \h1001
    BY Ops DEF Rk3588!OP_REG_DPU
  <2>4. /\ TargetOf(SentCmd(c, "DPU_40C4")) = Cut(Bits(\h1001), 16)
        /\ RegOf(SentCmd(c, "DPU_40C4")) = Bits(\h40C4)
    BY <2>1, <2>2, <2>3, SentWords, CmdParts DEF SentCmd
  <2>5. Cut(Bits(\h1001), 16) \ {0} = {12}
    BY SomeBits DEF Cut, Low
  <2> QED
    BY <2>4, <2>5, TargetBits DEF Key
<1> QED
  BY <1>1, <1>2 DEF Undocumented

(* So the list says RkWord, and goes to registers that exist.              *)
LEMMA TaskSays ==
  \A c : /\ AllSay(Rk3588!gen_matmul_task(c), RkWord(c))
         /\ \A cmd \in CommandsIn(Rk3588!gen_matmul_task(c)) : Reaches("rk3588", cmd)
<1> TAKE c
<1>1. ASSUME NEW r \in Config
      PROVE  Says(SentCmd(c, r), RkWord(c)) /\ Reaches("rk3588", SentCmd(c, r))
  <2>1. r \in Settings
    BY DEF Settings
  <2>2. Key(SentCmd(c, r)) = Place(r) /\ ValueOf(SentCmd(c, r)) = RkWord(c)[r]
    BY <2>1, SentLands DEF RkWord
  <2>3. Place(r) \in Known
    BY <2>1, SettingKeys
  <2> QED
    BY <2>1, <2>2, <2>3, Zenon DEF Says, Reaches
<1>2. ASSUME NEW r \in {"CORE_3030", "DPU_40C4"}
      PROVE  Says(SentCmd(c, r), RkWord(c)) /\ Reaches("rk3588", SentCmd(c, r))
  <2>1. Key(SentCmd(c, r)) \in Undocumented
    BY UndocumentedSent
  <2> QED
    BY <2>1, NotKnown, Zenon DEF Says, Reaches
<1>3. ASSUME NEW cmd \in Enabling
      PROVE  Says(cmd, RkWord(c)) /\ Reaches("rk3588", cmd)
  <2>1. CASE ~Writes(cmd)
    BY <2>1, Zenon DEF Says, Reaches
  <2>2. CASE Key(cmd) = Place("PC_REGISTER_AMOUNTS") /\ ValueOf(cmd) = {}
    <3>1. "PC_REGISTER_AMOUNTS" \in Settings
      BY DEF Settings
    <3>2. Place("PC_REGISTER_AMOUNTS") \in Known
      BY <3>1, SettingKeys
    <3>3. ValueOf(cmd) = RkWord(c)["PC_REGISTER_AMOUNTS"]
      BY <2>2, PcClear, Zenon
    <3> QED
      BY <2>2, <3>1, <3>2, <3>3, Zenon DEF Says, Reaches
  <2>3. CASE Key(cmd) \in Raw
    BY <2>3, NotKnown, Zenon DEF Says, Reaches
  <2> QED
    BY <2>1, <2>2, <2>3, EnablingIs, Zenon
<1>4. CommandsIn(Rk3588!gen_matmul_task(c)) = {SentCmd(c, r) : r \in TaskRegs} \cup Enabling
  BY TaskCovers, Zenon
<1>5. ASSUME NEW cmd \in CommandsIn(Rk3588!gen_matmul_task(c))
      PROVE  Says(cmd, RkWord(c)) /\ Reaches("rk3588", cmd)
  <2>1. CASE cmd \in Enabling
    BY <1>3, <2>1
  <2>2. CASE cmd \notin Enabling
    <3>1. PICK r \in TaskRegs : cmd = SentCmd(c, r)
      BY <1>4, <1>5, <2>2
    <3>2. r \in Config \/ r \in {"CORE_3030", "DPU_40C4"}
      BY DEF TaskRegs
    <3> QED
      BY <1>1, <1>2, <3>1, <3>2
  <2> QED
    BY <2>1, <2>2
<1>6. IsSeq(Rk3588!gen_matmul_task(c))
  BY TaskCovers, Zenon
<1> QED
  BY <1>5, <1>6, Zenon DEF AllSay

-----------------------------------------------------------------------------
(* The lists written with Mesa's macro.                                    *)
Lands(cmd, r, v) ==
  Key(cmd) = Place(r) /\ ValueOf(cmd) = v /\ Writes(cmd) /\ Place(r) \in Known

(* A command that lands with the table's value says the table.             *)
LEMMA LandsSays ==
  \A cmd, r, v, W :
    Lands(cmd, r, v) /\ (Place(r) \in Enables \/ (r \in Settings /\ W[r] = v)) => Says(cmd, W)
BY Zenon DEF Lands, Says

(* A command that lands goes to a unit with the register.                  *)
LEMMA LandsReaches == \A cmd, r, v, gen : Lands(cmd, r, v) => Reaches(gen, cmd)
BY Zenon DEF Lands, Reaches

EnableRegs == {"PC_OPERATION_ENABLE", "CNA_OPERATION_ENABLE", "DPU_OPERATION_ENABLE"}

(* They are at the places of Enables.                                      *)
LEMMA EnablePlaces == \A r \in EnableRegs : Place(r) \in Enables
BY DEF EnableRegs, Enables

(* The macro is the same in each file.                                     *)
LEMMA MesaSame ==
  /\ \A v, reg : Mesa!Pc(v, reg) = MESA_REGCMD(Bits(Target["PC"]), v, Bits(reg))
  /\ \A v, reg : Mesa!Cna(v, reg) = MESA_REGCMD(Bits(Target["CNA"]), v, Bits(reg))
  /\ \A v, reg : Mesa!Dpu(v, reg) = MESA_REGCMD(Bits(Target["DPU"]), v, Bits(reg))
  /\ \A n : Mesa!Bits(n) = Bits(n)
  /\ \A w, n : Mesa!Shl(w, n) = Shl(w, n)
<1>1. /\ Mesa!TARGET_PC = Target["PC"] /\ Mesa!TARGET_CNA = Target["CNA"]
      /\ Mesa!TARGET_DPU = Target["DPU"]
  BY DEF Target, Mesa!TARGET_PC, Mesa!TARGET_CNA, Mesa!TARGET_DPU
<1>2. /\ \A n : Mesa!Bits(n) = Bits(n)
      /\ \A w, n : Mesa!Shl(w, n) = Shl(w, n)
      /\ \A n : Mesa!Low(n) = Low(n)
  BY Zenon DEF Mesa!Bits, Bits, Mesa!Shl, Shl, Mesa!Low, Low
<1>3. \A t, v, r : Mesa!MESA_REGCMD(t, v, r) = MESA_REGCMD(t, v, r)
  BY <1>2, Zenon DEF Mesa!MESA_REGCMD, MESA_REGCMD
<1>4. /\ \A v, reg : Mesa!Pc(v, reg) = MESA_REGCMD(Bits(Target["PC"]), v, Bits(reg))
      /\ \A v, reg : Mesa!Cna(v, reg) = MESA_REGCMD(Bits(Target["CNA"]), v, Bits(reg))
      /\ \A v, reg : Mesa!Dpu(v, reg) = MESA_REGCMD(Bits(Target["DPU"]), v, Bits(reg))
  BY <1>1, <1>2, <1>3, Zenon DEF Mesa!Pc, Mesa!Cna, Mesa!Dpu
<1> QED
  BY <1>2, <1>4, Zenon

(* The small programs' commands are Mesa's macro or NPUOP.                 *)
LEMMA SmallSame ==
  /\ \A v, reg : Small!Pc(v, reg) = MESA_REGCMD(Bits(Target["PC"]), Bits(v), Bits(reg))
  /\ \A v, reg : Small!Cna(v, reg) = MESA_REGCMD(Bits(Target["CNA"]), Bits(v), Bits(reg))
  /\ \A op, v, reg : Small!Hw(op, v, reg) = NPUOP(Bits(op), Bits(v), Bits(reg))
<1>1. Target["PC"] = \h100 /\ Target["CNA"] = \h200
  BY DEF Target
<1>2. /\ \A n : Small!Bits(n) = Bits(n)
      /\ \A w, n : Small!Shl(w, n) = Shl(w, n)
      /\ \A n : Small!Low(n) = Low(n)
  BY Zenon DEF Small!Bits, Bits, Small!Shl, Shl, Small!Low, Low
<1>3. \A t, v, r : Small!MESA_REGCMD(t, v, r) = MESA_REGCMD(t, v, r)
  BY <1>2, Zenon DEF Small!MESA_REGCMD, MESA_REGCMD
<1>4. \A t, v, r : Small!NPUOP(t, v, r) = NPUOP(t, v, r)
  BY <1>2, Zenon DEF Small!NPUOP, NPUOP
<1>5. \A v, reg : Small!Pc(v, reg) = MESA_REGCMD(Bits(Target["PC"]), Bits(v), Bits(reg))
  BY <1>1, <1>2, <1>3 DEF Small!Pc
<1>6. \A v, reg : Small!Cna(v, reg) = MESA_REGCMD(Bits(Target["CNA"]), Bits(v), Bits(reg))
  BY <1>1, <1>2, <1>3 DEF Small!Cna
<1>7. \A op, v, reg : Small!Hw(op, v, reg) = NPUOP(Bits(op), Bits(v), Bits(reg))
  BY <1>2, <1>4, Zenon DEF Small!Hw
<1> QED
  BY <1>5, <1>6, <1>7, Zenon

(* Where commands for the PC and the CNA land.                             *)
CnaMesa == {"CNA_CONV_CON1", "CNA_DATA_SIZE0", "CNA_DATA_SIZE1", "CNA_WEIGHT_SIZE2",
            "CNA_FEATURE_DATA_ADDR", "CNA_FC_CON2", "CNA_OPERATION_ENABLE"}
PcMesa == {"PC_BASE_ADDRESS", "PC_REGISTER_AMOUNTS", "PC_OPERATION_ENABLE"}

(* A command to the PC lands.                                              *)
LEMMA PcLands ==
  \A r \in PcMesa : \A v \in SUBSET Low(32) :
    Lands(MESA_REGCMD(Bits(Target["PC"]), v, Bits(Registers[r].no)), r, v)
<1>1. \A r \in PcMesa : r \in DOMAIN Registers /\ Registers[r].no \in UnitRegs["PC"]
  <2>1. UnitRegs["PC"] = PcNumbers
    BY DEF UnitRegs
  <2> QED
    BY <2>1, UnitHas, GroupNames, OtherTargets DEF PcMesa
<1> QED
  BY <1>1, MesaLands, Zenon DEF Lands

(* A command to the CNA lands.                                             *)
LEMMA CnaLands ==
  \A r \in CnaMesa : \A v \in SUBSET Low(32) :
    Lands(MESA_REGCMD(Bits(Target["CNA"]), v, Bits(Registers[r].no)), r, v)
<1>1. \A r \in CnaMesa : r \in DOMAIN Registers /\ Registers[r].no \in UnitRegs["CNA"]
  <2>1. UnitRegs["CNA"] = CnaNumbers
    BY DEF UnitRegs
  <2>2. \A r \in CnaMesa : r \in CnaConfig \/ r = "CNA_OPERATION_ENABLE"
    BY CnaNames DEF CnaMesa
  <2>3. Registers["CNA_OPERATION_ENABLE"].no \in CnaNumbers
    BY UnitHas, GroupNames
  <2> QED
    BY <2>1, <2>2, <2>3, ConfigTargets, OtherTargets
<1> QED
  BY <1>1, MesaLands, Zenon DEF Lands

(* Mesa's commands for the DPU go to numbers that the DPU does not have.   *)
LongNumbers == {Mesa!REG_DPU_OPERATION_ENABLE, Mesa!REG_DPU_DST_BASE_ADDR_LOW,
                Mesa!REG_DPU_DST_LINE_STRIDE, Mesa!REG_DPU_DST_SURFACE_STRIDE}

(* A command to one of these names none that the header knows, and the DPU.*)
LEMMA DpuIsLong ==
  \A reg \in LongNumbers : \A v \in SUBSET Low(32) :
    Key(Mesa!Dpu(v, reg)) \in LongKeys /\ Key(Mesa!Dpu(v, reg))[1] = Bits(Target["DPU"])
<1>1. Bits(Target["DPU"]) = {12}
  BY TargetBits
<1>2. \A reg \in LongNumbers : \E b \in {{3}, {4}, {3, 4}, {2, 3, 4}} : Bits(reg) = b \cup {16}
  <2>1. {3} \cup {16} = {3, 16} /\ {4} \cup {16} = {4, 16}
        /\ {3, 4} \cup {16} = {3, 4, 16} /\ {2, 3, 4} \cup {16} = {2, 3, 4, 16}
    OBVIOUS
  <2>2. /\ Bits(Mesa!REG_DPU_OPERATION_ENABLE) = {3} \cup {16}
        /\ Bits(Mesa!REG_DPU_DST_BASE_ADDR_LOW) = {4} \cup {16}
        /\ Bits(Mesa!REG_DPU_DST_LINE_STRIDE) = {3, 4} \cup {16}
        /\ Bits(Mesa!REG_DPU_DST_SURFACE_STRIDE) = {2, 3, 4} \cup {16}
    <3>1. /\ Mesa!REG_DPU_OPERATION_ENABLE = \h10008 /\ Mesa!REG_DPU_DST_BASE_ADDR_LOW = \h10010
          /\ Mesa!REG_DPU_DST_LINE_STRIDE = \h10018 /\ Mesa!REG_DPU_DST_SURFACE_STRIDE = \h1001C
      BY DEF Mesa!REG_DPU_OPERATION_ENABLE, Mesa!REG_DPU_DST_BASE_ADDR_LOW,
             Mesa!REG_DPU_DST_LINE_STRIDE, Mesa!REG_DPU_DST_SURFACE_STRIDE
    <3> QED
      BY <2>1, <3>1, OtherBits
  <2> QED
    BY <2>2, Zenon DEF LongNumbers
<1>3. \A b \in {{3}, {4}, {3, 4}, {2, 3, 4}} : b \in SUBSET Low(16) /\ <<{12}, b>> \in LongKeys
  <2>1. \A b \in {{3}, {4}, {3, 4}, {2, 3, 4}} : b \in SUBSET Low(16)
    BY DEF Low
  <2>2. \A b \in {{3}, {4}, {3, 4}, {2, 3, 4}} : <<{12}, b>> \in LongKeys
    BY Zenon DEF LongKeys
  <2> QED
    BY <2>1, <2>2, Zenon
<1>4. {12} \in SUBSET Low(16) /\ {12} # {} /\ {12} \ {0} = {12}
  BY DEF Low
<1> SUFFICES ASSUME NEW reg \in LongNumbers, NEW v \in SUBSET Low(32)
             PROVE  /\ Key(Mesa!Dpu(v, reg)) \in LongKeys
                    /\ Key(Mesa!Dpu(v, reg))[1] = Bits(Target["DPU"])
  BY Zenon
<1>5. PICK b \in {{3}, {4}, {3, 4}, {2, 3, 4}} : Bits(reg) = b \cup {16}
  BY <1>2
<1>6. PICK cmd : cmd = Mesa!Dpu(v, reg)
  OBVIOUS
<1>7. cmd = MESA_REGCMD({12}, v, b \cup {16})
  BY <1>1, <1>5, <1>6, MesaSame, Zenon
<1>8. b \in SUBSET Low(16) /\ <<{12}, b>> \in LongKeys
  BY <1>3, Zenon
<1>9. Key(cmd) = <<{12} \ {0}, b>>
  BY <1>4, <1>7, <1>8, LongParts, Zenon
<1>10. Key(cmd) = <<{12}, b>>
  BY <1>4, <1>9, Zenon
<1>11. Key(cmd)[1] = {12}
  BY <1>10
<1> QED
  BY <1>1, <1>6, <1>8, <1>10, <1>11, Zenon

(* A command with a long number names nothing that the header knows.       *)
LEMMA LongSays ==
  \A reg \in LongNumbers : \A v \in SUBSET Low(32) : \A W :
    Says(Mesa!Dpu(v, reg), W) /\ Reaches("mesa", Mesa!Dpu(v, reg))
BY DpuIsLong, NotKnown, Zenon DEF Says, Reaches

(* A number of one has 17 bits.                                            *)
LEMMA LongBits == \A reg \in LongNumbers : Bits(reg) \in SUBSET Low(17)
<1>1. /\ Bits(\h10008) = {3, 16} /\ Bits(\h10010) = {4, 16}
      /\ Bits(\h10018) = {3, 4, 16} /\ Bits(\h1001C) = {2, 3, 4, 16}
  BY OtherBits
<1>2. \A x \in {{3, 16}, {4, 16}, {3, 4, 16}, {2, 3, 4, 16}} : x \in SUBSET Low(17)
  BY DEF Low
<1>3. LongNumbers = {\h10008, \h10010, \h10018, \h1001C}
  BY DEF LongNumbers, Mesa!REG_DPU_OPERATION_ENABLE, Mesa!REG_DPU_DST_BASE_ADDR_LOW,
         Mesa!REG_DPU_DST_LINE_STRIDE, Mesa!REG_DPU_DST_SURFACE_STRIDE
<1> QED
  BY <1>1, <1>2, <1>3

(* With an int it names the DPU only if the int is not negative.           *)
LEMMA LongIntSays ==
  \A reg \in LongNumbers : \A w \in SUBSET Low(32) : \A W :
    /\ Says(Mesa!Dpu(Uint64(w), reg), W)
    /\ 31 \notin w => Reaches("mesa", Mesa!Dpu(Uint64(w), reg))
<1> SUFFICES ASSUME NEW reg \in LongNumbers, NEW w \in SUBSET Low(32), NEW W
             PROVE  /\ Says(Mesa!Dpu(Uint64(w), reg), W)
                    /\ 31 \notin w => Reaches("mesa", Mesa!Dpu(Uint64(w), reg))
  BY Zenon
<1>1. CASE 31 \notin w
  <2>1. Uint64(w) = w
    BY <1>1, NotNegative, Zenon
  <2> QED
    BY <2>1, LongSays, Zenon
<1>2. CASE 31 \in w
  <2>1. Bits(reg) \in SUBSET Low(17)
    BY LongBits, Zenon
  <2>2. Bits(Target["DPU"]) \in SUBSET Low(16)
    BY TargetBits DEF Low
  <2>3. Mesa!Dpu(Uint64(w), reg) = MESA_REGCMD(Bits(Target["DPU"]), Uint64(w), Bits(reg))
    BY MesaSame, Zenon
  <2> QED
    BY <1>2, <2>1, <2>2, <2>3, SpilledSays, Zenon
<1> QED
  BY <1>1, <1>2, Zenon

-----------------------------------------------------------------------------
(* Mesa's list for fp16.                                                   *)
MesaWord(c) ==
  [r \in Settings |->
     CASE r = "CNA_CONV_CON1" -> Mesa!Precision
       [] r = "CNA_DATA_SIZE0" -> Mesa!DataSize0(c)
       [] r = "CNA_DATA_SIZE1" -> Bits(c.k)
       [] r = "CNA_WEIGHT_SIZE2" -> Mesa!WeightSize2(c)
       [] r = "CNA_FEATURE_DATA_ADDR" -> InputDma
       [] r = "CNA_FC_CON2" -> WeightsDma
       [] OTHER -> {}]

(* The words of Mesa's list.                                               *)
LEMMA MesaWords ==
  \A c : /\ MesaWord(c)["CNA_CONV_CON1"] = Mesa!Precision
         /\ MesaWord(c)["CNA_DATA_SIZE0"] = Mesa!DataSize0(c)
         /\ MesaWord(c)["CNA_DATA_SIZE1"] = Bits(c.k)
         /\ MesaWord(c)["CNA_WEIGHT_SIZE2"] = Mesa!WeightSize2(c)
         /\ MesaWord(c)["CNA_FEATURE_DATA_ADDR"] = InputDma
         /\ MesaWord(c)["CNA_FC_CON2"] = WeightsDma
         /\ MesaWord(c)["PC_BASE_ADDRESS"] = {} /\ MesaWord(c)["PC_REGISTER_AMOUNTS"] = {}
<1>1. {"CNA_CONV_CON1", "CNA_DATA_SIZE0", "CNA_DATA_SIZE1", "CNA_WEIGHT_SIZE2",
       "CNA_FEATURE_DATA_ADDR", "CNA_FC_CON2", "PC_BASE_ADDRESS", "PC_REGISTER_AMOUNTS"}
        \subseteq Settings
  BY CnaNames DEF Settings, Config
<1> QED
  BY <1>1 DEF MesaWord

(* Each of them fits 32 bits.                                              *)
LEMMA MesaWordsFit ==
  \A c : /\ Mesa!Precision \in SUBSET Low(32) /\ Mesa!DataSize0(c) \in SUBSET Low(32)
         /\ Mesa!WeightSize2(c) \in SUBSET Low(32)
         /\ \A n : Bits(n) \in SUBSET Low(32) /\ Mesa!Bits(n) \in SUBSET Low(32)
         /\ InputDma \in SUBSET Low(32) /\ WeightsDma \in SUBSET Low(32)
         /\ OutputDma \in SUBSET Low(32) /\ {} \in SUBSET Low(32)
<1> TAKE c
<1>1. \A n : Bits(n) \in SUBSET Low(32) /\ Mesa!Bits(n) \in SUBSET Low(32)
  BY NumberWords, MesaSame, Zenon
<1>2. \A i \in {4, 7, 16, 24} : Mesa!Shl(Mesa!Bits(1), i) \in SUBSET Low(32)
  <2>1. \A i \in {4, 7, 16, 24} : Shl({0}, i) \in SUBSET Low(32)
    BY DEF Shl, Low
  <2>2. Bits(1) = {0}
    BY SomeBits
  <2> QED
    BY <2>1, <2>2, MesaSame, Zenon
<1>3. \A a, b : a \in SUBSET Low(32) /\ b \in SUBSET Low(32) => a \cup b \in SUBSET Low(32)
  OBVIOUS
<1>4. Mesa!Precision \in SUBSET Low(32)
  BY <1>2, <1>3, Zenon DEF Mesa!Precision
<1>5. Mesa!DataSize0(c) \in SUBSET Low(32)
  BY <1>1, <1>2, <1>3, ZenonT(60) DEF Mesa!DataSize0
<1>6. Mesa!WeightSize2(c) \in SUBSET Low(32)
  <2>1. Mesa!Bits(c.n) \cup Mesa!Shl(Mesa!Bits(1), 16) \in SUBSET Low(32)
    BY <1>1, <1>2, <1>3, ZenonT(60)
  <2> QED
    BY <1>2, <1>3, <2>1, Zenon DEF Mesa!WeightSize2
<1>7. /\ InputDma \in SUBSET Low(32) /\ WeightsDma \in SUBSET Low(32)
      /\ OutputDma \in SUBSET Low(32) /\ {} \in SUBSET Low(32)
  BY AddressAssumption
<1> QED
  BY <1>1, <1>4, <1>5, <1>6, <1>7, Zenon

(* The numbers are those of the header.                                    *)
LEMMA MesaRegs ==
  /\ Mesa!REG_PC_OPERATION_ENABLE = Registers["PC_OPERATION_ENABLE"].no
  /\ Mesa!REG_PC_BASE_ADDRESS = Registers["PC_BASE_ADDRESS"].no
  /\ Mesa!REG_PC_REGISTER_AMOUNTS = Registers["PC_REGISTER_AMOUNTS"].no
  /\ Mesa!REG_CNA_OPERATION_ENABLE = Registers["CNA_OPERATION_ENABLE"].no
  /\ Mesa!REG_CNA_CONV_CON1 = Registers["CNA_CONV_CON1"].no
  /\ Mesa!REG_CNA_DATA_SIZE0 = Registers["CNA_DATA_SIZE0"].no
  /\ Mesa!REG_CNA_DATA_SIZE1 = Registers["CNA_DATA_SIZE1"].no
  /\ Mesa!REG_CNA_WEIGHT_SIZE2 = Registers["CNA_WEIGHT_SIZE2"].no
  /\ Mesa!REG_CNA_FEATURE_DATA_ADDR = Registers["CNA_FEATURE_DATA_ADDR"].no
  /\ Mesa!REG_CNA_WEIGHT_DATA_ADDR = Registers["CNA_FC_CON2"].no
BY OtherTargets, MesaNumbers
   DEF Mesa!REG_PC_OPERATION_ENABLE, Mesa!REG_PC_BASE_ADDRESS, Mesa!REG_PC_REGISTER_AMOUNTS,
       Mesa!REG_CNA_OPERATION_ENABLE, Mesa!REG_CNA_CONV_CON1, Mesa!REG_CNA_DATA_SIZE0,
       Mesa!REG_CNA_DATA_SIZE1, Mesa!REG_CNA_WEIGHT_SIZE2, Mesa!REG_CNA_FEATURE_DATA_ADDR,
       Mesa!REG_CNA_WEIGHT_DATA_ADDR

(* Where its commands for the PC and the CNA land.                         *)
LEMMA MesaCommandsLand ==
  /\ \A v \in SUBSET Low(32) :
       /\ Lands(Mesa!Pc(v, Mesa!REG_PC_BASE_ADDRESS), "PC_BASE_ADDRESS", v)
       /\ Lands(Mesa!Pc(v, Mesa!REG_PC_REGISTER_AMOUNTS), "PC_REGISTER_AMOUNTS", v)
       /\ Lands(Mesa!Pc(v, Mesa!REG_PC_OPERATION_ENABLE), "PC_OPERATION_ENABLE", v)
  /\ \A v \in SUBSET Low(32) :
       /\ Lands(Mesa!Cna(v, Mesa!REG_CNA_CONV_CON1), "CNA_CONV_CON1", v)
       /\ Lands(Mesa!Cna(v, Mesa!REG_CNA_DATA_SIZE0), "CNA_DATA_SIZE0", v)
       /\ Lands(Mesa!Cna(v, Mesa!REG_CNA_DATA_SIZE1), "CNA_DATA_SIZE1", v)
       /\ Lands(Mesa!Cna(v, Mesa!REG_CNA_WEIGHT_SIZE2), "CNA_WEIGHT_SIZE2", v)
       /\ Lands(Mesa!Cna(v, Mesa!REG_CNA_FEATURE_DATA_ADDR), "CNA_FEATURE_DATA_ADDR", v)
       /\ Lands(Mesa!Cna(v, Mesa!REG_CNA_WEIGHT_DATA_ADDR), "CNA_FC_CON2", v)
       /\ Lands(Mesa!Cna(v, Mesa!REG_CNA_OPERATION_ENABLE), "CNA_OPERATION_ENABLE", v)
<1>1. \A r \in PcMesa : \A v \in SUBSET Low(32) : Lands(Mesa!Pc(v, Registers[r].no), r, v)
  BY PcLands, MesaSame, Zenon
<1>2. \A r \in CnaMesa : \A v \in SUBSET Low(32) : Lands(Mesa!Cna(v, Registers[r].no), r, v)
  BY CnaLands, MesaSame, Zenon
<1>3. {"PC_BASE_ADDRESS", "PC_REGISTER_AMOUNTS", "PC_OPERATION_ENABLE"} \subseteq PcMesa
  BY DEF PcMesa
<1>4. {"CNA_CONV_CON1", "CNA_DATA_SIZE0", "CNA_DATA_SIZE1", "CNA_WEIGHT_SIZE2",
       "CNA_FEATURE_DATA_ADDR", "CNA_FC_CON2", "CNA_OPERATION_ENABLE"} \subseteq CnaMesa
  BY DEF CnaMesa
<1>5. \A v \in SUBSET Low(32) :
       /\ Lands(Mesa!Pc(v, Mesa!REG_PC_BASE_ADDRESS), "PC_BASE_ADDRESS", v)
       /\ Lands(Mesa!Pc(v, Mesa!REG_PC_REGISTER_AMOUNTS), "PC_REGISTER_AMOUNTS", v)
       /\ Lands(Mesa!Pc(v, Mesa!REG_PC_OPERATION_ENABLE), "PC_OPERATION_ENABLE", v)
  BY <1>1, <1>3, MesaRegs, Zenon
<1>6. \A v \in SUBSET Low(32) :
       /\ Lands(Mesa!Cna(v, Mesa!REG_CNA_CONV_CON1), "CNA_CONV_CON1", v)
       /\ Lands(Mesa!Cna(v, Mesa!REG_CNA_DATA_SIZE0), "CNA_DATA_SIZE0", v)
       /\ Lands(Mesa!Cna(v, Mesa!REG_CNA_DATA_SIZE1), "CNA_DATA_SIZE1", v)
       /\ Lands(Mesa!Cna(v, Mesa!REG_CNA_WEIGHT_SIZE2), "CNA_WEIGHT_SIZE2", v)
       /\ Lands(Mesa!Cna(v, Mesa!REG_CNA_FEATURE_DATA_ADDR), "CNA_FEATURE_DATA_ADDR", v)
       /\ Lands(Mesa!Cna(v, Mesa!REG_CNA_WEIGHT_DATA_ADDR), "CNA_FC_CON2", v)
       /\ Lands(Mesa!Cna(v, Mesa!REG_CNA_OPERATION_ENABLE), "CNA_OPERATION_ENABLE", v)
  BY <1>2, <1>4, MesaRegs, Zenon
<1> QED
  BY <1>5, <1>6, Zenon

(* Neither of the two strides Mesa's list sends is negative as an int.     *)
StridesPositive(c) == 31 \notin Bits(c.n * 2) /\ 31 \notin Twice(c.m * c.n)

(* So its commands say MesaWord, and reach a unit if no stride is negative.*)
LEMMA MesaListSays ==
  \A c : /\ AllSay(Mesa!gen_matmul_fp16(c), MesaWord(c))
         /\ StridesPositive(c) =>
              \A cmd \in CommandsIn(Mesa!gen_matmul_fp16(c)) : Reaches("mesa", cmd)
<1> TAKE c
<1> DEFINE W == MesaWord(c)
<1> DEFINE e1 == Mesa!Pc({}, Mesa!REG_PC_BASE_ADDRESS)
<1> DEFINE e2 == Mesa!Pc({}, Mesa!REG_PC_REGISTER_AMOUNTS)
<1> DEFINE e3 == Mesa!Cna(Mesa!Precision, Mesa!REG_CNA_CONV_CON1)
<1> DEFINE e4 == Mesa!Cna(Mesa!DataSize0(c), Mesa!REG_CNA_DATA_SIZE0)
<1> DEFINE e5 == Mesa!Cna(Mesa!Bits(c.k), Mesa!REG_CNA_DATA_SIZE1)
<1> DEFINE e6 == Mesa!Cna(Mesa!WeightSize2(c), Mesa!REG_CNA_WEIGHT_SIZE2)
<1> DEFINE e7 == Mesa!Cna(InputDma, Mesa!REG_CNA_FEATURE_DATA_ADDR)
<1> DEFINE e8 == Mesa!Cna(WeightsDma, Mesa!REG_CNA_WEIGHT_DATA_ADDR)
<1> DEFINE e9 == Mesa!Dpu(OutputDma, Mesa!REG_DPU_DST_BASE_ADDR_LOW)
<1> DEFINE e10 == Mesa!Dpu(Mesa!IntBits(c.n * 2), Mesa!REG_DPU_DST_LINE_STRIDE)
<1> DEFINE e11 == Mesa!Dpu(Mesa!TwiceBits(c.m * c.n), Mesa!REG_DPU_DST_SURFACE_STRIDE)
<1> DEFINE e12 == Mesa!Pc(Mesa!Bits(1), Mesa!REG_PC_OPERATION_ENABLE)
<1> DEFINE e13 == Mesa!Cna(Mesa!Bits(1), Mesa!REG_CNA_OPERATION_ENABLE)
<1> DEFINE e14 == Mesa!Dpu(Mesa!Bits(1), Mesa!REG_DPU_OPERATION_ENABLE)
<1> DEFINE e15 == Mesa!Dpu({}, Mesa!REG_DPU_OPERATION_ENABLE)
<1> DEFINE e16 == Mesa!Cna({}, Mesa!REG_CNA_OPERATION_ENABLE)
<1> DEFINE e17 == Mesa!Pc({}, Mesa!REG_PC_OPERATION_ENABLE)
<1> DEFINE S == {e1, e2, e3, e4, e5, e6, e7, e8, e9, e10, e11, e12, e13, e14, e15, e16, e17}
<1>0. Mesa!gen_matmul_fp16(c) = <<e1, e2, e3, e4, e5, e6, e7, e8, e9, e10, e11, e12, e13, e14,
   e15, e16, e17>>
  BY Zenon DEF Mesa!gen_matmul_fp16
<1>1. Lists(Mesa!gen_matmul_fp16(c), S)
  <2> HIDE DEF e1, e2, e3, e4, e5, e6, e7, e8, e9, e10, e11, e12, e13, e14, e15, e16, e17
  <2>1. Lists(<<e1, e2, e3, e4, e5, e6, e7, e8, e9, e10, e11, e12, e13, e14, e15, e16, e17>>, S)
    BY TuplesList, Zenon
  <2> HIDE DEF S
  <2> QED
    BY <1>0, <2>1, Zenon
<1>2. {"PC_OPERATION_ENABLE", "CNA_OPERATION_ENABLE"} \subseteq EnableRegs
  BY DEF EnableRegs
<1>3. {"CNA_CONV_CON1", "CNA_DATA_SIZE0", "CNA_DATA_SIZE1", "CNA_WEIGHT_SIZE2",
       "CNA_FEATURE_DATA_ADDR", "CNA_FC_CON2", "PC_BASE_ADDRESS", "PC_REGISTER_AMOUNTS"}
        \subseteq Settings
  BY CnaNames DEF Settings, Config
<1>4. W["CNA_DATA_SIZE1"] = Mesa!Bits(c.k)
  BY MesaWords, MesaSame, Zenon
<1>5. Says(e1, W) /\ Reaches("mesa", e1)
  <2>1. Lands(e1, "PC_BASE_ADDRESS", {})
    BY MesaWordsFit, MesaCommandsLand, Zenon
  <2>2. W["PC_BASE_ADDRESS"] = {}
    BY MesaWords, Zenon
  <2> HIDE DEF W
  <2> QED
    BY <1>3, <2>1, <2>2, LandsSays, LandsReaches, Zenon
<1>6. Says(e2, W) /\ Reaches("mesa", e2)
  <2>1. Lands(e2, "PC_REGISTER_AMOUNTS", {})
    BY MesaWordsFit, MesaCommandsLand, Zenon
  <2>2. W["PC_REGISTER_AMOUNTS"] = {}
    BY MesaWords, Zenon
  <2> HIDE DEF W
  <2> QED
    BY <1>3, <2>1, <2>2, LandsSays, LandsReaches, Zenon
<1>7. Says(e3, W) /\ Reaches("mesa", e3)
  <2>1. Lands(e3, "CNA_CONV_CON1", Mesa!Precision)
    BY MesaWordsFit, MesaCommandsLand, Zenon
  <2>2. W["CNA_CONV_CON1"] = Mesa!Precision
    BY MesaWords, Zenon
  <2> HIDE DEF W
  <2> QED
    BY <1>3, <2>1, <2>2, LandsSays, LandsReaches, Zenon
<1>8. Says(e4, W) /\ Reaches("mesa", e4)
  <2>1. Lands(e4, "CNA_DATA_SIZE0", Mesa!DataSize0(c))
    BY MesaWordsFit, MesaCommandsLand, Zenon
  <2>2. W["CNA_DATA_SIZE0"] = Mesa!DataSize0(c)
    BY MesaWords, Zenon
  <2> HIDE DEF W
  <2> QED
    BY <1>3, <2>1, <2>2, LandsSays, LandsReaches, Zenon
<1>9. Says(e5, W) /\ Reaches("mesa", e5)
  <2>1. Lands(e5, "CNA_DATA_SIZE1", Mesa!Bits(c.k))
    BY MesaWordsFit, MesaCommandsLand, Zenon
  <2>2. W["CNA_DATA_SIZE1"] = Mesa!Bits(c.k)
    BY <1>4, Zenon
  <2> HIDE DEF W
  <2> QED
    BY <1>3, <2>1, <2>2, LandsSays, LandsReaches, Zenon
<1>10. Says(e6, W) /\ Reaches("mesa", e6)
  <2>1. Lands(e6, "CNA_WEIGHT_SIZE2", Mesa!WeightSize2(c))
    BY MesaWordsFit, MesaCommandsLand, Zenon
  <2>2. W["CNA_WEIGHT_SIZE2"] = Mesa!WeightSize2(c)
    BY MesaWords, Zenon
  <2> HIDE DEF W
  <2> QED
    BY <1>3, <2>1, <2>2, LandsSays, LandsReaches, Zenon
<1>11. Says(e7, W) /\ Reaches("mesa", e7)
  <2>1. Lands(e7, "CNA_FEATURE_DATA_ADDR", InputDma)
    BY MesaWordsFit, MesaCommandsLand, Zenon
  <2>2. W["CNA_FEATURE_DATA_ADDR"] = InputDma
    BY MesaWords, Zenon
  <2> HIDE DEF W
  <2> QED
    BY <1>3, <2>1, <2>2, LandsSays, LandsReaches, Zenon
<1>12. Says(e8, W) /\ Reaches("mesa", e8)
  <2>1. Lands(e8, "CNA_FC_CON2", WeightsDma)
    BY MesaWordsFit, MesaCommandsLand, Zenon
  <2>2. W["CNA_FC_CON2"] = WeightsDma
    BY MesaWords, Zenon
  <2> HIDE DEF W
  <2> QED
    BY <1>3, <2>1, <2>2, LandsSays, LandsReaches, Zenon
<1>13. Says(e9, W) /\ Reaches("mesa", e9)
  BY MesaWordsFit, LongSays, Zenon DEF LongNumbers
<1>14. Says(e10, W) /\ (StridesPositive(c) => Reaches("mesa", e10))
  <2>1. Mesa!REG_DPU_DST_LINE_STRIDE \in LongNumbers
    BY Zenon DEF LongNumbers
  <2>2. e10 = Mesa!Dpu(Uint64(Bits(c.n * 2)), Mesa!REG_DPU_DST_LINE_STRIDE)
    BY IntWords, Zenon
  <2>3. Bits(c.n * 2) \in SUBSET Low(32)
    BY IntWords, Zenon
  <2> HIDE DEF e10, W
  <2> QED
    BY <2>1, <2>2, <2>3, LongIntSays, Zenon DEF StridesPositive
<1>15. Says(e11, W) /\ (StridesPositive(c) => Reaches("mesa", e11))
  <2>1. Mesa!REG_DPU_DST_SURFACE_STRIDE \in LongNumbers
    BY Zenon DEF LongNumbers
  <2>2. e11 = Mesa!Dpu(Uint64(Twice(c.m * c.n)), Mesa!REG_DPU_DST_SURFACE_STRIDE)
    BY IntWords, Zenon
  <2>3. Twice(c.m * c.n) \in SUBSET Low(32)
    BY IntWords, Zenon
  <2> HIDE DEF e11, W
  <2> QED
    BY <2>1, <2>2, <2>3, LongIntSays, Zenon DEF StridesPositive
<1>16. Says(e12, W) /\ Reaches("mesa", e12)
  <2>1. Lands(e12, "PC_OPERATION_ENABLE", Mesa!Bits(1))
    BY MesaWordsFit, MesaCommandsLand, Zenon
  <2> QED
    BY <1>2, <2>1, EnablePlaces, LandsSays, LandsReaches, Zenon
<1>17. Says(e13, W) /\ Reaches("mesa", e13)
  <2>1. Lands(e13, "CNA_OPERATION_ENABLE", Mesa!Bits(1))
    BY MesaWordsFit, MesaCommandsLand, Zenon
  <2> QED
    BY <1>2, <2>1, EnablePlaces, LandsSays, LandsReaches, Zenon
<1>18. Says(e14, W) /\ Reaches("mesa", e14)
  BY MesaWordsFit, LongSays, Zenon DEF LongNumbers
<1>19. Says(e15, W) /\ Reaches("mesa", e15)
  BY MesaWordsFit, LongSays, Zenon DEF LongNumbers
<1>20. Says(e16, W) /\ Reaches("mesa", e16)
  <2>1. Lands(e16, "CNA_OPERATION_ENABLE", {})
    BY MesaWordsFit, MesaCommandsLand, Zenon
  <2> QED
    BY <1>2, <2>1, EnablePlaces, LandsSays, LandsReaches, Zenon
<1>21. Says(e17, W) /\ Reaches("mesa", e17)
  <2>1. Lands(e17, "PC_OPERATION_ENABLE", {})
    BY MesaWordsFit, MesaCommandsLand, Zenon
  <2> QED
    BY <1>2, <2>1, EnablePlaces, LandsSays, LandsReaches, Zenon
<1> HIDE DEF W, e1, e2, e3, e4, e5, e6, e7, e8, e9, e10, e11, e12, e13, e14, e15, e16, e17
<1>22. \A cmd \in S : Says(cmd, W) /\ (StridesPositive(c) => Reaches("mesa", cmd))
  BY <1>5, <1>6, <1>7, <1>8, <1>9, <1>10, <1>11, <1>12, <1>13, <1>14, <1>15, <1>16, <1>17, <1>18,
     <1>19, <1>20, <1>21, Zenon
<1> HIDE DEF S
<1>23. CommandsIn(Mesa!gen_matmul_fp16(c)) = S
  BY <1>1, Zenon DEF Lists
<1>24. AllSay(Mesa!gen_matmul_fp16(c), W)
  BY <1>1, <1>22, ListSays, Zenon
<1> QED
  BY <1>22, <1>23, <1>24, Zenon DEF W

-----------------------------------------------------------------------------
(* The short lists clear what they set: int8's and the small programs'.    *)
NoWords == [r \in Settings |-> {}]

(* The empty table has no word but zero.                                   *)
LEMMA NoWordsClear ==
  /\ {"PC_BASE_ADDRESS", "PC_REGISTER_AMOUNTS"} \subseteq Settings
  /\ NoWords["PC_BASE_ADDRESS"] = {} /\ NoWords["PC_REGISTER_AMOUNTS"] = {}
BY DEF NoWords, Settings

(* The three enabling registers.                                           *)
LEMMA EnableNames ==
  {"PC_OPERATION_ENABLE", "CNA_OPERATION_ENABLE", "DPU_OPERATION_ENABLE"} = EnableRegs
BY DEF EnableRegs

(* Mesa's list for int8.                                                   *)
LEMMA Int8Says ==
  /\ AllSay(Mesa!gen_matmul_int8, NoWords)
  /\ \A cmd \in CommandsIn(Mesa!gen_matmul_int8) : Reaches("mesa", cmd)
<1> DEFINE e1 == Mesa!Pc({}, Mesa!REG_PC_BASE_ADDRESS)
<1> DEFINE e2 == Mesa!Pc({}, Mesa!REG_PC_REGISTER_AMOUNTS)
<1> DEFINE e3 == Mesa!Pc(Mesa!Bits(1), Mesa!REG_PC_OPERATION_ENABLE)
<1> DEFINE e4 == Mesa!Pc({}, Mesa!REG_PC_OPERATION_ENABLE)
<1>1. Mesa!gen_matmul_int8 = <<e1, e2, e3, e4>>
  BY Zenon DEF Mesa!gen_matmul_int8
<1>2. Lists(<<e1, e2, e3, e4>>, {e1, e2, e3, e4})
  <2> HIDE DEF e1, e2, e3, e4
  <2> QED
    BY TuplesList, Zenon
<1>3. Says(e1, NoWords) /\ Reaches("mesa", e1)
  <2>1. Lands(e1, "PC_BASE_ADDRESS", {})
    BY MesaWordsFit, MesaCommandsLand, Zenon
  <2> QED
    BY <2>1, NoWordsClear, LandsSays, LandsReaches, Zenon
<1>4. Says(e2, NoWords) /\ Reaches("mesa", e2)
  <2>1. Lands(e2, "PC_REGISTER_AMOUNTS", {})
    BY MesaWordsFit, MesaCommandsLand, Zenon
  <2> QED
    BY <2>1, NoWordsClear, LandsSays, LandsReaches, Zenon
<1>5. Says(e3, NoWords) /\ Reaches("mesa", e3)
  <2>1. Lands(e3, "PC_OPERATION_ENABLE", Mesa!Bits(1))
    BY MesaWordsFit, MesaCommandsLand, Zenon
  <2> QED
    BY <2>1, EnableNames, EnablePlaces, LandsSays, LandsReaches, Zenon
<1>6. Says(e4, NoWords) /\ Reaches("mesa", e4)
  <2>1. Lands(e4, "PC_OPERATION_ENABLE", {})
    BY MesaWordsFit, MesaCommandsLand, Zenon
  <2> QED
    BY <2>1, EnableNames, EnablePlaces, LandsSays, LandsReaches, Zenon
<1> HIDE DEF e1, e2, e3, e4
<1>7. \A cmd \in {e1, e2, e3, e4} : Says(cmd, NoWords) /\ Reaches("mesa", cmd)
  BY <1>3, <1>4, <1>5, <1>6, Zenon
<1>8. CommandsIn(Mesa!gen_matmul_int8) = {e1, e2, e3, e4}
  BY <1>1, <1>2, Zenon DEF Lists
<1>9. AllSay(Mesa!gen_matmul_int8, NoWords)
  <2>1. AllSay(<<e1, e2, e3, e4>>, NoWords)
    BY <1>2, <1>7, ListSays, Zenon
  <2> QED
    BY <1>1, <2>1, Zenon
<1> QED
  BY <1>7, <1>8, <1>9, Zenon

(* Where the commands of the small programs land.                          *)
LEMMA SmallLand ==
  /\ Lands(Small!Pc(0, Small!BASE_ADDRESS), "PC_BASE_ADDRESS", {})
  /\ Lands(Small!Pc(0, Small!REGISTER_AMOUNTS), "PC_REGISTER_AMOUNTS", {})
  /\ \A n : Lands(Small!Pc(n, Small!OPERATION_ENABLE), "PC_OPERATION_ENABLE", Bits(n))
  /\ \A n : Lands(Small!Cna(n, Small!CNA_ENABLE), "CNA_OPERATION_ENABLE", Bits(n))
<1>1. \A r \in PcMesa : \A n : Lands(Small!Pc(n, Registers[r].no), r, Bits(n))
  BY PcLands, MesaWordsFit, SmallSame, Zenon
<1>2. \A r \in CnaMesa : \A n : Lands(Small!Cna(n, Registers[r].no), r, Bits(n))
  BY CnaLands, MesaWordsFit, SmallSame, Zenon
<1>3. /\ Small!BASE_ADDRESS = Registers["PC_BASE_ADDRESS"].no
      /\ Small!REGISTER_AMOUNTS = Registers["PC_REGISTER_AMOUNTS"].no
      /\ Small!OPERATION_ENABLE = Registers["PC_OPERATION_ENABLE"].no
      /\ Small!CNA_ENABLE = Registers["CNA_OPERATION_ENABLE"].no
  BY OtherTargets
     DEF Small!BASE_ADDRESS, Small!REGISTER_AMOUNTS, Small!OPERATION_ENABLE, Small!CNA_ENABLE
<1>4. {"PC_BASE_ADDRESS", "PC_REGISTER_AMOUNTS", "PC_OPERATION_ENABLE"} \subseteq PcMesa
  BY DEF PcMesa
<1>5. "CNA_OPERATION_ENABLE" \in CnaMesa
  BY DEF CnaMesa
<1>6. Bits(0) = {}
  BY SomeBits
<1>7. /\ Lands(Small!Pc(0, Small!BASE_ADDRESS), "PC_BASE_ADDRESS", Bits(0))
      /\ Lands(Small!Pc(0, Small!REGISTER_AMOUNTS), "PC_REGISTER_AMOUNTS", Bits(0))
      /\ \A n : Lands(Small!Pc(n, Small!OPERATION_ENABLE), "PC_OPERATION_ENABLE", Bits(n))
  BY <1>1, <1>3, <1>4, Zenon
<1>8. \A n : Lands(Small!Cna(n, Small!CNA_ENABLE), "CNA_OPERATION_ENABLE", Bits(n))
  BY <1>2, <1>3, <1>5, Zenon
<1> QED
  BY <1>6, <1>7, <1>8, Zenon

(* Those that minimal_npu_test.c writes with the macros of npu_hw.h.       *)
LEMMA SmallHwLand ==
  /\ Lands(Small!Hw(\h101, 0, Small!BASE_ADDRESS), "PC_BASE_ADDRESS", {})
  /\ Lands(Small!Hw(\h101, 0, Small!REGISTER_AMOUNTS), "PC_REGISTER_AMOUNTS", {})
  /\ Key(Small!Hw(\h81, 1, Small!OPERATION_ENABLE)) \in Raw
  /\ ~Writes(Small!Hw(0, 0, Small!OPERATION_ENABLE))
<1>1. \A op, v, reg :
        /\ TargetOf(Small!Hw(op, v, reg)) = Cut(Bits(op), 16)
        /\ ValueOf(Small!Hw(op, v, reg)) = Cut(Bits(v), 32)
        /\ RegOf(Small!Hw(op, v, reg)) = Cut(Bits(reg), 16)
  BY SmallSame, CommandCut, BitsAreWords
<1>2. \A reg : Short(reg) => Cut(Bits(reg), 16) = Bits(reg)
  BY NumberWords DEF Cut
<1>3. /\ Small!BASE_ADDRESS = \h10 /\ Small!REGISTER_AMOUNTS = \h14
      /\ Small!OPERATION_ENABLE = \h8
  BY DEF Small!BASE_ADDRESS, Small!REGISTER_AMOUNTS, Small!OPERATION_ENABLE
<1>4. Short(\h10) /\ Short(\h14) /\ Short(\h8)
  BY DEF Short
<1>5. /\ Cut(Bits(\h101), 16) = {0, 8} /\ Cut(Bits(\h81), 16) = {0, 7} /\ Cut(Bits(0), 16) = {}
      /\ Cut(Bits(0), 32) = {}
  <2>1. Bits(\h101) = {0, 8} /\ Bits(\h81) = {0, 7} /\ Bits(0) = {}
    BY SomeBits
  <2> QED
    BY <2>1 DEF Cut, Low
<1>6. {0, 8} \ {0} = {8} /\ {0, 7} \ {0} = {7} /\ Bits(\h100) = {8} /\ Bits(\h80) = {7}
  BY SomeBits
<1>7. TargetOf({-1}) = {}
  BY DEF TargetOf, Shr
<1>8. /\ Place("PC_BASE_ADDRESS") = <<{8}, Bits(\h10)>>
      /\ Place("PC_REGISTER_AMOUNTS") = <<{8}, Bits(\h14)>>
  BY <1>6, OtherTargets DEF Place
<1>9. Place("PC_BASE_ADDRESS") \in Known /\ Place("PC_REGISTER_AMOUNTS") \in Known
  BY SettingKeys DEF Settings
<1>10. Lands(Small!Hw(\h101, 0, Small!BASE_ADDRESS), "PC_BASE_ADDRESS", {})
  <2>1. PICK cmd : cmd = Small!Hw(\h101, 0, Small!BASE_ADDRESS)
    OBVIOUS
  <2>2. TargetOf(cmd) = {0, 8} /\ ValueOf(cmd) = {} /\ RegOf(cmd) = Bits(\h10)
    BY <1>1, <1>2, <1>3, <1>4, <1>5, <2>1
  <2>3. Key(cmd) = Place("PC_BASE_ADDRESS")
    BY <1>6, <1>8, <2>2, Zenon DEF Key
  <2>4. Writes(cmd)
    BY <1>7, <2>2 DEF Writes, Full!NoWord
  <2> QED
    BY <1>9, <2>1, <2>2, <2>3, <2>4, Zenon DEF Lands
<1>11. Lands(Small!Hw(\h101, 0, Small!REGISTER_AMOUNTS), "PC_REGISTER_AMOUNTS", {})
  <2>1. PICK cmd : cmd = Small!Hw(\h101, 0, Small!REGISTER_AMOUNTS)
    OBVIOUS
  <2>2. TargetOf(cmd) = {0, 8} /\ ValueOf(cmd) = {} /\ RegOf(cmd) = Bits(\h14)
    BY <1>1, <1>2, <1>3, <1>4, <1>5, <2>1
  <2>3. Key(cmd) = Place("PC_REGISTER_AMOUNTS")
    BY <1>6, <1>8, <2>2, Zenon DEF Key
  <2>4. Writes(cmd)
    BY <1>7, <2>2 DEF Writes, Full!NoWord
  <2> QED
    BY <1>9, <2>1, <2>2, <2>3, <2>4, Zenon DEF Lands
<1>12. Key(Small!Hw(\h81, 1, Small!OPERATION_ENABLE)) \in Raw
  <2>1. PICK cmd : cmd = Small!Hw(\h81, 1, Small!OPERATION_ENABLE)
    OBVIOUS
  <2>2. TargetOf(cmd) = {0, 7} /\ RegOf(cmd) = Bits(\h8)
    BY <1>1, <1>2, <1>3, <1>4, <1>5, <2>1
  <2>3. Key(cmd) = <<Bits(\h80), Bits(\h8)>>
    BY <1>6, <2>2, Zenon DEF Key
  <2> QED
    BY <2>1, <2>3, Zenon DEF Raw
<1>13. ~Writes(Small!Hw(0, 0, Small!OPERATION_ENABLE))
  BY <1>1, <1>5 DEF Writes
<1> QED
  BY <1>10, <1>11, <1>12, <1>13, Zenon

(* A command that names no unit says nothing.                              *)
LEMMA RawSays ==
  \A cmd, W : Key(cmd) \in Raw => Says(cmd, W) /\ Reaches("minimal_npu_test", cmd)
BY NotKnown, Zenon DEF Says, Reaches

(* A command that writes nothing contradicts no table.                     *)
LEMMA NothingSays == \A cmd, W, gen : ~Writes(cmd) => Says(cmd, W) /\ Reaches(gen, cmd)
BY Zenon DEF Says, Reaches

(* So the lists of the three programs say NoWords.                         *)
LEMMA MinimalMesaSays ==
  /\ AllSay(Small!minimal_mesa_test, NoWords)
  /\ \A cmd \in CommandsIn(Small!minimal_mesa_test) : Reaches("minimal_mesa_test", cmd)
<1> DEFINE e1 == Small!Pc(0, Small!BASE_ADDRESS)
<1> DEFINE e2 == Small!Pc(0, Small!REGISTER_AMOUNTS)
<1> DEFINE e3 == Small!Pc(1, Small!OPERATION_ENABLE)
<1>1. Small!minimal_mesa_test = <<e1, e2, e3>>
  BY Zenon DEF Small!minimal_mesa_test
<1>2. Lists(<<e1, e2, e3>>, {e1, e2, e3})
  <2> HIDE DEF e1, e2, e3
  <2> QED
    BY TuplesList, Zenon
<1>3. Says(e1, NoWords) /\ Reaches("minimal_mesa_test", e1)
  <2>1. Lands(e1, "PC_BASE_ADDRESS", {})
    BY SmallLand, Zenon
  <2> QED
    BY <2>1, NoWordsClear, LandsSays, LandsReaches, Zenon
<1>4. Says(e2, NoWords) /\ Reaches("minimal_mesa_test", e2)
  <2>1. Lands(e2, "PC_REGISTER_AMOUNTS", {})
    BY SmallLand, Zenon
  <2> QED
    BY <2>1, NoWordsClear, LandsSays, LandsReaches, Zenon
<1>5. Says(e3, NoWords) /\ Reaches("minimal_mesa_test", e3)
  <2>1. Lands(e3, "PC_OPERATION_ENABLE", Bits(1))
    BY SmallLand, Zenon
  <2> QED
    BY <2>1, EnableNames, EnablePlaces, LandsSays, LandsReaches, Zenon
<1> HIDE DEF e1, e2, e3
<1>6. \A cmd \in {e1, e2, e3} : Says(cmd, NoWords) /\ Reaches("minimal_mesa_test", cmd)
  BY <1>3, <1>4, <1>5, Zenon
<1>7. CommandsIn(Small!minimal_mesa_test) = {e1, e2, e3}
  BY <1>1, <1>2, Zenon DEF Lists
<1>8. AllSay(Small!minimal_mesa_test, NoWords)
  <2>1. AllSay(<<e1, e2, e3>>, NoWords)
    BY <1>2, <1>6, ListSays, Zenon
  <2> QED
    BY <1>1, <2>1, Zenon
<1> QED
  BY <1>6, <1>7, <1>8, Zenon

(* minimal_npu_test.c: likewise.                                           *)
LEMMA MinimalNpuSays ==
  /\ AllSay(Small!minimal_npu_test, NoWords)
  /\ \A cmd \in CommandsIn(Small!minimal_npu_test) : Reaches("minimal_npu_test", cmd)
<1> DEFINE e1 == Small!Hw(\h101, 0, Small!BASE_ADDRESS)
<1> DEFINE e2 == Small!Hw(\h101, 0, Small!REGISTER_AMOUNTS)
<1> DEFINE e3 == Small!Hw(\h81, 1, Small!OPERATION_ENABLE)
<1> DEFINE e4 == Small!Hw(0, 0, Small!OPERATION_ENABLE)
<1>1. Small!minimal_npu_test = <<e1, e2, e3, e4>>
  BY Zenon DEF Small!minimal_npu_test
<1>2. Lists(<<e1, e2, e3, e4>>, {e1, e2, e3, e4})
  <2> HIDE DEF e1, e2, e3, e4
  <2> QED
    BY TuplesList, Zenon
<1>3. Says(e1, NoWords) /\ Reaches("minimal_npu_test", e1)
  <2>1. Lands(e1, "PC_BASE_ADDRESS", {})
    BY SmallHwLand, Zenon
  <2> QED
    BY <2>1, NoWordsClear, LandsSays, LandsReaches, ZenonT(60)
<1>4. Says(e2, NoWords) /\ Reaches("minimal_npu_test", e2)
  <2>1. Lands(e2, "PC_REGISTER_AMOUNTS", {})
    BY SmallHwLand, Zenon
  <2> QED
    BY <2>1, NoWordsClear, LandsSays, LandsReaches, ZenonT(60)
<1>5. Says(e3, NoWords) /\ Reaches("minimal_npu_test", e3)
  BY SmallHwLand, RawSays, Zenon
<1>6. Says(e4, NoWords) /\ Reaches("minimal_npu_test", e4)
  BY SmallHwLand, NothingSays, Zenon
<1> HIDE DEF e1, e2, e3, e4
<1>7. \A cmd \in {e1, e2, e3, e4} : Says(cmd, NoWords) /\ Reaches("minimal_npu_test", cmd)
  BY <1>3, <1>4, <1>5, <1>6, Zenon
<1>8. CommandsIn(Small!minimal_npu_test) = {e1, e2, e3, e4}
  BY <1>1, <1>2, Zenon DEF Lists
<1>9. AllSay(Small!minimal_npu_test, NoWords)
  <2>1. AllSay(<<e1, e2, e3, e4>>, NoWords)
    BY <1>2, <1>7, ListSays, Zenon
  <2> QED
    BY <1>1, <2>1, Zenon
<1> QED
  BY <1>7, <1>8, <1>9, Zenon

(* test_cna_enable.c: likewise.                                            *)
LEMMA CnaEnableSays ==
  /\ AllSay(Small!test_cna_enable, NoWords)
  /\ \A cmd \in CommandsIn(Small!test_cna_enable) : Reaches("test_cna_enable", cmd)
<1> DEFINE e1 == Small!Pc(0, Small!BASE_ADDRESS)
<1> DEFINE e2 == Small!Pc(0, Small!REGISTER_AMOUNTS)
<1> DEFINE e3 == Small!Pc(1, Small!OPERATION_ENABLE)
<1> DEFINE e4 == Small!Cna(1, Small!CNA_ENABLE)
<1> DEFINE e5 == Small!Cna(0, Small!CNA_ENABLE)
<1> DEFINE e6 == Small!Pc(0, Small!OPERATION_ENABLE)
<1>1. Small!test_cna_enable = <<e1, e2, e3, e4, e5, e6>>
  BY Zenon DEF Small!test_cna_enable
<1>2. Lists(<<e1, e2, e3, e4, e5, e6>>, {e1, e2, e3, e4, e5, e6})
  <2> HIDE DEF e1, e2, e3, e4, e5, e6
  <2> QED
    BY TuplesList, Zenon
<1>3. Says(e1, NoWords) /\ Reaches("test_cna_enable", e1)
  <2>1. Lands(e1, "PC_BASE_ADDRESS", {})
    BY SmallLand, Zenon
  <2> QED
    BY <2>1, NoWordsClear, LandsSays, LandsReaches, Zenon
<1>4. Says(e2, NoWords) /\ Reaches("test_cna_enable", e2)
  <2>1. Lands(e2, "PC_REGISTER_AMOUNTS", {})
    BY SmallLand, Zenon
  <2> QED
    BY <2>1, NoWordsClear, LandsSays, LandsReaches, Zenon
<1>5. Says(e3, NoWords) /\ Reaches("test_cna_enable", e3)
  <2>1. Lands(e3, "PC_OPERATION_ENABLE", Bits(1))
    BY SmallLand, Zenon
  <2> QED
    BY <2>1, EnableNames, EnablePlaces, LandsSays, LandsReaches, Zenon
<1>6. Says(e4, NoWords) /\ Reaches("test_cna_enable", e4)
  <2>1. Lands(e4, "CNA_OPERATION_ENABLE", Bits(1))
    BY SmallLand, Zenon
  <2> QED
    BY <2>1, EnableNames, EnablePlaces, LandsSays, LandsReaches, Zenon
<1>7. Says(e5, NoWords) /\ Reaches("test_cna_enable", e5)
  <2>1. Lands(e5, "CNA_OPERATION_ENABLE", Bits(0))
    BY SmallLand, Zenon
  <2> QED
    BY <2>1, EnableNames, EnablePlaces, LandsSays, LandsReaches, Zenon
<1>8. Says(e6, NoWords) /\ Reaches("test_cna_enable", e6)
  <2>1. Lands(e6, "PC_OPERATION_ENABLE", Bits(0))
    BY SmallLand, Zenon
  <2> QED
    BY <2>1, EnableNames, EnablePlaces, LandsSays, LandsReaches, Zenon
<1> HIDE DEF e1, e2, e3, e4, e5, e6
<1>9. \A cmd \in {e1, e2, e3, e4, e5, e6} : Says(cmd, NoWords) /\ Reaches("test_cna_enable", cmd)
  BY <1>3, <1>4, <1>5, <1>6, <1>7, <1>8, Zenon
<1>10. CommandsIn(Small!test_cna_enable) = {e1, e2, e3, e4, e5, e6}
  BY <1>1, <1>2, Zenon DEF Lists
<1>11. AllSay(Small!test_cna_enable, NoWords)
  <2>1. AllSay(<<e1, e2, e3, e4, e5, e6>>, NoWords)
    BY <1>2, <1>9, ListSays, Zenon
  <2> QED
    BY <1>1, <2>1, Zenon
<1> QED
  BY <1>9, <1>10, <1>11, Zenon

-----------------------------------------------------------------------------
(* The full list's file has the header, and so the words, of this module.  *)
LEMMA FullSame ==
  /\ \A n : Full!Bits(n) = Bits(n)
  /\ \A w, n : Full!Shl(w, n) = Shl(w, n)
  /\ \A t, v, r : Full!MESA_REGCMD(t, v, r) = MESA_REGCMD(t, v, r)
<1>1. /\ \A n : Full!Bits(n) = Bits(n)
      /\ \A w, n : Full!Shl(w, n) = Shl(w, n)
      /\ \A n : Full!Low(n) = Low(n)
  BY ZenonT(60) DEF Full!Bits, Bits, Full!Shl, Shl, Full!Low, Low
<1>2. \A t, v, r : Full!MESA_REGCMD(t, v, r) = MESA_REGCMD(t, v, r)
  BY <1>1, Zenon DEF Full!MESA_REGCMD, MESA_REGCMD
<1> QED
  BY <1>1, <1>2, Zenon

(* The register map of npu_matmul_full.c is that of the header.            *)
LEMMA FullMap ==
  /\ Full!Registers = Registers /\ Full!Target = Target
  /\ \A reg, f, v : Full!Field(reg, f, v) = Field(reg, f, v)
<1>1. Full!PcRegs = PcRegs
  BY SMT DEF Full!PcRegs, PcRegs, Full!R, R, Full!Whole, Whole
<1>2. Full!CnaEnable = CnaEnable
  BY SMT DEF Full!CnaEnable, CnaEnable, Full!R, R, Full!Whole, Whole
<1>3. Full!CnaConv = CnaConv
  BY SMT DEF Full!CnaConv, CnaConv, Full!R, R, Full!Whole, Whole
<1>4. Full!CnaSizes = CnaSizes
  BY SMT DEF Full!CnaSizes, CnaSizes, Full!R, R, Full!Whole, Whole
<1>5. Full!CnaBuffer = CnaBuffer
  BY SMT DEF Full!CnaBuffer, CnaBuffer, Full!R, R, Full!Whole, Whole
<1>6. Full!CnaConvert = CnaConvert
  BY SMT DEF Full!CnaConvert, CnaConvert, Full!R, R, Full!Whole, Whole
<1>7. Full!CnaFetch = CnaFetch
  BY SMT DEF Full!CnaFetch, CnaFetch, Full!R, R, Full!Whole, Whole
<1>8. Full!CnaFullConnect = CnaFullConnect
  BY SMT DEF Full!CnaFullConnect, CnaFullConnect, Full!R, R, Full!Whole, Whole
<1>9. Full!CnaDecompress = CnaDecompress
  BY SMT DEF Full!CnaDecompress, CnaDecompress, Full!R, R, Full!Whole, Whole
<1>10. Full!CnaPad = CnaPad
  BY SMT DEF Full!CnaPad, CnaPad, Full!R, R, Full!Whole, Whole
<1>11. Full!CoreRegs = CoreRegs
  BY SMT DEF Full!CoreRegs, CoreRegs, Full!R, R, Full!Whole, Whole
<1>12. Full!DpuEnable = DpuEnable
  BY SMT DEF Full!DpuEnable, DpuEnable, Full!R, R, Full!Whole, Whole
<1>13. Full!DpuFeature = DpuFeature
  BY SMT DEF Full!DpuFeature, DpuFeature, Full!R, R, Full!Whole, Whole
<1>14. Full!DpuCube = DpuCube
  BY SMT DEF Full!DpuCube, DpuCube, Full!R, R, Full!Whole, Whole
<1>15. Full!DpuBs = DpuBs
  BY SMT DEF Full!DpuBs, DpuBs, Full!R, R, Full!Whole, Whole
<1>16. Full!DpuWdma = DpuWdma
  BY SMT DEF Full!DpuWdma, DpuWdma, Full!R, R, Full!Whole, Whole
<1>17. Full!DpuBn = DpuBn
  BY SMT DEF Full!DpuBn, DpuBn, Full!R, R, Full!Whole, Whole
<1>18. Full!DpuEw = DpuEw
  BY SMT DEF Full!DpuEw, DpuEw, Full!R, R, Full!Whole, Whole
<1>19. Full!DpuOutput = DpuOutput
  BY SMT DEF Full!DpuOutput, DpuOutput, Full!R, R, Full!Whole, Whole
<1>20. Full!DpuOperands = DpuOperands
  BY SMT DEF Full!DpuOperands, DpuOperands, Full!R, R, Full!Whole, Whole
<1>21. Full!DpuLut = DpuLut
  BY SMT DEF Full!DpuLut, DpuLut, Full!R, R, Full!Whole, Whole
<1>22. Full!DpuLutRanges = DpuLutRanges
  BY SMT DEF Full!DpuLutRanges, DpuLutRanges, Full!R, R, Full!Whole, Whole
<1>23. Full!RdmaEnable = RdmaEnable
  BY SMT DEF Full!RdmaEnable, RdmaEnable, Full!R, R, Full!Whole, Whole
<1>24. Full!RdmaCube = RdmaCube
  BY SMT DEF Full!RdmaCube, RdmaCube, Full!R, R, Full!Whole, Whole
<1>25. Full!RdmaSurface = RdmaSurface
  BY SMT DEF Full!RdmaSurface, RdmaSurface, Full!R, R, Full!Whole, Whole
<1>26. Full!Groups = Groups
  BY <1>1, <1>2, <1>3, <1>4, <1>5, <1>6, <1>7, <1>8, <1>9, <1>10, <1>11, <1>12, <1>13, <1>14,
     <1>15, <1>16, <1>17, <1>18, <1>19, <1>20, <1>21, <1>22, <1>23, <1>24, <1>25, Zenon
     DEF Full!Groups, Groups
<1>27. Full!Registers = Registers
  <2> DEFINE Map(gs) == [reg \in UNION {DOMAIN g : g \in gs} |->
                         (CHOOSE g \in gs : reg \in DOMAIN g)[reg]]
  <2>1. Full!Registers = Map(Full!Groups)
    BY ZenonT(60) DEF Full!Registers
  <2>2. Registers = Map(Groups)
    BY Zenon DEF Registers
  <2> HIDE DEF Map
  <2> QED
    BY <1>26, <2>1, <2>2, Zenon
<1>28. Full!Target = Target
  BY SMT DEF Full!Target, Target
<1>29. \A reg, f, v : Full!Field(reg, f, v) = Field(reg, f, v)
  <2>1. \A reg, f : Full!Mask(reg, f) = Mask(reg, f) /\ Full!Shift(reg, f) = Shift(reg, f)
    BY <1>27, Zenon DEF Full!Mask, Mask, Full!Shift, Shift, Full!Width, Width
  <2> QED
    BY <2>1, FullSame, Zenon DEF Full!Field, Field
<1> QED
  BY <1>27, <1>28, <1>29, Zenon

(* So are its fields.                                                      *)
LEMMA FullFields == \A reg, f, n : Full!F(reg, f, n) = Field(reg, f, Bits(n))
BY FullSame, FullMap, Zenon DEF Full!F

(* A field is a part of 32 bits.                                           *)
LEMMA FieldsFit ==
  \A reg, f, s, w, n : FieldIs(reg, f, s, w) => Full!F(reg, f, n) \in SUBSET Low(32)
<1> SUFFICES ASSUME NEW reg, NEW f, NEW s, NEW w, NEW n, FieldIs(reg, f, s, w)
             PROVE  Full!F(reg, f, n) \in SUBSET Low(32)
  BY Zenon
<1>1. Shift(reg, f) = s /\ Width(reg, f) = w
  BY DEF FieldIs, Shift, Width
<1>2. s \in Nat /\ w \in 0..30 /\ s + w <= 32
  BY DEF FieldIs
<1>3. s .. s + w - 1 \subseteq Low(32)
  BY <1>2 DEF Low
<1>4. Full!F(reg, f, n) \subseteq s .. s + w - 1
  <2>1. Full!F(reg, f, n) \subseteq Mask(reg, f)
    BY FullFields, Zenon DEF Field
  <2> QED
    BY <1>1, <2>1 DEF Mask
<1> QED
  BY <1>3, <1>4

-----------------------------------------------------------------------------
(* The words it sends to the registers that are set, but for those that it *)
(* clears.                                                                 *)
FullSent(c) ==
  [ DPU_S_POINTER |-> Full!Pointers("DPU_S_POINTER"),
    CNA_CONV_CON2 |-> Full!F("CNA_CONV_CON2", "FEATURE_GRAINS", 52),
    CNA_CONV_CON3 |-> Full!F("CNA_CONV_CON3", "CONV_X_STRIDE", 1)
        \cup Full!F("CNA_CONV_CON3", "CONV_Y_STRIDE", 1),
    CNA_DATA_SIZE0 |-> Full!F("CNA_DATA_SIZE0", "DATAIN_WIDTH", 1)
        \cup Full!F("CNA_DATA_SIZE0", "DATAIN_HEIGHT", c.m),
    CNA_DATA_SIZE1 |-> Full!F("CNA_DATA_SIZE1", "DATAIN_CHANNEL_REAL", c.k - 1)
        \cup Full!F("CNA_DATA_SIZE1", "DATAIN_CHANNEL", c.k),
    CNA_DATA_SIZE2 |-> Full!F("CNA_DATA_SIZE2", "DATAOUT_WIDTH", 1),
    CNA_DATA_SIZE3 |-> Full!F("CNA_DATA_SIZE3", "DATAOUT_ATOMICS", c.m),
    CNA_WEIGHT_SIZE0 |-> Full!Bits(c.k * c.n),
    CNA_WEIGHT_SIZE1 |-> Full!Bits(c.k),
    CNA_WEIGHT_SIZE2 |-> Full!F("CNA_WEIGHT_SIZE2", "WEIGHT_WIDTH", 1)
        \cup Full!F("CNA_WEIGHT_SIZE2", "WEIGHT_HEIGHT", 1)
        \cup Full!F("CNA_WEIGHT_SIZE2", "WEIGHT_KERNELS", c.n),
    CNA_CBUF_CON1 |-> Full!F("CNA_CBUF_CON1", "DATA_ENTRIES", c.m * c.k),
    CNA_CVT_CON0 |-> Full!F("CNA_CVT_CON0", "DATA_SIGN", 1)
        \cup Full!F("CNA_CVT_CON0", "CVT_TYPE", 1)
        \cup Full!F("CNA_CVT_CON0", "CVT_BYPASS", 1),
    CNA_CVT_CON1 |-> Full!F("CNA_CVT_CON1", "CVT_SCALE0", 1),
    CNA_CVT_CON2 |-> Full!F("CNA_CVT_CON2", "CVT_SCALE1", 1),
    CNA_CVT_CON3 |-> Full!F("CNA_CVT_CON3", "CVT_SCALE2", 1),
    CNA_CVT_CON4 |-> Full!F("CNA_CVT_CON4", "CVT_SCALE3", 1),
    CNA_FEATURE_DATA_ADDR |-> InputDma,
    CNA_DCOMP_ADDR0 |-> WeightsDma,
    CORE_MISC_CFG |-> Full!F("CORE_MISC_CFG", "QD_EN", 1),
    CORE_DATAOUT_SIZE_0 |-> Full!F("CORE_DATAOUT_SIZE_0", "DATAOUT_WIDTH", 1)
        \cup Full!F("CORE_DATAOUT_SIZE_0", "DATAOUT_HEIGHT", c.m - 1),
    CORE_DATAOUT_SIZE_1 |-> Full!F("CORE_DATAOUT_SIZE_1", "DATAOUT_CHANNEL", c.n - 1),
    DPU_FEATURE_MODE_CFG |-> Full!F("DPU_FEATURE_MODE_CFG", "BURST_LEN", 15)
        \cup Full!F("DPU_FEATURE_MODE_CFG", "OUTPUT_MODE", 2),
    DPU_DST_BASE_ADDR |-> OutputDma,
    DPU_DST_SURF_STRIDE |-> Twice(c.m * c.n),
    DPU_DATA_CUBE_HEIGHT |-> Full!Bits(c.m - 1),
    DPU_DATA_CUBE_CHANNEL |-> Full!F("DPU_DATA_CUBE_CHANNEL", "ORIG_CHANNEL", c.n - 1)
        \cup Full!F("DPU_DATA_CUBE_CHANNEL", "CHANNEL", c.n - 1),
    DPU_BS_CFG |-> Full!F("DPU_BS_CFG", "BS_ALU_ALGO", 2)
        \cup Full!F("DPU_BS_CFG", "BS_ALU_SRC", 1)
        \cup Full!F("DPU_BS_CFG", "BS_RELU_BYPASS", 1)
        \cup Full!F("DPU_BS_CFG", "BS_MUL_BYPASS", 1),
    DPU_BS_OW_CFG |-> Full!F("DPU_BS_OW_CFG", "SIZE_E_2", 1)
        \cup Full!F("DPU_BS_OW_CFG", "SIZE_E_1", 1)
        \cup Full!F("DPU_BS_OW_CFG", "SIZE_E_0", 1),
    DPU_WDMA_SIZE_0 |-> Full!F("DPU_WDMA_SIZE_0", "CHANNEL_WDMA", c.n - 1),
    DPU_WDMA_SIZE_1 |-> Full!F("DPU_WDMA_SIZE_1", "HEIGHT_WDMA", c.m - 1),
    DPU_BN_CFG |-> Full!F("DPU_BN_CFG", "BN_BYPASS", 1),
    CNA_CBUF_CON0 |-> Full!F("CNA_CBUF_CON0", "WEIGHT_BANK", 1)
        \cup Full!F("CNA_CBUF_CON0", "DATA_BANK", 1),
    CNA_CONV_CON1 |-> Full!F("CNA_CONV_CON1", "IN_PRECISION", 2)
        \cup Full!F("CNA_CONV_CON1", "PROC_PRECISION", 2) ]

FullWord(c) ==
  [r \in Settings |-> IF r \in DOMAIN FullSent(c) THEN FullSent(c)[r] ELSE {}]

(* The registers the full list sets, by name.                              *)
LEMMA FullNames ==
  \A c : DOMAIN FullSent(c) =
    {"DPU_S_POINTER", "CNA_CONV_CON2", "CNA_CONV_CON3", "CNA_DATA_SIZE0", "CNA_DATA_SIZE1",
       "CNA_DATA_SIZE2", "CNA_DATA_SIZE3", "CNA_WEIGHT_SIZE0", "CNA_WEIGHT_SIZE1",
       "CNA_WEIGHT_SIZE2", "CNA_CBUF_CON1", "CNA_CVT_CON0", "CNA_CVT_CON1", "CNA_CVT_CON2",
       "CNA_CVT_CON3", "CNA_CVT_CON4", "CNA_FEATURE_DATA_ADDR", "CNA_DCOMP_ADDR0",
       "CORE_MISC_CFG", "CORE_DATAOUT_SIZE_0", "CORE_DATAOUT_SIZE_1", "DPU_FEATURE_MODE_CFG",
       "DPU_DST_BASE_ADDR", "DPU_DST_SURF_STRIDE", "DPU_DATA_CUBE_HEIGHT",
       "DPU_DATA_CUBE_CHANNEL", "DPU_BS_CFG", "DPU_BS_OW_CFG", "DPU_WDMA_SIZE_0",
       "DPU_WDMA_SIZE_1", "DPU_BN_CFG", "CNA_CBUF_CON0", "CNA_CONV_CON1"}
BY DEF FullSent

(* All of them are registers that configure a job.                         *)
LEMMA FullSettings == \A c : DOMAIN FullSent(c) \subseteq Settings
BY SMTT(90), FullNames, CnaNames, CoreNames, DpuNames DEF Settings, Config

(* The words it sends them.                                                *)
LEMMA FullWords ==
  \A c :
    /\ FullWord(c)["DPU_S_POINTER"] = Full!Pointers("DPU_S_POINTER")
    /\ FullWord(c)["CNA_CONV_CON2"] = Full!F("CNA_CONV_CON2", "FEATURE_GRAINS", 52)
    /\ FullWord(c)["CNA_CONV_CON3"] = Full!F("CNA_CONV_CON3", "CONV_X_STRIDE", 1)
           \cup Full!F("CNA_CONV_CON3", "CONV_Y_STRIDE", 1)
    /\ FullWord(c)["CNA_DATA_SIZE0"] = Full!F("CNA_DATA_SIZE0", "DATAIN_WIDTH", 1)
           \cup Full!F("CNA_DATA_SIZE0", "DATAIN_HEIGHT", c.m)
    /\ FullWord(c)["CNA_DATA_SIZE1"] = Full!F("CNA_DATA_SIZE1", "DATAIN_CHANNEL_REAL", c.k - 1)
           \cup Full!F("CNA_DATA_SIZE1", "DATAIN_CHANNEL", c.k)
    /\ FullWord(c)["CNA_DATA_SIZE2"] = Full!F("CNA_DATA_SIZE2", "DATAOUT_WIDTH", 1)
    /\ FullWord(c)["CNA_DATA_SIZE3"] = Full!F("CNA_DATA_SIZE3", "DATAOUT_ATOMICS", c.m)
    /\ FullWord(c)["CNA_WEIGHT_SIZE0"] = Full!Bits(c.k * c.n)
    /\ FullWord(c)["CNA_WEIGHT_SIZE1"] = Full!Bits(c.k)
    /\ FullWord(c)["CNA_WEIGHT_SIZE2"] = Full!F("CNA_WEIGHT_SIZE2", "WEIGHT_WIDTH", 1)
           \cup Full!F("CNA_WEIGHT_SIZE2", "WEIGHT_HEIGHT", 1)
           \cup Full!F("CNA_WEIGHT_SIZE2", "WEIGHT_KERNELS", c.n)
    /\ FullWord(c)["CNA_CBUF_CON1"] = Full!F("CNA_CBUF_CON1", "DATA_ENTRIES", c.m * c.k)
    /\ FullWord(c)["CNA_CVT_CON0"] = Full!F("CNA_CVT_CON0", "DATA_SIGN", 1)
           \cup Full!F("CNA_CVT_CON0", "CVT_TYPE", 1) \cup Full!F("CNA_CVT_CON0", "CVT_BYPASS", 1)
    /\ FullWord(c)["CNA_CVT_CON1"] = Full!F("CNA_CVT_CON1", "CVT_SCALE0", 1)
    /\ FullWord(c)["CNA_CVT_CON2"] = Full!F("CNA_CVT_CON2", "CVT_SCALE1", 1)
    /\ FullWord(c)["CNA_CVT_CON3"] = Full!F("CNA_CVT_CON3", "CVT_SCALE2", 1)
    /\ FullWord(c)["CNA_CVT_CON4"] = Full!F("CNA_CVT_CON4", "CVT_SCALE3", 1)
    /\ FullWord(c)["CNA_FEATURE_DATA_ADDR"] = InputDma
    /\ FullWord(c)["CNA_DCOMP_ADDR0"] = WeightsDma
    /\ FullWord(c)["CORE_MISC_CFG"] = Full!F("CORE_MISC_CFG", "QD_EN", 1)
    /\ FullWord(c)["CORE_DATAOUT_SIZE_0"] = Full!F("CORE_DATAOUT_SIZE_0", "DATAOUT_WIDTH", 1)
           \cup Full!F("CORE_DATAOUT_SIZE_0", "DATAOUT_HEIGHT", c.m - 1)
    /\ FullWord(c)["CORE_DATAOUT_SIZE_1"] =
           Full!F("CORE_DATAOUT_SIZE_1", "DATAOUT_CHANNEL", c.n - 1)
    /\ FullWord(c)["DPU_FEATURE_MODE_CFG"] = Full!F("DPU_FEATURE_MODE_CFG", "BURST_LEN", 15)
           \cup Full!F("DPU_FEATURE_MODE_CFG", "OUTPUT_MODE", 2)
    /\ FullWord(c)["DPU_DST_BASE_ADDR"] = OutputDma
    /\ FullWord(c)["DPU_DST_SURF_STRIDE"] = Twice(c.m * c.n)
    /\ FullWord(c)["DPU_DATA_CUBE_HEIGHT"] = Full!Bits(c.m - 1)
    /\ FullWord(c)["DPU_DATA_CUBE_CHANNEL"] =
           Full!F("DPU_DATA_CUBE_CHANNEL", "ORIG_CHANNEL", c.n - 1)
           \cup Full!F("DPU_DATA_CUBE_CHANNEL", "CHANNEL", c.n - 1)
    /\ FullWord(c)["DPU_BS_CFG"] = Full!F("DPU_BS_CFG", "BS_ALU_ALGO", 2)
           \cup Full!F("DPU_BS_CFG", "BS_ALU_SRC", 1)
           \cup Full!F("DPU_BS_CFG", "BS_RELU_BYPASS", 1)
           \cup Full!F("DPU_BS_CFG", "BS_MUL_BYPASS", 1)
    /\ FullWord(c)["DPU_BS_OW_CFG"] = Full!F("DPU_BS_OW_CFG", "SIZE_E_2", 1)
           \cup Full!F("DPU_BS_OW_CFG", "SIZE_E_1", 1) \cup Full!F("DPU_BS_OW_CFG", "SIZE_E_0", 1)
    /\ FullWord(c)["DPU_WDMA_SIZE_0"] = Full!F("DPU_WDMA_SIZE_0", "CHANNEL_WDMA", c.n - 1)
    /\ FullWord(c)["DPU_WDMA_SIZE_1"] = Full!F("DPU_WDMA_SIZE_1", "HEIGHT_WDMA", c.m - 1)
    /\ FullWord(c)["DPU_BN_CFG"] = Full!F("DPU_BN_CFG", "BN_BYPASS", 1)
    /\ FullWord(c)["CNA_CBUF_CON0"] = Full!F("CNA_CBUF_CON0", "WEIGHT_BANK", 1)
           \cup Full!F("CNA_CBUF_CON0", "DATA_BANK", 1)
    /\ FullWord(c)["CNA_CONV_CON1"] = Full!F("CNA_CONV_CON1", "IN_PRECISION", 2)
           \cup Full!F("CNA_CONV_CON1", "PROC_PRECISION", 2)
<1> TAKE c
<1>1. /\ FullSent(c)["DPU_S_POINTER"] = Full!Pointers("DPU_S_POINTER")
      /\ FullSent(c)["CNA_CONV_CON2"] = Full!F("CNA_CONV_CON2", "FEATURE_GRAINS", 52)
      /\ FullSent(c)["CNA_CONV_CON3"] = Full!F("CNA_CONV_CON3", "CONV_X_STRIDE", 1)
             \cup Full!F("CNA_CONV_CON3", "CONV_Y_STRIDE", 1)
      /\ FullSent(c)["CNA_DATA_SIZE0"] = Full!F("CNA_DATA_SIZE0", "DATAIN_WIDTH", 1)
             \cup Full!F("CNA_DATA_SIZE0", "DATAIN_HEIGHT", c.m)
      /\ FullSent(c)["CNA_DATA_SIZE1"] = Full!F("CNA_DATA_SIZE1", "DATAIN_CHANNEL_REAL", c.k - 1)
             \cup Full!F("CNA_DATA_SIZE1", "DATAIN_CHANNEL", c.k)
      /\ FullSent(c)["CNA_DATA_SIZE2"] = Full!F("CNA_DATA_SIZE2", "DATAOUT_WIDTH", 1)
  BY SMTT(30) DEF FullSent
<1>2. /\ FullSent(c)["CNA_DATA_SIZE3"] = Full!F("CNA_DATA_SIZE3", "DATAOUT_ATOMICS", c.m)
      /\ FullSent(c)["CNA_WEIGHT_SIZE0"] = Full!Bits(c.k * c.n)
      /\ FullSent(c)["CNA_WEIGHT_SIZE1"] = Full!Bits(c.k)
      /\ FullSent(c)["CNA_WEIGHT_SIZE2"] = Full!F("CNA_WEIGHT_SIZE2", "WEIGHT_WIDTH", 1)
             \cup Full!F("CNA_WEIGHT_SIZE2", "WEIGHT_HEIGHT", 1)
             \cup Full!F("CNA_WEIGHT_SIZE2", "WEIGHT_KERNELS", c.n)
      /\ FullSent(c)["CNA_CBUF_CON1"] = Full!F("CNA_CBUF_CON1", "DATA_ENTRIES", c.m * c.k)
      /\ FullSent(c)["CNA_CVT_CON0"] = Full!F("CNA_CVT_CON0", "DATA_SIGN", 1)
             \cup Full!F("CNA_CVT_CON0", "CVT_TYPE", 1)
             \cup Full!F("CNA_CVT_CON0", "CVT_BYPASS", 1)
  BY SMTT(30) DEF FullSent
<1>3. /\ FullSent(c)["CNA_CVT_CON1"] = Full!F("CNA_CVT_CON1", "CVT_SCALE0", 1)
      /\ FullSent(c)["CNA_CVT_CON2"] = Full!F("CNA_CVT_CON2", "CVT_SCALE1", 1)
      /\ FullSent(c)["CNA_CVT_CON3"] = Full!F("CNA_CVT_CON3", "CVT_SCALE2", 1)
      /\ FullSent(c)["CNA_CVT_CON4"] = Full!F("CNA_CVT_CON4", "CVT_SCALE3", 1)
      /\ FullSent(c)["CNA_FEATURE_DATA_ADDR"] = InputDma
      /\ FullSent(c)["CNA_DCOMP_ADDR0"] = WeightsDma
  BY SMTT(30) DEF FullSent
<1>4. /\ FullSent(c)["CORE_MISC_CFG"] = Full!F("CORE_MISC_CFG", "QD_EN", 1)
      /\ FullSent(c)["CORE_DATAOUT_SIZE_0"] = Full!F("CORE_DATAOUT_SIZE_0", "DATAOUT_WIDTH", 1)
             \cup Full!F("CORE_DATAOUT_SIZE_0", "DATAOUT_HEIGHT", c.m - 1)
      /\ FullSent(c)["CORE_DATAOUT_SIZE_1"] =
             Full!F("CORE_DATAOUT_SIZE_1", "DATAOUT_CHANNEL", c.n - 1)
      /\ FullSent(c)["DPU_FEATURE_MODE_CFG"] = Full!F("DPU_FEATURE_MODE_CFG", "BURST_LEN", 15)
             \cup Full!F("DPU_FEATURE_MODE_CFG", "OUTPUT_MODE", 2)
      /\ FullSent(c)["DPU_DST_BASE_ADDR"] = OutputDma
      /\ FullSent(c)["DPU_DST_SURF_STRIDE"] = Twice(c.m * c.n)
  BY SMTT(90) DEF FullSent
<1>5. /\ FullSent(c)["DPU_DATA_CUBE_HEIGHT"] = Full!Bits(c.m - 1)
      /\ FullSent(c)["DPU_DATA_CUBE_CHANNEL"] =
             Full!F("DPU_DATA_CUBE_CHANNEL", "ORIG_CHANNEL", c.n - 1)
             \cup Full!F("DPU_DATA_CUBE_CHANNEL", "CHANNEL", c.n - 1)
      /\ FullSent(c)["DPU_BS_CFG"] = Full!F("DPU_BS_CFG", "BS_ALU_ALGO", 2)
             \cup Full!F("DPU_BS_CFG", "BS_ALU_SRC", 1)
             \cup Full!F("DPU_BS_CFG", "BS_RELU_BYPASS", 1)
             \cup Full!F("DPU_BS_CFG", "BS_MUL_BYPASS", 1)
      /\ FullSent(c)["DPU_BS_OW_CFG"] = Full!F("DPU_BS_OW_CFG", "SIZE_E_2", 1)
             \cup Full!F("DPU_BS_OW_CFG", "SIZE_E_1", 1)
             \cup Full!F("DPU_BS_OW_CFG", "SIZE_E_0", 1)
      /\ FullSent(c)["DPU_WDMA_SIZE_0"] = Full!F("DPU_WDMA_SIZE_0", "CHANNEL_WDMA", c.n - 1)
      /\ FullSent(c)["DPU_WDMA_SIZE_1"] = Full!F("DPU_WDMA_SIZE_1", "HEIGHT_WDMA", c.m - 1)
  BY SMTT(30) DEF FullSent
<1>6. /\ FullSent(c)["DPU_BN_CFG"] = Full!F("DPU_BN_CFG", "BN_BYPASS", 1)
      /\ FullSent(c)["CNA_CBUF_CON0"] = Full!F("CNA_CBUF_CON0", "WEIGHT_BANK", 1)
             \cup Full!F("CNA_CBUF_CON0", "DATA_BANK", 1)
      /\ FullSent(c)["CNA_CONV_CON1"] = Full!F("CNA_CONV_CON1", "IN_PRECISION", 2)
             \cup Full!F("CNA_CONV_CON1", "PROC_PRECISION", 2)
  BY SMTT(30) DEF FullSent
<1>7. \A r \in DOMAIN FullSent(c) : FullWord(c)[r] = FullSent(c)[r]
  BY FullSettings DEF FullWord
<1>8. /\ FullWord(c)["DPU_S_POINTER"] = Full!Pointers("DPU_S_POINTER")
      /\ FullWord(c)["CNA_CONV_CON2"] = Full!F("CNA_CONV_CON2", "FEATURE_GRAINS", 52)
      /\ FullWord(c)["CNA_CONV_CON3"] = Full!F("CNA_CONV_CON3", "CONV_X_STRIDE", 1)
             \cup Full!F("CNA_CONV_CON3", "CONV_Y_STRIDE", 1)
      /\ FullWord(c)["CNA_DATA_SIZE0"] = Full!F("CNA_DATA_SIZE0", "DATAIN_WIDTH", 1)
             \cup Full!F("CNA_DATA_SIZE0", "DATAIN_HEIGHT", c.m)
      /\ FullWord(c)["CNA_DATA_SIZE1"] = Full!F("CNA_DATA_SIZE1", "DATAIN_CHANNEL_REAL", c.k - 1)
             \cup Full!F("CNA_DATA_SIZE1", "DATAIN_CHANNEL", c.k)
      /\ FullWord(c)["CNA_DATA_SIZE2"] = Full!F("CNA_DATA_SIZE2", "DATAOUT_WIDTH", 1)
  <2>1. {"DPU_S_POINTER", "CNA_CONV_CON2", "CNA_CONV_CON3", "CNA_DATA_SIZE0", "CNA_DATA_SIZE1",
          "CNA_DATA_SIZE2"} \subseteq DOMAIN FullSent(c)
    BY FullNames
  <2> QED
    BY <1>1, <1>7, <2>1, Zenon
<1>9. /\ FullWord(c)["CNA_DATA_SIZE3"] = Full!F("CNA_DATA_SIZE3", "DATAOUT_ATOMICS", c.m)
      /\ FullWord(c)["CNA_WEIGHT_SIZE0"] = Full!Bits(c.k * c.n)
      /\ FullWord(c)["CNA_WEIGHT_SIZE1"] = Full!Bits(c.k)
      /\ FullWord(c)["CNA_WEIGHT_SIZE2"] = Full!F("CNA_WEIGHT_SIZE2", "WEIGHT_WIDTH", 1)
             \cup Full!F("CNA_WEIGHT_SIZE2", "WEIGHT_HEIGHT", 1)
             \cup Full!F("CNA_WEIGHT_SIZE2", "WEIGHT_KERNELS", c.n)
      /\ FullWord(c)["CNA_CBUF_CON1"] = Full!F("CNA_CBUF_CON1", "DATA_ENTRIES", c.m * c.k)
      /\ FullWord(c)["CNA_CVT_CON0"] = Full!F("CNA_CVT_CON0", "DATA_SIGN", 1)
             \cup Full!F("CNA_CVT_CON0", "CVT_TYPE", 1)
             \cup Full!F("CNA_CVT_CON0", "CVT_BYPASS", 1)
  <2>1. {"CNA_DATA_SIZE3", "CNA_WEIGHT_SIZE0", "CNA_WEIGHT_SIZE1", "CNA_WEIGHT_SIZE2",
          "CNA_CBUF_CON1", "CNA_CVT_CON0"} \subseteq DOMAIN FullSent(c)
    BY FullNames
  <2> QED
    BY <1>2, <1>7, <2>1, Zenon
<1>10. /\ FullWord(c)["CNA_CVT_CON1"] = Full!F("CNA_CVT_CON1", "CVT_SCALE0", 1)
      /\ FullWord(c)["CNA_CVT_CON2"] = Full!F("CNA_CVT_CON2", "CVT_SCALE1", 1)
      /\ FullWord(c)["CNA_CVT_CON3"] = Full!F("CNA_CVT_CON3", "CVT_SCALE2", 1)
      /\ FullWord(c)["CNA_CVT_CON4"] = Full!F("CNA_CVT_CON4", "CVT_SCALE3", 1)
      /\ FullWord(c)["CNA_FEATURE_DATA_ADDR"] = InputDma
      /\ FullWord(c)["CNA_DCOMP_ADDR0"] = WeightsDma
  <2>1. {"CNA_CVT_CON1", "CNA_CVT_CON2", "CNA_CVT_CON3", "CNA_CVT_CON4", "CNA_FEATURE_DATA_ADDR",
          "CNA_DCOMP_ADDR0"} \subseteq DOMAIN FullSent(c)
    BY FullNames
  <2> QED
    BY <1>3, <1>7, <2>1, Zenon
<1>11. /\ FullWord(c)["CORE_MISC_CFG"] = Full!F("CORE_MISC_CFG", "QD_EN", 1)
      /\ FullWord(c)["CORE_DATAOUT_SIZE_0"] = Full!F("CORE_DATAOUT_SIZE_0", "DATAOUT_WIDTH", 1)
             \cup Full!F("CORE_DATAOUT_SIZE_0", "DATAOUT_HEIGHT", c.m - 1)
      /\ FullWord(c)["CORE_DATAOUT_SIZE_1"] =
             Full!F("CORE_DATAOUT_SIZE_1", "DATAOUT_CHANNEL", c.n - 1)
      /\ FullWord(c)["DPU_FEATURE_MODE_CFG"] = Full!F("DPU_FEATURE_MODE_CFG", "BURST_LEN", 15)
             \cup Full!F("DPU_FEATURE_MODE_CFG", "OUTPUT_MODE", 2)
      /\ FullWord(c)["DPU_DST_BASE_ADDR"] = OutputDma
      /\ FullWord(c)["DPU_DST_SURF_STRIDE"] = Twice(c.m * c.n)
  <2>1. {"CORE_MISC_CFG", "CORE_DATAOUT_SIZE_0", "CORE_DATAOUT_SIZE_1", "DPU_FEATURE_MODE_CFG",
          "DPU_DST_BASE_ADDR", "DPU_DST_SURF_STRIDE"} \subseteq DOMAIN FullSent(c)
    BY FullNames
  <2> QED
    BY <1>4, <1>7, <2>1, Zenon
<1>12. /\ FullWord(c)["DPU_DATA_CUBE_HEIGHT"] = Full!Bits(c.m - 1)
      /\ FullWord(c)["DPU_DATA_CUBE_CHANNEL"] =
             Full!F("DPU_DATA_CUBE_CHANNEL", "ORIG_CHANNEL", c.n - 1)
             \cup Full!F("DPU_DATA_CUBE_CHANNEL", "CHANNEL", c.n - 1)
      /\ FullWord(c)["DPU_BS_CFG"] = Full!F("DPU_BS_CFG", "BS_ALU_ALGO", 2)
             \cup Full!F("DPU_BS_CFG", "BS_ALU_SRC", 1)
             \cup Full!F("DPU_BS_CFG", "BS_RELU_BYPASS", 1)
             \cup Full!F("DPU_BS_CFG", "BS_MUL_BYPASS", 1)
      /\ FullWord(c)["DPU_BS_OW_CFG"] = Full!F("DPU_BS_OW_CFG", "SIZE_E_2", 1)
             \cup Full!F("DPU_BS_OW_CFG", "SIZE_E_1", 1)
             \cup Full!F("DPU_BS_OW_CFG", "SIZE_E_0", 1)
      /\ FullWord(c)["DPU_WDMA_SIZE_0"] = Full!F("DPU_WDMA_SIZE_0", "CHANNEL_WDMA", c.n - 1)
      /\ FullWord(c)["DPU_WDMA_SIZE_1"] = Full!F("DPU_WDMA_SIZE_1", "HEIGHT_WDMA", c.m - 1)
  <2>1. {"DPU_DATA_CUBE_HEIGHT", "DPU_DATA_CUBE_CHANNEL", "DPU_BS_CFG", "DPU_BS_OW_CFG",
          "DPU_WDMA_SIZE_0", "DPU_WDMA_SIZE_1"} \subseteq DOMAIN FullSent(c)
    BY FullNames
  <2> QED
    BY <1>5, <1>7, <2>1, Zenon
<1>13. /\ FullWord(c)["DPU_BN_CFG"] = Full!F("DPU_BN_CFG", "BN_BYPASS", 1)
      /\ FullWord(c)["CNA_CBUF_CON0"] = Full!F("CNA_CBUF_CON0", "WEIGHT_BANK", 1)
             \cup Full!F("CNA_CBUF_CON0", "DATA_BANK", 1)
      /\ FullWord(c)["CNA_CONV_CON1"] = Full!F("CNA_CONV_CON1", "IN_PRECISION", 2)
             \cup Full!F("CNA_CONV_CON1", "PROC_PRECISION", 2)
  <2>1. {"DPU_BN_CFG", "CNA_CBUF_CON0", "CNA_CONV_CON1"} \subseteq DOMAIN FullSent(c)
    BY FullNames
  <2> QED
    BY <1>6, <1>7, <2>1, Zenon
<1> QED
  BY <1>8, <1>9, <1>10, <1>11, <1>12, <1>13, Zenon

(* They have 32 bits.                                                      *)
LEMMA FullNumbers == \A n : Full!Bits(n) \in SUBSET Low(32)
BY FullSame, NumberWords

(* Two words of 32 bits joined have 32 bits.                               *)
LEMMA Joins == \A a, b : a \in SUBSET Low(32) /\ b \in SUBSET Low(32) => a \cup b \in SUBSET Low(32)
OBVIOUS

(* Each word of the full list fits 32 bits.                                *)
LEMMA FullWordsFit ==
  \A c : \A r \in DOMAIN FullSent(c) : FullWord(c)[r] \in SUBSET Low(32)
<1> TAKE c
<1>0. /\ InputDma \in SUBSET Low(32) /\ WeightsDma \in SUBSET Low(32)
      /\ OutputDma \in SUBSET Low(32)
  BY MesaWordsFit, Zenon
<1>1. FullWord(c)["DPU_S_POINTER"] \in SUBSET Low(32)
  <2>1. Full!Pointers("DPU_S_POINTER") \in SUBSET Low(32)
    BY FieldPlaces, FieldsFit, Joins DEF Full!Pointers
  <2> QED
    BY <2>1, FullWords, Zenon
<1>2. FullWord(c)["CNA_CONV_CON2"] \in SUBSET Low(32)
  <2>1. Full!F("CNA_CONV_CON2", "FEATURE_GRAINS", 52) \in SUBSET Low(32)
    BY FieldPlaces, FieldsFit, Zenon
  <2> QED
    BY <2>1, FullWords, Zenon
<1>3. FullWord(c)["CNA_CONV_CON3"] \in SUBSET Low(32)
  <2>1. Full!F("CNA_CONV_CON3", "CONV_X_STRIDE", 1) \in SUBSET Low(32)
    BY FieldPlaces, FieldsFit, Zenon
  <2>2. Full!F("CNA_CONV_CON3", "CONV_Y_STRIDE", 1) \in SUBSET Low(32)
    BY FieldPlaces, FieldsFit, Zenon
  <2>3. Full!F("CNA_CONV_CON3", "CONV_X_STRIDE", 1)
          \cup Full!F("CNA_CONV_CON3", "CONV_Y_STRIDE", 1) \in SUBSET Low(32)
    BY <2>1, <2>2, Joins, Zenon
  <2> QED
    BY <2>3, FullWords, Zenon
<1>4. FullWord(c)["CNA_DATA_SIZE0"] \in SUBSET Low(32)
  <2>1. Full!F("CNA_DATA_SIZE0", "DATAIN_WIDTH", 1) \in SUBSET Low(32)
    BY FieldPlaces, FieldsFit, Zenon
  <2>2. Full!F("CNA_DATA_SIZE0", "DATAIN_HEIGHT", c.m) \in SUBSET Low(32)
    BY FieldPlaces, FieldsFit, Zenon
  <2>3. Full!F("CNA_DATA_SIZE0", "DATAIN_WIDTH", 1)
          \cup Full!F("CNA_DATA_SIZE0", "DATAIN_HEIGHT", c.m) \in SUBSET Low(32)
    BY <2>1, <2>2, Joins, Zenon
  <2> QED
    BY <2>3, FullWords, Zenon
<1>5. FullWord(c)["CNA_DATA_SIZE1"] \in SUBSET Low(32)
  <2>1. Full!F("CNA_DATA_SIZE1", "DATAIN_CHANNEL_REAL", c.k - 1) \in SUBSET Low(32)
    BY FieldPlaces, FieldsFit, Zenon
  <2>2. Full!F("CNA_DATA_SIZE1", "DATAIN_CHANNEL", c.k) \in SUBSET Low(32)
    BY FieldPlaces, FieldsFit, Zenon
  <2>3. Full!F("CNA_DATA_SIZE1", "DATAIN_CHANNEL_REAL", c.k - 1)
          \cup Full!F("CNA_DATA_SIZE1", "DATAIN_CHANNEL", c.k) \in SUBSET Low(32)
    BY <2>1, <2>2, Joins, Zenon
  <2> QED
    BY <2>3, FullWords, Zenon
<1>6. FullWord(c)["CNA_DATA_SIZE2"] \in SUBSET Low(32)
  <2>1. Full!F("CNA_DATA_SIZE2", "DATAOUT_WIDTH", 1) \in SUBSET Low(32)
    BY FieldPlaces, FieldsFit, Zenon
  <2> QED
    BY <2>1, FullWords, Zenon
<1>7. FullWord(c)["CNA_DATA_SIZE3"] \in SUBSET Low(32)
  <2>1. Full!F("CNA_DATA_SIZE3", "DATAOUT_ATOMICS", c.m) \in SUBSET Low(32)
    BY FieldPlaces, FieldsFit, Zenon
  <2> QED
    BY <2>1, FullWords, Zenon
<1>8. FullWord(c)["CNA_WEIGHT_SIZE0"] \in SUBSET Low(32)
  <2>1. Full!Bits(c.k * c.n) \in SUBSET Low(32)
    BY FullNumbers, Zenon
  <2> QED
    BY <2>1, FullWords, Zenon
<1>9. FullWord(c)["CNA_WEIGHT_SIZE1"] \in SUBSET Low(32)
  <2>1. Full!Bits(c.k) \in SUBSET Low(32)
    BY FullNumbers, Zenon
  <2> QED
    BY <2>1, FullWords, Zenon
<1>10. FullWord(c)["CNA_WEIGHT_SIZE2"] \in SUBSET Low(32)
  <2>1. Full!F("CNA_WEIGHT_SIZE2", "WEIGHT_WIDTH", 1) \in SUBSET Low(32)
    BY FieldPlaces, FieldsFit, Zenon
  <2>2. Full!F("CNA_WEIGHT_SIZE2", "WEIGHT_HEIGHT", 1) \in SUBSET Low(32)
    BY FieldPlaces, FieldsFit, Zenon
  <2>3. Full!F("CNA_WEIGHT_SIZE2", "WEIGHT_KERNELS", c.n) \in SUBSET Low(32)
    BY FieldPlaces, FieldsFit, Zenon
  <2>4. Full!F("CNA_WEIGHT_SIZE2", "WEIGHT_WIDTH", 1)
          \cup Full!F("CNA_WEIGHT_SIZE2", "WEIGHT_HEIGHT", 1) \in SUBSET Low(32)
    BY <2>1, <2>2, Joins, Zenon
  <2>5. Full!F("CNA_WEIGHT_SIZE2", "WEIGHT_WIDTH", 1)
          \cup Full!F("CNA_WEIGHT_SIZE2", "WEIGHT_HEIGHT", 1)
          \cup Full!F("CNA_WEIGHT_SIZE2", "WEIGHT_KERNELS", c.n) \in SUBSET Low(32)
    BY <2>4, <2>3, Joins, Zenon
  <2> QED
    BY <2>5, FullWords, Zenon
<1>11. FullWord(c)["CNA_CBUF_CON1"] \in SUBSET Low(32)
  <2>1. Full!F("CNA_CBUF_CON1", "DATA_ENTRIES", c.m * c.k) \in SUBSET Low(32)
    BY FieldPlaces, FieldsFit, Zenon
  <2> QED
    BY <2>1, FullWords, Zenon
<1>12. FullWord(c)["CNA_CVT_CON0"] \in SUBSET Low(32)
  <2>1. Full!F("CNA_CVT_CON0", "DATA_SIGN", 1) \in SUBSET Low(32)
    BY FieldPlaces, FieldsFit, Zenon
  <2>2. Full!F("CNA_CVT_CON0", "CVT_TYPE", 1) \in SUBSET Low(32)
    BY FieldPlaces, FieldsFit, Zenon
  <2>3. Full!F("CNA_CVT_CON0", "CVT_BYPASS", 1) \in SUBSET Low(32)
    BY FieldPlaces, FieldsFit, Zenon
  <2>4. Full!F("CNA_CVT_CON0", "DATA_SIGN", 1)
          \cup Full!F("CNA_CVT_CON0", "CVT_TYPE", 1) \in SUBSET Low(32)
    BY <2>1, <2>2, Joins, Zenon
  <2>5. Full!F("CNA_CVT_CON0", "DATA_SIGN", 1)
          \cup Full!F("CNA_CVT_CON0", "CVT_TYPE", 1)
          \cup Full!F("CNA_CVT_CON0", "CVT_BYPASS", 1) \in SUBSET Low(32)
    BY <2>4, <2>3, Joins, Zenon
  <2> QED
    BY <2>5, FullWords, Zenon
<1>13. FullWord(c)["CNA_CVT_CON1"] \in SUBSET Low(32)
  <2>1. Full!F("CNA_CVT_CON1", "CVT_SCALE0", 1) \in SUBSET Low(32)
    BY FieldPlaces, FieldsFit, Zenon
  <2> QED
    BY <2>1, FullWords, Zenon
<1>14. FullWord(c)["CNA_CVT_CON2"] \in SUBSET Low(32)
  <2>1. Full!F("CNA_CVT_CON2", "CVT_SCALE1", 1) \in SUBSET Low(32)
    BY FieldPlaces, FieldsFit, Zenon
  <2> QED
    BY <2>1, FullWords, Zenon
<1>15. FullWord(c)["CNA_CVT_CON3"] \in SUBSET Low(32)
  <2>1. Full!F("CNA_CVT_CON3", "CVT_SCALE2", 1) \in SUBSET Low(32)
    BY FieldPlaces, FieldsFit, Zenon
  <2> QED
    BY <2>1, FullWords, Zenon
<1>16. FullWord(c)["CNA_CVT_CON4"] \in SUBSET Low(32)
  <2>1. Full!F("CNA_CVT_CON4", "CVT_SCALE3", 1) \in SUBSET Low(32)
    BY FieldPlaces, FieldsFit, Zenon
  <2> QED
    BY <2>1, FullWords, Zenon
<1>17. FullWord(c)["CNA_FEATURE_DATA_ADDR"] \in SUBSET Low(32)
  <2>1. InputDma \in SUBSET Low(32)
    BY <1>0, Zenon
  <2> QED
    BY <2>1, FullWords, Zenon
<1>18. FullWord(c)["CNA_DCOMP_ADDR0"] \in SUBSET Low(32)
  <2>1. WeightsDma \in SUBSET Low(32)
    BY <1>0, Zenon
  <2> QED
    BY <2>1, FullWords, Zenon
<1>19. FullWord(c)["CORE_MISC_CFG"] \in SUBSET Low(32)
  <2>1. Full!F("CORE_MISC_CFG", "QD_EN", 1) \in SUBSET Low(32)
    BY FieldPlaces, FieldsFit, Zenon
  <2> QED
    BY <2>1, FullWords, Zenon
<1>20. FullWord(c)["CORE_DATAOUT_SIZE_0"] \in SUBSET Low(32)
  <2>1. Full!F("CORE_DATAOUT_SIZE_0", "DATAOUT_WIDTH", 1) \in SUBSET Low(32)
    BY FieldPlaces, FieldsFit, Zenon
  <2>2. Full!F("CORE_DATAOUT_SIZE_0", "DATAOUT_HEIGHT", c.m - 1) \in SUBSET Low(32)
    BY FieldPlaces, FieldsFit, Zenon
  <2>3. Full!F("CORE_DATAOUT_SIZE_0", "DATAOUT_WIDTH", 1)
          \cup Full!F("CORE_DATAOUT_SIZE_0", "DATAOUT_HEIGHT", c.m - 1) \in SUBSET Low(32)
    BY <2>1, <2>2, Joins, Zenon
  <2> QED
    BY <2>3, FullWords, Zenon
<1>21. FullWord(c)["CORE_DATAOUT_SIZE_1"] \in SUBSET Low(32)
  <2>1. Full!F("CORE_DATAOUT_SIZE_1", "DATAOUT_CHANNEL", c.n - 1) \in SUBSET Low(32)
    BY FieldPlaces, FieldsFit, Zenon
  <2> QED
    BY <2>1, FullWords, Zenon
<1>22. FullWord(c)["DPU_FEATURE_MODE_CFG"] \in SUBSET Low(32)
  <2>1. Full!F("DPU_FEATURE_MODE_CFG", "BURST_LEN", 15) \in SUBSET Low(32)
    BY FieldPlaces, FieldsFit, Zenon
  <2>2. Full!F("DPU_FEATURE_MODE_CFG", "OUTPUT_MODE", 2) \in SUBSET Low(32)
    BY FieldPlaces, FieldsFit, Zenon
  <2>3. Full!F("DPU_FEATURE_MODE_CFG", "BURST_LEN", 15)
          \cup Full!F("DPU_FEATURE_MODE_CFG", "OUTPUT_MODE", 2) \in SUBSET Low(32)
    BY <2>1, <2>2, Joins, Zenon
  <2> QED
    BY <2>3, FullWords, Zenon
<1>23. FullWord(c)["DPU_DST_BASE_ADDR"] \in SUBSET Low(32)
  <2>1. OutputDma \in SUBSET Low(32)
    BY <1>0, Zenon
  <2> QED
    BY <2>1, FullWords, Zenon
<1>24. FullWord(c)["DPU_DST_SURF_STRIDE"] \in SUBSET Low(32)
  <2>1. Twice(c.m * c.n) \in SUBSET Low(32)
    BY IntWords, Zenon
  <2> QED
    BY <2>1, FullWords, Zenon
<1>25. FullWord(c)["DPU_DATA_CUBE_HEIGHT"] \in SUBSET Low(32)
  <2>1. Full!Bits(c.m - 1) \in SUBSET Low(32)
    BY FullNumbers, Zenon
  <2> QED
    BY <2>1, FullWords, Zenon
<1>26. FullWord(c)["DPU_DATA_CUBE_CHANNEL"] \in SUBSET Low(32)
  <2>1. Full!F("DPU_DATA_CUBE_CHANNEL", "ORIG_CHANNEL", c.n - 1) \in SUBSET Low(32)
    BY FieldPlaces, FieldsFit, Zenon
  <2>2. Full!F("DPU_DATA_CUBE_CHANNEL", "CHANNEL", c.n - 1) \in SUBSET Low(32)
    BY FieldPlaces, FieldsFit, Zenon
  <2>3. Full!F("DPU_DATA_CUBE_CHANNEL", "ORIG_CHANNEL", c.n - 1)
          \cup Full!F("DPU_DATA_CUBE_CHANNEL", "CHANNEL", c.n - 1) \in SUBSET Low(32)
    BY <2>1, <2>2, Joins, Zenon
  <2> QED
    BY <2>3, FullWords, Zenon
<1>27. FullWord(c)["DPU_BS_CFG"] \in SUBSET Low(32)
  <2>1. Full!F("DPU_BS_CFG", "BS_ALU_ALGO", 2) \in SUBSET Low(32)
    BY FieldPlaces, FieldsFit, Zenon
  <2>2. Full!F("DPU_BS_CFG", "BS_ALU_SRC", 1) \in SUBSET Low(32)
    BY FieldPlaces, FieldsFit, Zenon
  <2>3. Full!F("DPU_BS_CFG", "BS_RELU_BYPASS", 1) \in SUBSET Low(32)
    BY FieldPlaces, FieldsFit, Zenon
  <2>4. Full!F("DPU_BS_CFG", "BS_MUL_BYPASS", 1) \in SUBSET Low(32)
    BY FieldPlaces, FieldsFit, Zenon
  <2>5. Full!F("DPU_BS_CFG", "BS_ALU_ALGO", 2)
          \cup Full!F("DPU_BS_CFG", "BS_ALU_SRC", 1) \in SUBSET Low(32)
    BY <2>1, <2>2, Joins, Zenon
  <2>6. Full!F("DPU_BS_CFG", "BS_ALU_ALGO", 2)
          \cup Full!F("DPU_BS_CFG", "BS_ALU_SRC", 1)
          \cup Full!F("DPU_BS_CFG", "BS_RELU_BYPASS", 1) \in SUBSET Low(32)
    BY <2>5, <2>3, Joins, Zenon
  <2>7. Full!F("DPU_BS_CFG", "BS_ALU_ALGO", 2)
          \cup Full!F("DPU_BS_CFG", "BS_ALU_SRC", 1)
          \cup Full!F("DPU_BS_CFG", "BS_RELU_BYPASS", 1)
          \cup Full!F("DPU_BS_CFG", "BS_MUL_BYPASS", 1) \in SUBSET Low(32)
    BY <2>6, <2>4, Joins, Zenon
  <2> QED
    BY <2>7, FullWords, Zenon
<1>28. FullWord(c)["DPU_BS_OW_CFG"] \in SUBSET Low(32)
  <2>1. Full!F("DPU_BS_OW_CFG", "SIZE_E_2", 1) \in SUBSET Low(32)
    BY FieldPlaces, FieldsFit, Zenon
  <2>2. Full!F("DPU_BS_OW_CFG", "SIZE_E_1", 1) \in SUBSET Low(32)
    BY FieldPlaces, FieldsFit, Zenon
  <2>3. Full!F("DPU_BS_OW_CFG", "SIZE_E_0", 1) \in SUBSET Low(32)
    BY FieldPlaces, FieldsFit, Zenon
  <2>4. Full!F("DPU_BS_OW_CFG", "SIZE_E_2", 1)
          \cup Full!F("DPU_BS_OW_CFG", "SIZE_E_1", 1) \in SUBSET Low(32)
    BY <2>1, <2>2, Joins, Zenon
  <2>5. Full!F("DPU_BS_OW_CFG", "SIZE_E_2", 1)
          \cup Full!F("DPU_BS_OW_CFG", "SIZE_E_1", 1)
          \cup Full!F("DPU_BS_OW_CFG", "SIZE_E_0", 1) \in SUBSET Low(32)
    BY <2>4, <2>3, Joins, Zenon
  <2> QED
    BY <2>5, FullWords, Zenon
<1>29. FullWord(c)["DPU_WDMA_SIZE_0"] \in SUBSET Low(32)
  <2>1. Full!F("DPU_WDMA_SIZE_0", "CHANNEL_WDMA", c.n - 1) \in SUBSET Low(32)
    BY FieldPlaces, FieldsFit, Zenon
  <2> QED
    BY <2>1, FullWords, Zenon
<1>30. FullWord(c)["DPU_WDMA_SIZE_1"] \in SUBSET Low(32)
  <2>1. Full!F("DPU_WDMA_SIZE_1", "HEIGHT_WDMA", c.m - 1) \in SUBSET Low(32)
    BY FieldPlaces, FieldsFit, Zenon
  <2> QED
    BY <2>1, FullWords, Zenon
<1>31. FullWord(c)["DPU_BN_CFG"] \in SUBSET Low(32)
  <2>1. Full!F("DPU_BN_CFG", "BN_BYPASS", 1) \in SUBSET Low(32)
    BY FieldPlaces, FieldsFit, Zenon
  <2> QED
    BY <2>1, FullWords, Zenon
<1>32. FullWord(c)["CNA_CBUF_CON0"] \in SUBSET Low(32)
  <2>1. Full!F("CNA_CBUF_CON0", "WEIGHT_BANK", 1) \in SUBSET Low(32)
    BY FieldPlaces, FieldsFit, Zenon
  <2>2. Full!F("CNA_CBUF_CON0", "DATA_BANK", 1) \in SUBSET Low(32)
    BY FieldPlaces, FieldsFit, Zenon
  <2>3. Full!F("CNA_CBUF_CON0", "WEIGHT_BANK", 1)
          \cup Full!F("CNA_CBUF_CON0", "DATA_BANK", 1) \in SUBSET Low(32)
    BY <2>1, <2>2, Joins, Zenon
  <2> QED
    BY <2>3, FullWords, Zenon
<1>33. FullWord(c)["CNA_CONV_CON1"] \in SUBSET Low(32)
  <2>1. Full!F("CNA_CONV_CON1", "IN_PRECISION", 2) \in SUBSET Low(32)
    BY FieldPlaces, FieldsFit, Zenon
  <2>2. Full!F("CNA_CONV_CON1", "PROC_PRECISION", 2) \in SUBSET Low(32)
    BY FieldPlaces, FieldsFit, Zenon
  <2>3. Full!F("CNA_CONV_CON1", "IN_PRECISION", 2)
          \cup Full!F("CNA_CONV_CON1", "PROC_PRECISION", 2) \in SUBSET Low(32)
    BY <2>1, <2>2, Joins, Zenon
  <2> QED
    BY <2>3, FullWords, Zenon
<1> QED
  BY <1>1, <1>2, <1>3, <1>4, <1>5, <1>6, <1>7, <1>8, <1>9, <1>10, <1>11, <1>12, <1>13, <1>14,
     <1>15, <1>16, <1>17, <1>18, <1>19, <1>20, <1>21, <1>22, <1>23, <1>24, <1>25, <1>26, <1>27,
     <1>28, <1>29, <1>30, <1>31, <1>32, <1>33, FullNames

-----------------------------------------------------------------------------
(* What a command of the full list says: registers that no header declares *)
(* have none, and the read DMA's are sent to a unit that does not have     *)
(* them.                                                                   *)
EnablesOf == EnableRegs \cup {"CNA_S_POINTER"}

(* A list of one command says what the command says.                       *)
LEMMA SayOne == \A cmd, W : Says(cmd, W) => AllSay(<<cmd>>, W)
<1> SUFFICES ASSUME NEW cmd, NEW W, Says(cmd, W) PROVE AllSay(<<cmd>>, W)
  OBVIOUS
<1>1. IsSeq(<<cmd>>) /\ CommandsIn(<<cmd>>) = {cmd}
  BY One
<1> QED
  BY <1>1 DEF AllSay

(* EMIT says the value of the register it names.                           *)
LEMMA EmitSays ==
  \A u \in {"PC", "CNA", "CORE", "DPU"} : \A name, W : \A v \in SUBSET Low(32) :
    name \notin EnablesOf /\ (name \in Settings => W[name] = v) =>
      AllSay(Full!EMIT(u, name, v), W)
<1> SUFFICES ASSUME NEW u \in {"PC", "CNA", "CORE", "DPU"}, NEW name, NEW W,
                    NEW v \in SUBSET Low(32), name \notin EnablesOf,
                    name \in Settings => W[name] = v
             PROVE  AllSay(Full!EMIT(u, name, v), W)
  OBVIOUS
<1>1. \A cmd : Says(cmd, W) => AllSay(<<cmd>>, W)
  BY SayOne, Zenon
<1>2. CASE name \in DOMAIN Registers
  <2>1. PICK no : no = Registers[name].no
    OBVIOUS
  <2>2. PICK cmd : cmd = MESA_REGCMD(Bits(Target[u]), v, Bits(no))
    OBVIOUS
  <2>3. Full!EMIT(u, name, v) = <<cmd>>
    BY <1>2, <2>1, <2>2, FullSame, FullMap, Zenon DEF Full!EMIT, Full!RAW
  <2>4. CASE name \in Settings
    <3>1. Says(cmd, W)
      BY <2>1, <2>2, <2>4, MesaSays, Zenon
    <3> QED
      BY <1>1, <2>3, <3>1, Zenon
  <2>5. CASE name \notin Settings
    <3>1. \h5000 < no /\ no < \h6000 /\ no \in Nat
      <4>1. \h5000 < no /\ no < \h6000
        BY <1>2, <2>1, <2>5, AllRegisters DEF Settings, Config, EnablesOf, EnableRegs
      <4>2. no \in Nat
        BY <1>2, <2>1, NumberBounds
      <4> QED
        BY <4>1, <4>2
    <3>2. Short(no) /\ no \notin UnitRegs[u]
      BY <3>1, UnitRanges DEF Short
    <3>3. Says(cmd, W)
      BY <2>2, <3>2, MesaSaysNothing, Zenon
    <3> QED
      BY <1>1, <2>3, <3>3, Zenon
  <2> QED
    BY <2>4, <2>5
<1>3. CASE name \notin DOMAIN Registers
  <2>1. Full!EMIT(u, name, v) = <<Full!NoWord>>
    BY <1>3, FullMap, Zenon DEF Full!EMIT
  <2>2. Says(Full!NoWord, W)
    BY Zenon DEF Says, Writes
  <2> QED
    BY <1>1, <2>1, <2>2, Zenon
<1> QED
  BY <1>2, <1>3

(* So it does an int: as its word if it is not negative, else to no unit.  *)
LEMMA EmitIntSays ==
  \A u \in {"PC", "CNA", "CORE", "DPU"} : \A name, W : \A w \in SUBSET Low(32) :
    name \notin EnablesOf /\ (name \in Settings => W[name] = w) =>
      AllSay(Full!EMIT(u, name, Uint64(w)), W)
<1> SUFFICES ASSUME NEW u \in {"PC", "CNA", "CORE", "DPU"}, NEW name, NEW W,
                    NEW w \in SUBSET Low(32), name \notin EnablesOf,
                    name \in Settings => W[name] = w
             PROVE  AllSay(Full!EMIT(u, name, Uint64(w)), W)
  BY Zenon
<1>1. CASE 31 \notin w
  <2>1. Uint64(w) = w
    BY <1>1, NotNegative, Zenon
  <2> QED
    BY <2>1, EmitSays, Zenon
<1>2. CASE 31 \in w /\ name \in DOMAIN Registers
  <2>1. PICK no : no = Registers[name].no
    OBVIOUS
  <2>2. PICK cmd : cmd = MESA_REGCMD(Bits(Target[u]), Uint64(w), Bits(no))
    OBVIOUS
  <2>3. Full!EMIT(u, name, Uint64(w)) = <<cmd>>
    BY <1>2, <2>1, <2>2, FullSame, FullMap, Zenon DEF Full!EMIT, Full!RAW
  <2>4. Bits(no) \in SUBSET Low(17)
    <3>1. Short(no)
      BY <1>2, <2>1, NumberBounds DEF Short
    <3>2. Bits(no) \subseteq Low(16) /\ Low(16) \subseteq Low(17)
      BY <3>1, NumberWords DEF Low
    <3> QED
      BY <3>2
  <2>5. Bits(Target[u]) \in SUBSET Low(16)
    BY TargetBits DEF Low
  <2>6. Says(cmd, W)
    BY <1>2, <2>2, <2>4, <2>5, SpilledSays, Zenon
  <2> QED
    BY <2>3, <2>6, SayOne, Zenon
<1>3. CASE name \notin DOMAIN Registers
  <2>1. Full!EMIT(u, name, Uint64(w)) = <<Full!NoWord>>
    BY <1>3, FullMap, Zenon DEF Full!EMIT
  <2>2. Says(Full!NoWord, W)
    BY Zenon DEF Says, Writes
  <2> QED
    BY <2>1, <2>2, SayOne, Zenon
<1> QED
  BY <1>1, <1>2, <1>3, Zenon

(* A list of registers that are cleared.                                   *)
LEMMA ZerosSay ==
  \A u \in {"PC", "CNA", "CORE", "DPU"} : \A W, regs, N :
    Lists(regs, N) /\ (\A r \in N : r \notin EnablesOf /\ (r \in Settings => W[r] = {})) =>
      AllSay(Full!Zeros(u, regs), W)
<1> SUFFICES ASSUME NEW u \in {"PC", "CNA", "CORE", "DPU"}, NEW W, NEW regs, NEW N,
                    Lists(regs, N),
                    \A r \in N : r \notin EnablesOf /\ (r \in Settings => W[r] = {})
             PROVE  AllSay(Full!Zeros(u, regs), W)
  OBVIOUS
<1>1. regs \in Seq(N) /\ N = CommandsIn(regs)
  BY DEF Lists, IsSeq
<1>2. PICK E : E = [i \in DOMAIN regs |-> Full!EMIT(u, regs[i], {})[1]]
  OBVIOUS
<1>3. Full!Zeros(u, regs) = E
  BY <1>2, Zenon DEF Full!Zeros
<1>4. {} \in SUBSET Low(32)
  OBVIOUS
<1>5. ASSUME NEW i \in DOMAIN regs PROVE Says(E[i], W)
  <2>1. regs[i] \in N
    BY <1>1 DEF CommandsIn
  <2>2. AllSay(Full!EMIT(u, regs[i], {}), W)
    BY <1>4, <2>1, EmitSays, Zenon
  <2>3. \E cmd : Full!EMIT(u, regs[i], {}) = <<cmd>>
    BY ZenonT(60) DEF Full!EMIT, Full!RAW
  <2>4. PICK cmd : Full!EMIT(u, regs[i], {}) = <<cmd>>
    BY <2>3
  <2>5. Full!EMIT(u, regs[i], {})[1] = cmd /\ CommandsIn(<<cmd>>) = {cmd}
    BY <2>4, One
  <2>6. Says(cmd, W)
    BY <2>2, <2>4, <2>5, Zenon DEF AllSay
  <2>7. E[i] = Full!EMIT(u, regs[i], {})[1]
    BY <1>2, Zenon
  <2> QED
    BY <2>5, <2>6, <2>7, Zenon
<1>6. DOMAIN E = 1..Len(regs) /\ Len(regs) \in Nat /\ DOMAIN regs = 1..Len(regs)
  BY <1>1, <1>2
<1>7. E \in Seq(CommandsIn(E))
  <2>1. E = [i \in 1..Len(regs) |-> E[i]]
    BY <1>2, <1>6
  <2>2. \A i \in 1..Len(regs) : E[i] \in CommandsIn(E)
    BY <1>6 DEF CommandsIn
  <2> QED
    BY <1>6, <2>1, <2>2
<1>8. \A cmd \in CommandsIn(E) : Says(cmd, W)
  BY <1>5, <1>6 DEF CommandsIn
<1> QED
  BY <1>3, <1>7, <1>8, Zenon DEF AllSay, IsSeq

(* The commands that name no unit, and that of a register not documented.  *)
LEMMA RawSaysNothing ==
  \A W, t, no : \A v \in SUBSET Low(32) :
    /\ Bits(t) \in SUBSET Low(16) /\ Bits(t) # {} /\ Bits(no) \in SUBSET Low(16)
    /\ <<Bits(t) \ {0}, Bits(no)>> \in Undocumented \cup Raw
    => AllSay(Full!RAW(t, no, v), W)
<1> SUFFICES ASSUME NEW W, NEW t, NEW no, NEW v \in SUBSET Low(32),
                    Bits(t) \in SUBSET Low(16), Bits(t) # {}, Bits(no) \in SUBSET Low(16),
                    <<Bits(t) \ {0}, Bits(no)>> \in Undocumented \cup Raw
             PROVE  AllSay(Full!RAW(t, no, v), W)
  OBVIOUS
<1>1. PICK cmd : cmd = MESA_REGCMD(Bits(t), v, Bits(no))
  OBVIOUS
<1>2. Full!RAW(t, no, v) = <<cmd>>
  BY <1>1, FullSame, Zenon DEF Full!RAW
<1>3. Key(cmd) = <<Bits(t) \ {0}, Bits(no)>>
  BY <1>1, MesaParts, Zenon
<1>4. Says(cmd, W)
  BY <1>3, NotKnown, Zenon DEF Says
<1> QED
  BY <1>2, <1>4, SayOne, Zenon

(* The commands that end the list name no register that configures.        *)
LEMMA EndSays == \A W : \A v \in SUBSET Low(32) : AllSay(Full!RAW(\h41, 0, v), W)
<1> SUFFICES ASSUME NEW W, NEW v \in SUBSET Low(32)
             PROVE  AllSay(Full!RAW(\h41, 0, v), W)
  OBVIOUS
<1>1. Bits(\h41) = {0, 6} /\ Bits(0) = {} /\ Bits(\h40) = {6}
  BY SomeBits
<1>2. {0, 6} \in SUBSET Low(16) /\ {0, 6} \ {0} = {6} /\ {} \in SUBSET Low(16) /\ {0, 6} # {}
  BY DEF Low
<1>3. <<{6}, {}>> \in Raw
  BY <1>1, Zenon DEF Raw
<1>4. /\ Bits(\h41) \in SUBSET Low(16) /\ Bits(\h41) # {} /\ Bits(0) \in SUBSET Low(16)
      /\ <<Bits(\h41) \ {0}, Bits(0)>> = <<{6}, {}>>
  BY <1>1, <1>2, Zenon
<1>5. <<Bits(\h41) \ {0}, Bits(0)>> \in Undocumented \cup Raw
  BY <1>3, <1>4, Zenon
<1> QED
  BY <1>4, <1>5, RawSaysNothing, Zenon

(* Neither does the command that starts the units.                         *)
LEMMA StartSays ==
  \A W : \A v \in SUBSET Low(32) :
    AllSay(Full!RAW(\h81, Full!Registers["PC_OPERATION_ENABLE"].no, v), W)
<1> SUFFICES ASSUME NEW W, NEW v \in SUBSET Low(32)
             PROVE  AllSay(Full!RAW(\h81, Full!Registers["PC_OPERATION_ENABLE"].no, v), W)
  OBVIOUS
<1>1. Bits(\h81) = {0, 7} /\ Bits(\h8) = {3} /\ Bits(\h80) = {7}
  BY SomeBits
<1>2. {0, 7} \in SUBSET Low(16) /\ {0, 7} \ {0} = {7} /\ {3} \in SUBSET Low(16) /\ {0, 7} # {}
  BY DEF Low
<1>3. <<{7}, {3}>> \in Raw
  BY <1>1, Zenon DEF Raw
<1>4. Full!Registers["PC_OPERATION_ENABLE"].no = \h8
  BY FullMap, OtherTargets
<1>5. PICK t : t = \h81
  OBVIOUS
<1>6. PICK no : no = \h8
  OBVIOUS
<1>7. Bits(t) = {0, 7} /\ Bits(no) = {3}
  BY <1>1, <1>5, <1>6
<1>8. /\ Bits(t) \in SUBSET Low(16) /\ Bits(t) # {} /\ Bits(no) \in SUBSET Low(16)
      /\ <<Bits(t) \ {0}, Bits(no)>> = <<{7}, {3}>>
  BY <1>2, <1>7, Zenon
<1>9. <<Bits(t) \ {0}, Bits(no)>> \in Undocumented \cup Raw
  BY <1>3, <1>8, Zenon
<1>10. AllSay(Full!RAW(t, no, v), W)
  BY <1>8, <1>9, RawSaysNothing, Zenon
<1> QED
  BY <1>4, <1>5, <1>6, <1>10

(* Nor does the one to a register the header does not have.                *)
LEMMA UndocumentedSays ==
  \A W : \A v \in SUBSET Low(32) : AllSay(Full!RAW(Full!Target["CORE"] + 1, \h3030, v), W)
<1> SUFFICES ASSUME NEW W, NEW v \in SUBSET Low(32)
             PROVE  AllSay(Full!RAW(Full!Target["CORE"] + 1, \h3030, v), W)
  OBVIOUS
<1>1. PICK t : t = Full!Target["CORE"] + 1
  OBVIOUS
<1>2. PICK no : no = \h3030
  OBVIOUS
<1>3. t = \h801
  BY <1>1, FullMap DEF Target
<1>4. Bits(t) = {0, 11} /\ Bits(Target["CORE"]) = {11}
  BY <1>3, SomeBits, TargetBits
<1>5. {0, 11} \in SUBSET Low(16) /\ {0, 11} \ {0} = {11} /\ {0, 11} # {}
  BY DEF Low
<1>6. Bits(no) \in SUBSET Low(16)
  BY <1>2, NumberWords DEF Short
<1>7. <<{11}, Bits(no)>> \in Undocumented
  BY <1>2, <1>4 DEF Undocumented
<1>8. <<Bits(t) \ {0}, Bits(no)>> = <<{11}, Bits(no)>>
  BY <1>4, <1>5, Zenon
<1>9. <<Bits(t) \ {0}, Bits(no)>> \in Undocumented \cup Raw
  BY <1>7, <1>8, Zenon
<1>10. Bits(t) \in SUBSET Low(16) /\ Bits(t) # {}
  BY <1>4, <1>5, Zenon
<1>11. AllSay(Full!RAW(t, no, v), W)
  BY <1>6, <1>9, <1>10, RawSaysNothing, Zenon
<1> QED
  BY <1>1, <1>2, <1>11

(* A command that does not compile says nothing.                           *)
LEMMA NoWordSays == \A W : AllSay(<<Full!NoWord>>, W)
<1> TAKE W
<1>1. Says(Full!NoWord, W)
  BY Zenon DEF Says, Writes
<1> QED
  BY <1>1, SayOne, Zenon

-----------------------------------------------------------------------------
(* The pieces of the list.                                                 *)
LEMMA FullSets ==
  \A c : \A r \in DOMAIN FullSent(c) :
    \A u \in {"PC", "CNA", "CORE", "DPU"} : AllSay(Full!EMIT(u, r, FullWord(c)[r]), FullWord(c))
<1> TAKE c
<1> TAKE r \in DOMAIN FullSent(c)
<1>1. r \notin EnablesOf
  BY FullNames DEF EnablesOf, EnableRegs
<1> QED
  BY <1>1, FullWordsFit, EmitSays, Zenon

(* A register that is not among the list's words is cleared.               *)
LEMMA FullClears ==
  \A c, r : r \notin DOMAIN FullSent(c) /\ r \in Settings => FullWord(c)[r] = {}
BY DEF FullWord

(* A register that configures none of the three units may get any value.   *)
LEMMA FullOthers ==
  \A c, r : \A v \in SUBSET Low(32) : r \notin Settings /\ r \notin EnablesOf =>
    AllSay(Full!EMIT("DPU", r, v), FullWord(c))
BY EmitSays, Zenon

(* The same for the ints.                                                  *)
LEMMA FullIntSets ==
  \A c : \A r \in DOMAIN FullSent(c) : \A u \in {"PC", "CNA", "CORE", "DPU"} :
    AllSay(Full!EMIT(u, r, Uint64(FullWord(c)[r])), FullWord(c))
<1> TAKE c
<1> TAKE r \in DOMAIN FullSent(c)
<1>1. r \notin EnablesOf
  BY FullNames DEF EnablesOf, EnableRegs
<1> QED
  BY <1>1, FullWordsFit, EmitIntSays, Zenon

(* And for registers that configure none of the three units.              *)
LEMMA FullIntOthers ==
  \A c, r : \A w \in SUBSET Low(32) : r \notin Settings /\ r \notin EnablesOf =>
    AllSay(Full!EMIT("DPU", r, Uint64(w)), FullWord(c))
BY EmitIntSays, Zenon

(* The shares of the buffer.                                               *)
LEMMA BankSharesSays == \A c : AllSay(Full!BankShares, FullWord(c))
<1> TAKE c
<1>1. "CNA_CBUF_CON0" \in DOMAIN FullSent(c)
  BY FullNames
<1>2. Full!BankShares = Full!EMIT("CNA", "CNA_CBUF_CON0", FullWord(c)["CNA_CBUF_CON0"])
  BY FullWords, Zenon DEF Full!BankShares
<1> QED
  BY <1>1, <1>2, FullSets, Zenon

(* The precisions.                                                         *)
LEMMA ConvSays == \A c : AllSay(Full!Conv, FullWord(c))
<1> TAKE c
<1>1. "CNA_CONV_CON1" \in DOMAIN FullSent(c)
  BY FullNames
<1>2. Full!Conv = Full!EMIT("CNA", "CNA_CONV_CON1", FullWord(c)["CNA_CONV_CON1"])
  BY FullWords, Zenon DEF Full!Conv
<1> QED
  BY <1>1, <1>2, FullSets, Zenon

(* The list's beginning.                                                   *)
LEMMA PrologueSays == \A c : AllSay(Full!Prologue, FullWord(c))
<1> TAKE c
<1> DEFINE s1 == Full!BankShares
<1> DEFINE s2 == Full!Zeros("CNA", <<"CNA_DCOMP_REGNUM", "CNA_DCOMP_CTRL">>)
<1> DEFINE s3 == Full!Conv
<1> DEFINE s4 == Full!EMIT("DPU", "DPU_S_POINTER", Full!Pointers("DPU_S_POINTER"))
<1> DEFINE s5 ==
      Full!EMIT("DPU", "DPU_RDMA_RDMA_S_POINTER",
        Full!Pointers("DPU_RDMA_RDMA_S_POINTER"))
<1>0. Full!Prologue = s1 \o s2 \o s3 \o s4 \o s5
  BY ZenonT(60) DEF Full!Prologue
<1>1. AllSay(s1, FullWord(c))
  BY BankSharesSays, Zenon
<1>2. AllSay(s2, FullWord(c))
  <2> DEFINE regs ==
        <<"CNA_DCOMP_REGNUM", "CNA_DCOMP_CTRL">>
  <2> DEFINE N ==
        {"CNA_DCOMP_REGNUM", "CNA_DCOMP_CTRL"}
  <2>1. Lists(regs, N)
    BY TuplesList, Zenon
  <2>2. \A r \in N : r \notin EnablesOf /\ r \notin DOMAIN FullSent(c)
    BY FullNames DEF EnablesOf, EnableRegs
  <2>3. s2 = Full!Zeros("CNA", regs)
    OBVIOUS
  <2> HIDE DEF regs, N, s2
  <2> QED
    BY <2>1, <2>2, <2>3, FullClears, ZerosSay, ZenonT(60)
<1>3. AllSay(s3, FullWord(c))
  BY ConvSays, Zenon
<1>4. AllSay(s4, FullWord(c))
  <2>1. "DPU_S_POINTER" \in DOMAIN FullSent(c)
    BY FullNames
  <2>2. s4 = Full!EMIT("DPU", "DPU_S_POINTER", FullWord(c)["DPU_S_POINTER"])
    BY FullWords, Zenon
  <2> HIDE DEF s4
  <2> QED
    BY <2>1, <2>2, FullSets, Zenon
<1>5. AllSay(s5, FullWord(c))
  <2>1. "DPU_RDMA_RDMA_S_POINTER" \notin Settings /\ "DPU_RDMA_RDMA_S_POINTER" \notin EnablesOf
    BY CnaNames, CoreNames, DpuNames DEF Settings, Config, EnablesOf, EnableRegs
  <2>2. Full!Pointers("DPU_RDMA_RDMA_S_POINTER") \in SUBSET Low(32)
    BY FieldPlaces, FieldsFit, Joins DEF Full!Pointers
  <2> QED
    BY <2>1, <2>2, FullOthers, Zenon
<1> HIDE DEF s1, s2, s3, s4, s5
<1>6. AllSay(s1 \o s2, FullWord(c))
  BY <1>1, <1>2, SayJoined, Zenon
<1>7. AllSay(s1 \o s2 \o s3, FullWord(c))
  BY <1>6, <1>3, SayJoined, Zenon
<1>8. AllSay(s1 \o s2 \o s3 \o s4, FullWord(c))
  BY <1>7, <1>4, SayJoined, Zenon
<1>9. AllSay(s1 \o s2 \o s3 \o s4 \o s5, FullWord(c))
  BY <1>8, <1>5, SayJoined, Zenon
<1> QED
  BY <1>0, <1>9, Zenon

(* The sizes of the job.                                                   *)
LEMMA SizesSays == \A c : AllSay(Full!Sizes(c), FullWord(c))
<1> TAKE c
<1> DEFINE s1 == Full!Conv
<1> DEFINE s2 == Full!EMIT("CNA", "CNA_CONV_CON2", Full!F("CNA_CONV_CON2", "FEATURE_GRAINS", 52))
<1> DEFINE s3 ==
      Full!EMIT("CNA", "CNA_CONV_CON3",
        Full!F("CNA_CONV_CON3", "CONV_X_STRIDE", 1)
          \cup Full!F("CNA_CONV_CON3", "CONV_Y_STRIDE", 1))
<1> DEFINE s4 ==
      Full!EMIT("CNA", "CNA_DATA_SIZE0",
        Full!F("CNA_DATA_SIZE0", "DATAIN_WIDTH", 1)
          \cup Full!F("CNA_DATA_SIZE0", "DATAIN_HEIGHT", c.m))
<1> DEFINE s5 ==
      Full!EMIT("CNA", "CNA_DATA_SIZE1",
        Full!F("CNA_DATA_SIZE1", "DATAIN_CHANNEL_REAL", c.k - 1)
          \cup Full!F("CNA_DATA_SIZE1", "DATAIN_CHANNEL", c.k))
<1> DEFINE s6 == Full!EMIT("CNA", "CNA_DATA_SIZE2", Full!F("CNA_DATA_SIZE2", "DATAOUT_WIDTH", 1))
<1> DEFINE s7 ==
      Full!EMIT("CNA", "CNA_DATA_SIZE3",
        Full!F("CNA_DATA_SIZE3", "DATAOUT_ATOMICS", c.m))
<1> DEFINE s8 == Full!EMIT("CNA", "CNA_WEIGHT_SIZE0", Full!IntBits(c.k * c.n))
<1> DEFINE s9 == Full!EMIT("CNA", "CNA_WEIGHT_SIZE1", Full!IntBits(c.k))
<1> DEFINE s10 ==
      Full!EMIT("CNA", "CNA_WEIGHT_SIZE2",
        Full!F("CNA_WEIGHT_SIZE2", "WEIGHT_WIDTH", 1)
          \cup Full!F("CNA_WEIGHT_SIZE2", "WEIGHT_HEIGHT", 1)
          \cup Full!F("CNA_WEIGHT_SIZE2", "WEIGHT_KERNELS", c.n))
<1> DEFINE s11 == Full!BanksAgain
<1> DEFINE s12 ==
      Full!EMIT("CNA", "CNA_CBUF_CON1",
        Full!F("CNA_CBUF_CON1", "DATA_ENTRIES", c.m * c.k))
<1>0. Full!Sizes(c) = s1 \o s2 \o s3 \o s4 \o s5 \o s6 \o s7 \o s8 \o s9 \o s10 \o s11 \o s12
  BY ZenonT(60) DEF Full!Sizes
<1>1. AllSay(s1, FullWord(c))
  BY ConvSays, Zenon
<1>2. AllSay(s2, FullWord(c))
  <2>1. "CNA_CONV_CON2" \in DOMAIN FullSent(c)
    BY FullNames
  <2>2. s2 = Full!EMIT("CNA", "CNA_CONV_CON2", FullWord(c)["CNA_CONV_CON2"])
    BY FullWords, Zenon
  <2> HIDE DEF s2
  <2> QED
    BY <2>1, <2>2, FullSets, Zenon
<1>3. AllSay(s3, FullWord(c))
  <2>1. "CNA_CONV_CON3" \in DOMAIN FullSent(c)
    BY FullNames
  <2>2. s3 = Full!EMIT("CNA", "CNA_CONV_CON3", FullWord(c)["CNA_CONV_CON3"])
    BY FullWords, Zenon
  <2> HIDE DEF s3
  <2> QED
    BY <2>1, <2>2, FullSets, Zenon
<1>4. AllSay(s4, FullWord(c))
  <2>1. "CNA_DATA_SIZE0" \in DOMAIN FullSent(c)
    BY FullNames
  <2>2. s4 = Full!EMIT("CNA", "CNA_DATA_SIZE0", FullWord(c)["CNA_DATA_SIZE0"])
    BY FullWords, Zenon
  <2> HIDE DEF s4
  <2> QED
    BY <2>1, <2>2, FullSets, Zenon
<1>5. AllSay(s5, FullWord(c))
  <2>1. "CNA_DATA_SIZE1" \in DOMAIN FullSent(c)
    BY FullNames
  <2>2. s5 = Full!EMIT("CNA", "CNA_DATA_SIZE1", FullWord(c)["CNA_DATA_SIZE1"])
    BY FullWords, Zenon
  <2> HIDE DEF s5
  <2> QED
    BY <2>1, <2>2, FullSets, Zenon
<1>6. AllSay(s6, FullWord(c))
  <2>1. "CNA_DATA_SIZE2" \in DOMAIN FullSent(c)
    BY FullNames
  <2>2. s6 = Full!EMIT("CNA", "CNA_DATA_SIZE2", FullWord(c)["CNA_DATA_SIZE2"])
    BY FullWords, Zenon
  <2> HIDE DEF s6
  <2> QED
    BY <2>1, <2>2, FullSets, Zenon
<1>7. AllSay(s7, FullWord(c))
  <2>1. "CNA_DATA_SIZE3" \in DOMAIN FullSent(c)
    BY FullNames
  <2>2. s7 = Full!EMIT("CNA", "CNA_DATA_SIZE3", FullWord(c)["CNA_DATA_SIZE3"])
    BY FullWords, Zenon
  <2> HIDE DEF s7
  <2> QED
    BY <2>1, <2>2, FullSets, Zenon
<1>8. AllSay(s8, FullWord(c))
  <2>1. "CNA_WEIGHT_SIZE0" \in DOMAIN FullSent(c)
    BY FullNames
  <2>2. s8 = Full!EMIT("CNA", "CNA_WEIGHT_SIZE0", Uint64(FullWord(c)["CNA_WEIGHT_SIZE0"]))
    BY FullWords, FullSame, IntWords, Zenon
  <2> HIDE DEF s8
  <2> QED
    BY <2>1, <2>2, FullIntSets, Zenon
<1>9. AllSay(s9, FullWord(c))
  <2>1. "CNA_WEIGHT_SIZE1" \in DOMAIN FullSent(c)
    BY FullNames
  <2>2. s9 = Full!EMIT("CNA", "CNA_WEIGHT_SIZE1", Uint64(FullWord(c)["CNA_WEIGHT_SIZE1"]))
    BY FullWords, FullSame, IntWords, Zenon
  <2> HIDE DEF s9
  <2> QED
    BY <2>1, <2>2, FullIntSets, Zenon
<1>10. AllSay(s10, FullWord(c))
  <2>1. "CNA_WEIGHT_SIZE2" \in DOMAIN FullSent(c)
    BY FullNames
  <2>2. s10 = Full!EMIT("CNA", "CNA_WEIGHT_SIZE2", FullWord(c)["CNA_WEIGHT_SIZE2"])
    BY FullWords, Zenon
  <2> HIDE DEF s10
  <2> QED
    BY <2>1, <2>2, FullSets, Zenon
<1>11. AllSay(s11, FullWord(c))
  BY BankSharesSays, Zenon DEF Full!BanksAgain
<1>12. AllSay(s12, FullWord(c))
  <2>1. "CNA_CBUF_CON1" \in DOMAIN FullSent(c)
    BY FullNames
  <2>2. s12 = Full!EMIT("CNA", "CNA_CBUF_CON1", FullWord(c)["CNA_CBUF_CON1"])
    BY FullWords, Zenon
  <2> HIDE DEF s12
  <2> QED
    BY <2>1, <2>2, FullSets, Zenon
<1> HIDE DEF s1, s2, s3, s4, s5, s6, s7, s8, s9, s10, s11, s12
<1>13. AllSay(s1 \o s2, FullWord(c))
  BY <1>1, <1>2, SayJoined, Zenon
<1>14. AllSay(s1 \o s2 \o s3, FullWord(c))
  BY <1>13, <1>3, SayJoined, Zenon
<1>15. AllSay(s1 \o s2 \o s3 \o s4, FullWord(c))
  BY <1>14, <1>4, SayJoined, Zenon
<1>16. AllSay(s1 \o s2 \o s3 \o s4 \o s5, FullWord(c))
  BY <1>15, <1>5, SayJoined, Zenon
<1>17. AllSay(s1 \o s2 \o s3 \o s4 \o s5 \o s6, FullWord(c))
  BY <1>16, <1>6, SayJoined, Zenon
<1>18. AllSay(s1 \o s2 \o s3 \o s4 \o s5 \o s6 \o s7, FullWord(c))
  BY <1>17, <1>7, SayJoined, Zenon
<1>19. AllSay(s1 \o s2 \o s3 \o s4 \o s5 \o s6 \o s7 \o s8, FullWord(c))
  BY <1>18, <1>8, SayJoined, Zenon
<1>20. AllSay(s1 \o s2 \o s3 \o s4 \o s5 \o s6 \o s7 \o s8 \o s9, FullWord(c))
  BY <1>19, <1>9, SayJoined, Zenon
<1>21. AllSay(s1 \o s2 \o s3 \o s4 \o s5 \o s6 \o s7 \o s8 \o s9 \o s10, FullWord(c))
  BY <1>20, <1>10, SayJoined, Zenon
<1>22. AllSay(s1 \o s2 \o s3 \o s4 \o s5 \o s6 \o s7 \o s8 \o s9 \o s10 \o s11, FullWord(c))
  BY <1>21, <1>11, SayJoined, Zenon
<1>23. AllSay(s1 \o s2 \o s3 \o s4 \o s5 \o s6 \o s7 \o s8 \o s9 \o s10 \o s11
              \o s12, FullWord(c))
  BY <1>22, <1>12, SayJoined, Zenon
<1> QED
  BY <1>0, <1>23, Zenon

(* The input and the weights.                                              *)
LEMMA InputSays == \A c : AllSay(Full!Input, FullWord(c))
<1> TAKE c
<1> DEFINE s1 ==
      Full!EMIT("CNA", "CNA_CVT_CON0",
        Full!F("CNA_CVT_CON0", "DATA_SIGN", 1) \cup Full!F("CNA_CVT_CON0", "CVT_TYPE", 1)
          \cup Full!F("CNA_CVT_CON0", "CVT_BYPASS", 1))
<1> DEFINE s2 == Full!EMIT("CNA", "CNA_CVT_CON1", Full!F("CNA_CVT_CON1", "CVT_SCALE0", 1))
<1> DEFINE s3 == Full!EMIT("CNA", "CNA_CVT_CON2", Full!F("CNA_CVT_CON2", "CVT_SCALE1", 1))
<1> DEFINE s4 == Full!EMIT("CNA", "CNA_CVT_CON3", Full!F("CNA_CVT_CON3", "CVT_SCALE2", 1))
<1> DEFINE s5 == Full!EMIT("CNA", "CNA_CVT_CON4", Full!F("CNA_CVT_CON4", "CVT_SCALE3", 1))
<1> DEFINE s6 == Full!Zeros("CNA", <<"CNA_FC_CON0", "CNA_FC_CON1", "CNA_PAD_CON0">>)
<1> DEFINE s7 == Full!EMIT("CNA", "CNA_FEATURE_DATA_ADDR", InputDma)
<1> DEFINE s8 ==
      Full!Zeros("CNA",
        <<"CNA_FC_CON2", "CNA_FC_DATA_SIZE0", "CNA_FC_DATA_SIZE1", "CNA_DCOMP_CTRL",
          "CNA_DCOMP_REGNUM">>)
<1> DEFINE s9 == Full!EMIT("CNA", "CNA_DCOMP_ADDR0", WeightsDma)
<1> DEFINE s10 ==
      Full!Zeros("CNA",
        <<"CNA_DCOMP_AMOUNT0", "CNA_DCOMP_AMOUNT1", "CNA_DCOMP_AMOUNT2", "CNA_DCOMP_AMOUNT3",
          "CNA_DCOMP_AMOUNT4", "CNA_DCOMP_AMOUNT5", "CNA_DCOMP_AMOUNT6", "CNA_DCOMP_AMOUNT7",
          "CNA_DCOMP_AMOUNT8", "CNA_DCOMP_AMOUNT9", "CNA_DCOMP_AMOUNT10", "CNA_DCOMP_AMOUNT11",
          "CNA_DCOMP_AMOUNT12", "CNA_DCOMP_AMOUNT13", "CNA_DCOMP_AMOUNT14", "CNA_DCOMP_AMOUNT15",
          "CNA_CVT_CON5", "CNA_PAD_CON1">>)
<1>0. Full!Input = s1 \o s2 \o s3 \o s4 \o s5 \o s6 \o s7 \o s8 \o s9 \o s10
  BY ZenonT(60) DEF Full!Input
<1>1. AllSay(s1, FullWord(c))
  <2>1. "CNA_CVT_CON0" \in DOMAIN FullSent(c)
    BY FullNames
  <2>2. s1 = Full!EMIT("CNA", "CNA_CVT_CON0", FullWord(c)["CNA_CVT_CON0"])
    BY FullWords, Zenon
  <2> HIDE DEF s1
  <2> QED
    BY <2>1, <2>2, FullSets, Zenon
<1>2. AllSay(s2, FullWord(c))
  <2>1. "CNA_CVT_CON1" \in DOMAIN FullSent(c)
    BY FullNames
  <2>2. s2 = Full!EMIT("CNA", "CNA_CVT_CON1", FullWord(c)["CNA_CVT_CON1"])
    BY FullWords, Zenon
  <2> HIDE DEF s2
  <2> QED
    BY <2>1, <2>2, FullSets, Zenon
<1>3. AllSay(s3, FullWord(c))
  <2>1. "CNA_CVT_CON2" \in DOMAIN FullSent(c)
    BY FullNames
  <2>2. s3 = Full!EMIT("CNA", "CNA_CVT_CON2", FullWord(c)["CNA_CVT_CON2"])
    BY FullWords, Zenon
  <2> HIDE DEF s3
  <2> QED
    BY <2>1, <2>2, FullSets, Zenon
<1>4. AllSay(s4, FullWord(c))
  <2>1. "CNA_CVT_CON3" \in DOMAIN FullSent(c)
    BY FullNames
  <2>2. s4 = Full!EMIT("CNA", "CNA_CVT_CON3", FullWord(c)["CNA_CVT_CON3"])
    BY FullWords, Zenon
  <2> HIDE DEF s4
  <2> QED
    BY <2>1, <2>2, FullSets, Zenon
<1>5. AllSay(s5, FullWord(c))
  <2>1. "CNA_CVT_CON4" \in DOMAIN FullSent(c)
    BY FullNames
  <2>2. s5 = Full!EMIT("CNA", "CNA_CVT_CON4", FullWord(c)["CNA_CVT_CON4"])
    BY FullWords, Zenon
  <2> HIDE DEF s5
  <2> QED
    BY <2>1, <2>2, FullSets, Zenon
<1>6. AllSay(s6, FullWord(c))
  <2> DEFINE regs ==
        <<"CNA_FC_CON0", "CNA_FC_CON1", "CNA_PAD_CON0">>
  <2> DEFINE N ==
        {"CNA_FC_CON0", "CNA_FC_CON1", "CNA_PAD_CON0"}
  <2>1. Lists(regs, N)
    BY TuplesList, Zenon
  <2>2. \A r \in N : r \notin EnablesOf /\ r \notin DOMAIN FullSent(c)
    BY FullNames DEF EnablesOf, EnableRegs
  <2>3. s6 = Full!Zeros("CNA", regs)
    OBVIOUS
  <2> HIDE DEF regs, N, s6
  <2> QED
    BY <2>1, <2>2, <2>3, FullClears, ZerosSay, Zenon
<1>7. AllSay(s7, FullWord(c))
  <2>1. "CNA_FEATURE_DATA_ADDR" \in DOMAIN FullSent(c)
    BY FullNames
  <2>2. s7 = Full!EMIT("CNA", "CNA_FEATURE_DATA_ADDR", FullWord(c)["CNA_FEATURE_DATA_ADDR"])
    BY FullWords, Zenon
  <2> HIDE DEF s7
  <2> QED
    BY <2>1, <2>2, FullSets, Zenon
<1>8. AllSay(s8, FullWord(c))
  <2> DEFINE regs ==
        <<"CNA_FC_CON2", "CNA_FC_DATA_SIZE0", "CNA_FC_DATA_SIZE1", "CNA_DCOMP_CTRL",
          "CNA_DCOMP_REGNUM">>
  <2> DEFINE N ==
        {"CNA_FC_CON2", "CNA_FC_DATA_SIZE0", "CNA_FC_DATA_SIZE1", "CNA_DCOMP_CTRL",
         "CNA_DCOMP_REGNUM"}
  <2>1. Lists(regs, N)
    BY TuplesList, Zenon
  <2>2. \A r \in N : r \notin EnablesOf /\ r \notin DOMAIN FullSent(c)
    BY FullNames DEF EnablesOf, EnableRegs
  <2>3. s8 = Full!Zeros("CNA", regs)
    OBVIOUS
  <2> HIDE DEF regs, N, s8
  <2> QED
    BY <2>1, <2>2, <2>3, FullClears, ZerosSay, Zenon
<1>9. AllSay(s9, FullWord(c))
  <2>1. "CNA_DCOMP_ADDR0" \in DOMAIN FullSent(c)
    BY FullNames
  <2>2. s9 = Full!EMIT("CNA", "CNA_DCOMP_ADDR0", FullWord(c)["CNA_DCOMP_ADDR0"])
    BY FullWords, Zenon
  <2> HIDE DEF s9
  <2> QED
    BY <2>1, <2>2, FullSets, Zenon
<1>10. AllSay(s10, FullWord(c))
  <2> DEFINE regs ==
        <<"CNA_DCOMP_AMOUNT0", "CNA_DCOMP_AMOUNT1", "CNA_DCOMP_AMOUNT2", "CNA_DCOMP_AMOUNT3",
          "CNA_DCOMP_AMOUNT4", "CNA_DCOMP_AMOUNT5", "CNA_DCOMP_AMOUNT6", "CNA_DCOMP_AMOUNT7",
          "CNA_DCOMP_AMOUNT8", "CNA_DCOMP_AMOUNT9", "CNA_DCOMP_AMOUNT10", "CNA_DCOMP_AMOUNT11",
          "CNA_DCOMP_AMOUNT12", "CNA_DCOMP_AMOUNT13", "CNA_DCOMP_AMOUNT14", "CNA_DCOMP_AMOUNT15",
          "CNA_CVT_CON5", "CNA_PAD_CON1">>
  <2> DEFINE N ==
        {"CNA_DCOMP_AMOUNT0", "CNA_DCOMP_AMOUNT1", "CNA_DCOMP_AMOUNT2", "CNA_DCOMP_AMOUNT3",
         "CNA_DCOMP_AMOUNT4", "CNA_DCOMP_AMOUNT5", "CNA_DCOMP_AMOUNT6", "CNA_DCOMP_AMOUNT7",
         "CNA_DCOMP_AMOUNT8", "CNA_DCOMP_AMOUNT9", "CNA_DCOMP_AMOUNT10", "CNA_DCOMP_AMOUNT11",
         "CNA_DCOMP_AMOUNT12", "CNA_DCOMP_AMOUNT13", "CNA_DCOMP_AMOUNT14", "CNA_DCOMP_AMOUNT15",
         "CNA_CVT_CON5", "CNA_PAD_CON1"}
  <2>1. Lists(regs, N)
    BY TuplesList, ZenonT(60)
  <2>2. \A r \in N : r \notin EnablesOf /\ r \notin DOMAIN FullSent(c)
    BY FullNames DEF EnablesOf, EnableRegs
  <2>3. s10 = Full!Zeros("CNA", regs)
    OBVIOUS
  <2> HIDE DEF regs, N, s10
  <2> QED
    BY <2>1, <2>2, <2>3, FullClears, ZerosSay, Zenon
<1> HIDE DEF s1, s2, s3, s4, s5, s6, s7, s8, s9, s10
<1>11. AllSay(s1 \o s2, FullWord(c))
  BY <1>1, <1>2, SayJoined, Zenon
<1>12. AllSay(s1 \o s2 \o s3, FullWord(c))
  BY <1>11, <1>3, SayJoined, Zenon
<1>13. AllSay(s1 \o s2 \o s3 \o s4, FullWord(c))
  BY <1>12, <1>4, SayJoined, Zenon
<1>14. AllSay(s1 \o s2 \o s3 \o s4 \o s5, FullWord(c))
  BY <1>13, <1>5, SayJoined, Zenon
<1>15. AllSay(s1 \o s2 \o s3 \o s4 \o s5 \o s6, FullWord(c))
  BY <1>14, <1>6, SayJoined, Zenon
<1>16. AllSay(s1 \o s2 \o s3 \o s4 \o s5 \o s6 \o s7, FullWord(c))
  BY <1>15, <1>7, SayJoined, Zenon
<1>17. AllSay(s1 \o s2 \o s3 \o s4 \o s5 \o s6 \o s7 \o s8, FullWord(c))
  BY <1>16, <1>8, SayJoined, Zenon
<1>18. AllSay(s1 \o s2 \o s3 \o s4 \o s5 \o s6 \o s7 \o s8 \o s9, FullWord(c))
  BY <1>17, <1>9, SayJoined, Zenon
<1>19. AllSay(s1 \o s2 \o s3 \o s4 \o s5 \o s6 \o s7 \o s8 \o s9 \o s10, FullWord(c))
  BY <1>18, <1>10, SayJoined, Zenon
<1> QED
  BY <1>0, <1>19, Zenon

(* The CORE.                                                               *)
LEMMA CoreSays == \A c : AllSay(Full!Core(c), FullWord(c))
<1> TAKE c
<1> DEFINE s1 == Full!EMIT("CORE", "CORE_MISC_CFG", Full!F("CORE_MISC_CFG", "QD_EN", 1))
<1> DEFINE s2 ==
      Full!EMIT("CORE", "CORE_DATAOUT_SIZE_0",
        Full!F("CORE_DATAOUT_SIZE_0", "DATAOUT_WIDTH", 1)
          \cup Full!F("CORE_DATAOUT_SIZE_0", "DATAOUT_HEIGHT", c.m - 1))
<1> DEFINE s3 ==
      Full!EMIT("CORE", "CORE_DATAOUT_SIZE_1",
        Full!F("CORE_DATAOUT_SIZE_1", "DATAOUT_CHANNEL", c.n - 1))
<1> DEFINE s4 == Full!Zeros("CORE", <<"CORE_CLIP_TRUNCATE">>)
<1> DEFINE s5 == Full!RAW(Full!Target["CORE"] + 1, \h3030, {})
<1>0. Full!Core(c) = s1 \o s2 \o s3 \o s4 \o s5
  BY ZenonT(60) DEF Full!Core
<1>1. AllSay(s1, FullWord(c))
  <2>1. "CORE_MISC_CFG" \in DOMAIN FullSent(c)
    BY FullNames
  <2>2. s1 = Full!EMIT("CORE", "CORE_MISC_CFG", FullWord(c)["CORE_MISC_CFG"])
    BY FullWords, Zenon
  <2> HIDE DEF s1
  <2> QED
    BY <2>1, <2>2, FullSets, Zenon
<1>2. AllSay(s2, FullWord(c))
  <2>1. "CORE_DATAOUT_SIZE_0" \in DOMAIN FullSent(c)
    BY FullNames
  <2>2. s2 = Full!EMIT("CORE", "CORE_DATAOUT_SIZE_0", FullWord(c)["CORE_DATAOUT_SIZE_0"])
    BY FullWords, Zenon
  <2> HIDE DEF s2
  <2> QED
    BY <2>1, <2>2, FullSets, Zenon
<1>3. AllSay(s3, FullWord(c))
  <2>1. "CORE_DATAOUT_SIZE_1" \in DOMAIN FullSent(c)
    BY FullNames
  <2>2. s3 = Full!EMIT("CORE", "CORE_DATAOUT_SIZE_1", FullWord(c)["CORE_DATAOUT_SIZE_1"])
    BY FullWords, Zenon
  <2> HIDE DEF s3
  <2> QED
    BY <2>1, <2>2, FullSets, Zenon
<1>4. AllSay(s4, FullWord(c))
  <2> DEFINE regs ==
        <<"CORE_CLIP_TRUNCATE">>
  <2> DEFINE N ==
        {"CORE_CLIP_TRUNCATE"}
  <2>1. Lists(regs, N)
    BY TuplesList, Zenon
  <2>2. \A r \in N : r \notin EnablesOf /\ r \notin DOMAIN FullSent(c)
    BY FullNames DEF EnablesOf, EnableRegs
  <2>3. s4 = Full!Zeros("CORE", regs)
    OBVIOUS
  <2> HIDE DEF regs, N, s4
  <2> QED
    BY <2>1, <2>2, <2>3, FullClears, ZerosSay, ZenonT(60)
<1>5. AllSay(s5, FullWord(c))
  <2>1. {} \in SUBSET Low(32)
    OBVIOUS
  <2> QED
    BY <2>1, UndocumentedSays
<1> HIDE DEF s1, s2, s3, s4, s5
<1>6. AllSay(s1 \o s2, FullWord(c))
  BY <1>1, <1>2, SayJoined, Zenon
<1>7. AllSay(s1 \o s2 \o s3, FullWord(c))
  BY <1>6, <1>3, SayJoined, Zenon
<1>8. AllSay(s1 \o s2 \o s3 \o s4, FullWord(c))
  BY <1>7, <1>4, SayJoined, Zenon
<1>9. AllSay(s1 \o s2 \o s3 \o s4 \o s5, FullWord(c))
  BY <1>8, <1>5, SayJoined, Zenon
<1> QED
  BY <1>0, <1>9, ZenonT(60)

(* The DPU's output.                                                       *)
LEMMA OutputSays == \A c : AllSay(Full!Output(c), FullWord(c))
<1> TAKE c
<1> DEFINE s1 ==
      Full!EMIT("DPU", "DPU_FEATURE_MODE_CFG",
        Full!F("DPU_FEATURE_MODE_CFG", "BURST_LEN", 15)
          \cup Full!F("DPU_FEATURE_MODE_CFG", "OUTPUT_MODE", 2))
<1> DEFINE s2 == Full!Zeros("DPU", <<"DPU_DATA_FORMAT", "DPU_OFFSET_PEND">>)
<1> DEFINE s3 == Full!EMIT("DPU", "DPU_DST_BASE_ADDR", OutputDma)
<1> DEFINE s4 == Full!EMIT("DPU", "DPU_DST_SURF_STRIDE", Full!TwiceBits(c.m * c.n))
<1> DEFINE s5 == Full!Zeros("DPU", <<"DPU_DATA_CUBE_WIDTH">>)
<1> DEFINE s6 == Full!EMIT("DPU", "DPU_DATA_CUBE_HEIGHT", Full!IntBits(c.m - 1))
<1> DEFINE s7 == Full!Zeros("DPU", <<"DPU_DATA_CUBE_NOTCH_ADDR">>)
<1> DEFINE s8 ==
      Full!EMIT("DPU", "DPU_DATA_CUBE_CHANNEL",
        Full!F("DPU_DATA_CUBE_CHANNEL", "ORIG_CHANNEL", c.n - 1)
          \cup Full!F("DPU_DATA_CUBE_CHANNEL", "CHANNEL", c.n - 1))
<1> DEFINE s9 ==
      Full!EMIT("DPU", "DPU_BS_CFG",
        Full!F("DPU_BS_CFG", "BS_ALU_ALGO", 2) \cup Full!F("DPU_BS_CFG", "BS_ALU_SRC", 1)
          \cup Full!F("DPU_BS_CFG", "BS_RELU_BYPASS", 1)
          \cup Full!F("DPU_BS_CFG", "BS_MUL_BYPASS", 1))
<1> DEFINE s10 ==
      Full!Zeros("DPU",
        <<"DPU_BS_ALU_CFG", "DPU_BS_MUL_CFG", "DPU_BS_RELUX_CMP_VALUE">>)
<1> DEFINE s11 ==
      Full!EMIT("DPU", "DPU_BS_OW_CFG",
        Full!F("DPU_BS_OW_CFG", "SIZE_E_2", 1) \cup Full!F("DPU_BS_OW_CFG", "SIZE_E_1", 1)
          \cup Full!F("DPU_BS_OW_CFG", "SIZE_E_0", 1))
<1> DEFINE s12 == Full!Zeros("DPU", <<"DPU_BS_OW_OP">>)
<1> DEFINE s13 ==
      Full!EMIT("DPU", "DPU_WDMA_SIZE_0",
        Full!F("DPU_WDMA_SIZE_0", "CHANNEL_WDMA", c.n - 1))
<1> DEFINE s14 ==
      Full!EMIT("DPU", "DPU_WDMA_SIZE_1",
        Full!F("DPU_WDMA_SIZE_1", "HEIGHT_WDMA", c.m - 1))
<1>0. Full!Output(c) = s1 \o s2 \o s3 \o s4 \o s5 \o s6 \o s7 \o s8 \o s9 \o s10 \o s11
      \o s12 \o s13 \o s14
  BY ZenonT(60) DEF Full!Output
<1>1. AllSay(s1, FullWord(c))
  <2>1. "DPU_FEATURE_MODE_CFG" \in DOMAIN FullSent(c)
    BY FullNames
  <2>2. s1 = Full!EMIT("DPU", "DPU_FEATURE_MODE_CFG", FullWord(c)["DPU_FEATURE_MODE_CFG"])
    BY FullWords, Zenon
  <2> HIDE DEF s1
  <2> QED
    BY <2>1, <2>2, FullSets, Zenon
<1>2. AllSay(s2, FullWord(c))
  <2> DEFINE regs ==
        <<"DPU_DATA_FORMAT", "DPU_OFFSET_PEND">>
  <2> DEFINE N ==
        {"DPU_DATA_FORMAT", "DPU_OFFSET_PEND"}
  <2>1. Lists(regs, N)
    BY TuplesList, Zenon
  <2>2. \A r \in N : r \notin EnablesOf /\ r \notin DOMAIN FullSent(c)
    BY FullNames DEF EnablesOf, EnableRegs
  <2>3. s2 = Full!Zeros("DPU", regs)
    OBVIOUS
  <2> HIDE DEF regs, N, s2
  <2> QED
    BY <2>1, <2>2, <2>3, FullClears, ZerosSay, Zenon
<1>3. AllSay(s3, FullWord(c))
  <2>1. "DPU_DST_BASE_ADDR" \in DOMAIN FullSent(c)
    BY FullNames
  <2>2. s3 = Full!EMIT("DPU", "DPU_DST_BASE_ADDR", FullWord(c)["DPU_DST_BASE_ADDR"])
    BY FullWords, Zenon
  <2> HIDE DEF s3
  <2> QED
    BY <2>1, <2>2, FullSets, Zenon
<1>4. AllSay(s4, FullWord(c))
  <2>1. "DPU_DST_SURF_STRIDE" \in DOMAIN FullSent(c)
    BY FullNames
  <2>2. s4 = Full!EMIT("DPU", "DPU_DST_SURF_STRIDE", Uint64(FullWord(c)["DPU_DST_SURF_STRIDE"]))
    BY FullWords, FullSame, IntWords, Zenon
  <2> HIDE DEF s4
  <2> QED
    BY <2>1, <2>2, FullIntSets, Zenon
<1>5. AllSay(s5, FullWord(c))
  <2> DEFINE regs ==
        <<"DPU_DATA_CUBE_WIDTH">>
  <2> DEFINE N ==
        {"DPU_DATA_CUBE_WIDTH"}
  <2>1. Lists(regs, N)
    BY TuplesList, Zenon
  <2>2. \A r \in N : r \notin EnablesOf /\ r \notin DOMAIN FullSent(c)
    BY FullNames DEF EnablesOf, EnableRegs
  <2>3. s5 = Full!Zeros("DPU", regs)
    OBVIOUS
  <2> HIDE DEF regs, N, s5
  <2> QED
    BY <2>1, <2>2, <2>3, FullClears, ZerosSay, Zenon
<1>6. AllSay(s6, FullWord(c))
  <2>1. "DPU_DATA_CUBE_HEIGHT" \in DOMAIN FullSent(c)
    BY FullNames
  <2>2. s6 = Full!EMIT("DPU", "DPU_DATA_CUBE_HEIGHT", Uint64(FullWord(c)["DPU_DATA_CUBE_HEIGHT"]))
    BY FullWords, FullSame, IntWords, Zenon
  <2> HIDE DEF s6
  <2> QED
    BY <2>1, <2>2, FullIntSets, Zenon
<1>7. AllSay(s7, FullWord(c))
  <2> DEFINE regs ==
        <<"DPU_DATA_CUBE_NOTCH_ADDR">>
  <2> DEFINE N ==
        {"DPU_DATA_CUBE_NOTCH_ADDR"}
  <2>1. Lists(regs, N)
    BY TuplesList, Zenon
  <2>2. \A r \in N : r \notin EnablesOf /\ r \notin DOMAIN FullSent(c)
    BY FullNames DEF EnablesOf, EnableRegs
  <2>3. s7 = Full!Zeros("DPU", regs)
    OBVIOUS
  <2> HIDE DEF regs, N, s7
  <2> QED
    BY <2>1, <2>2, <2>3, FullClears, ZerosSay, Zenon
<1>8. AllSay(s8, FullWord(c))
  <2>1. "DPU_DATA_CUBE_CHANNEL" \in DOMAIN FullSent(c)
    BY FullNames
  <2>2. s8 = Full!EMIT("DPU", "DPU_DATA_CUBE_CHANNEL", FullWord(c)["DPU_DATA_CUBE_CHANNEL"])
    BY FullWords, Zenon
  <2> HIDE DEF s8
  <2> QED
    BY <2>1, <2>2, FullSets, Zenon
<1>9. AllSay(s9, FullWord(c))
  <2>1. "DPU_BS_CFG" \in DOMAIN FullSent(c)
    BY FullNames
  <2>2. s9 = Full!EMIT("DPU", "DPU_BS_CFG", FullWord(c)["DPU_BS_CFG"])
    BY FullWords, Zenon
  <2> HIDE DEF s9
  <2> QED
    BY <2>1, <2>2, FullSets, Zenon
<1>10. AllSay(s10, FullWord(c))
  <2> DEFINE regs ==
        <<"DPU_BS_ALU_CFG", "DPU_BS_MUL_CFG", "DPU_BS_RELUX_CMP_VALUE">>
  <2> DEFINE N ==
        {"DPU_BS_ALU_CFG", "DPU_BS_MUL_CFG", "DPU_BS_RELUX_CMP_VALUE"}
  <2>1. Lists(regs, N)
    BY TuplesList, Zenon
  <2>2. \A r \in N : r \notin EnablesOf /\ r \notin DOMAIN FullSent(c)
    BY FullNames DEF EnablesOf, EnableRegs
  <2>3. s10 = Full!Zeros("DPU", regs)
    OBVIOUS
  <2> HIDE DEF regs, N, s10
  <2> QED
    BY <2>1, <2>2, <2>3, FullClears, ZerosSay, Zenon
<1>11. AllSay(s11, FullWord(c))
  <2>1. "DPU_BS_OW_CFG" \in DOMAIN FullSent(c)
    BY FullNames
  <2>2. s11 = Full!EMIT("DPU", "DPU_BS_OW_CFG", FullWord(c)["DPU_BS_OW_CFG"])
    BY FullWords, Zenon
  <2> HIDE DEF s11
  <2> QED
    BY <2>1, <2>2, FullSets, Zenon
<1>12. AllSay(s12, FullWord(c))
  <2> DEFINE regs ==
        <<"DPU_BS_OW_OP">>
  <2> DEFINE N ==
        {"DPU_BS_OW_OP"}
  <2>1. Lists(regs, N)
    BY TuplesList, Zenon
  <2>2. \A r \in N : r \notin EnablesOf /\ r \notin DOMAIN FullSent(c)
    BY FullNames DEF EnablesOf, EnableRegs
  <2>3. s12 = Full!Zeros("DPU", regs)
    OBVIOUS
  <2> HIDE DEF regs, N, s12
  <2> QED
    BY <2>1, <2>2, <2>3, FullClears, ZerosSay, Zenon
<1>13. AllSay(s13, FullWord(c))
  <2>1. "DPU_WDMA_SIZE_0" \in DOMAIN FullSent(c)
    BY FullNames
  <2>2. s13 = Full!EMIT("DPU", "DPU_WDMA_SIZE_0", FullWord(c)["DPU_WDMA_SIZE_0"])
    BY FullWords, Zenon
  <2> HIDE DEF s13
  <2> QED
    BY <2>1, <2>2, FullSets, Zenon
<1>14. AllSay(s14, FullWord(c))
  <2>1. "DPU_WDMA_SIZE_1" \in DOMAIN FullSent(c)
    BY FullNames
  <2>2. s14 = Full!EMIT("DPU", "DPU_WDMA_SIZE_1", FullWord(c)["DPU_WDMA_SIZE_1"])
    BY FullWords, ZenonT(60)
  <2> HIDE DEF s14
  <2> QED
    BY <2>1, <2>2, FullSets, Zenon
<1> HIDE DEF s1, s2, s3, s4, s5, s6, s7, s8, s9, s10, s11, s12, s13, s14
<1>15. AllSay(s1 \o s2, FullWord(c))
  BY <1>1, <1>2, SayJoined, Zenon
<1>16. AllSay(s1 \o s2 \o s3, FullWord(c))
  BY <1>15, <1>3, SayJoined, Zenon
<1>17. AllSay(s1 \o s2 \o s3 \o s4, FullWord(c))
  BY <1>16, <1>4, SayJoined, Zenon
<1>18. AllSay(s1 \o s2 \o s3 \o s4 \o s5, FullWord(c))
  BY <1>17, <1>5, SayJoined, Zenon
<1>19. AllSay(s1 \o s2 \o s3 \o s4 \o s5 \o s6, FullWord(c))
  BY <1>18, <1>6, SayJoined, Zenon
<1>20. AllSay(s1 \o s2 \o s3 \o s4 \o s5 \o s6 \o s7, FullWord(c))
  BY <1>19, <1>7, SayJoined, Zenon
<1>21. AllSay(s1 \o s2 \o s3 \o s4 \o s5 \o s6 \o s7 \o s8, FullWord(c))
  BY <1>20, <1>8, SayJoined, Zenon
<1>22. AllSay(s1 \o s2 \o s3 \o s4 \o s5 \o s6 \o s7 \o s8 \o s9, FullWord(c))
  BY <1>21, <1>9, SayJoined, Zenon
<1>23. AllSay(s1 \o s2 \o s3 \o s4 \o s5 \o s6 \o s7 \o s8 \o s9 \o s10, FullWord(c))
  BY <1>22, <1>10, SayJoined, Zenon
<1>24. AllSay(s1 \o s2 \o s3 \o s4 \o s5 \o s6 \o s7 \o s8 \o s9 \o s10 \o s11, FullWord(c))
  BY <1>23, <1>11, SayJoined, Zenon
<1>25. AllSay(s1 \o s2 \o s3 \o s4 \o s5 \o s6 \o s7 \o s8 \o s9 \o s10 \o s11
              \o s12, FullWord(c))
  BY <1>24, <1>12, SayJoined, Zenon
<1>26. AllSay(s1 \o s2 \o s3 \o s4 \o s5 \o s6 \o s7 \o s8 \o s9 \o s10 \o s11 \o s12
              \o s13, FullWord(c))
  BY <1>25, <1>13, SayJoined, Zenon
<1>27. AllSay(s1 \o s2 \o s3 \o s4 \o s5 \o s6 \o s7 \o s8 \o s9 \o s10 \o s11 \o s12
              \o s13 \o s14, FullWord(c))
  BY <1>26, <1>14, SayJoined, Zenon
<1> QED
  BY <1>0, <1>27, Zenon

(* The DPU's stages.                                                       *)
LEMMA StagesSays == \A c : AllSay(Full!Stages, FullWord(c))
<1> TAKE c
<1> DEFINE s1 == Full!EMIT("DPU", "DPU_BN_CFG", Full!F("DPU_BN_CFG", "BN_BYPASS", 1))
<1> DEFINE s2 ==
      Full!Zeros("DPU",
        <<"DPU_BN_ALU_CFG", "DPU_BN_MUL_CFG", "DPU_BN_RELUX_CMP_VALUE", "DPU_BN_OW_CFG">>)
<1> DEFINE s3 == <<Full!NoWord>>
<1> DEFINE s4 ==
      Full!Zeros("DPU",
        <<"DPU_EW_ALU_CFG", "DPU_EW_ALU_CVT_OFFSET_VALUE", "DPU_EW_ALU_CVT_SCALE_VALUE",
          "DPU_EW_ALU_CVT_TRUNCATE_VALUE", "DPU_EW_MUL_CFG", "DPU_EW_MUL_CVT_OFFSET_VALUE",
          "DPU_EW_MUL_CVT_SCALE_VALUE", "DPU_EW_MUL_CVT_TRUNCATE_VALUE",
          "DPU_EW_RELUX_CMP_VALUE", "DPU_EW_OW_CFG", "DPU_OUT_CVT_CFG", "DPU_OUT_CVT_OFFSET",
          "DPU_OUT_CVT_SCALE", "DPU_OUT_CVT_SHIFT", "DPU_SURFACE_ADD">>)
<1> DEFINE s5 == <<Full!NoWord>>
<1> DEFINE s6 ==
      Full!Zeros("DPU",
        <<"DPU_LUT_INFO", "DPU_LUT_LE_START_LOW", "DPU_LUT_LE_START_HIGH", "DPU_LUT_LE_END_LOW",
          "DPU_LUT_LE_END_HIGH", "DPU_LUT_LO_START_LOW", "DPU_LUT_LO_START_HIGH",
          "DPU_LUT_LO_END_LOW", "DPU_LUT_LO_END_HIGH", "DPU_LUT_LE_SLOPE_SCALE",
          "DPU_LUT_LE_SLOPE_SHIFT", "DPU_LUT_LO_SLOPE_SCALE", "DPU_LUT_LO_SLOPE_SHIFT">>)
<1>0. Full!Stages = s1 \o s2 \o s3 \o s4 \o s5 \o s6
  BY ZenonT(60) DEF Full!Stages
<1>1. AllSay(s1, FullWord(c))
  <2>1. "DPU_BN_CFG" \in DOMAIN FullSent(c)
    BY FullNames
  <2>2. s1 = Full!EMIT("DPU", "DPU_BN_CFG", FullWord(c)["DPU_BN_CFG"])
    BY FullWords, Zenon
  <2> HIDE DEF s1
  <2> QED
    BY <2>1, <2>2, FullSets, Zenon
<1>2. AllSay(s2, FullWord(c))
  <2> DEFINE regs ==
        <<"DPU_BN_ALU_CFG", "DPU_BN_MUL_CFG", "DPU_BN_RELUX_CMP_VALUE", "DPU_BN_OW_CFG">>
  <2> DEFINE N ==
        {"DPU_BN_ALU_CFG", "DPU_BN_MUL_CFG", "DPU_BN_RELUX_CMP_VALUE", "DPU_BN_OW_CFG"}
  <2>1. Lists(regs, N)
    BY TuplesList, Zenon
  <2>2. \A r \in N : r \notin EnablesOf /\ r \notin DOMAIN FullSent(c)
    BY FullNames DEF EnablesOf, EnableRegs
  <2>3. s2 = Full!Zeros("DPU", regs)
    OBVIOUS
  <2> HIDE DEF regs, N, s2
  <2> QED
    BY <2>1, <2>2, <2>3, FullClears, ZerosSay, Zenon
<1>3. AllSay(s3, FullWord(c))
  BY NoWordSays, Zenon
<1>4. AllSay(s4, FullWord(c))
  <2> DEFINE regs ==
        <<"DPU_EW_ALU_CFG", "DPU_EW_ALU_CVT_OFFSET_VALUE", "DPU_EW_ALU_CVT_SCALE_VALUE",
          "DPU_EW_ALU_CVT_TRUNCATE_VALUE", "DPU_EW_MUL_CFG", "DPU_EW_MUL_CVT_OFFSET_VALUE",
          "DPU_EW_MUL_CVT_SCALE_VALUE", "DPU_EW_MUL_CVT_TRUNCATE_VALUE",
          "DPU_EW_RELUX_CMP_VALUE", "DPU_EW_OW_CFG", "DPU_OUT_CVT_CFG", "DPU_OUT_CVT_OFFSET",
          "DPU_OUT_CVT_SCALE", "DPU_OUT_CVT_SHIFT", "DPU_SURFACE_ADD">>
  <2> DEFINE N ==
        {"DPU_EW_ALU_CFG", "DPU_EW_ALU_CVT_OFFSET_VALUE", "DPU_EW_ALU_CVT_SCALE_VALUE",
         "DPU_EW_ALU_CVT_TRUNCATE_VALUE", "DPU_EW_MUL_CFG", "DPU_EW_MUL_CVT_OFFSET_VALUE",
         "DPU_EW_MUL_CVT_SCALE_VALUE", "DPU_EW_MUL_CVT_TRUNCATE_VALUE", "DPU_EW_RELUX_CMP_VALUE",
         "DPU_EW_OW_CFG", "DPU_OUT_CVT_CFG", "DPU_OUT_CVT_OFFSET", "DPU_OUT_CVT_SCALE",
         "DPU_OUT_CVT_SHIFT", "DPU_SURFACE_ADD"}
  <2>1. Lists(regs, N)
    BY TuplesList, Zenon
  <2>2. \A r \in N : r \notin EnablesOf /\ r \notin DOMAIN FullSent(c)
    BY FullNames DEF EnablesOf, EnableRegs
  <2>3. s4 = Full!Zeros("DPU", regs)
    OBVIOUS
  <2> HIDE DEF regs, N, s4
  <2> QED
    BY <2>1, <2>2, <2>3, FullClears, ZerosSay, Zenon
<1>5. AllSay(s5, FullWord(c))
  BY NoWordSays, Zenon
<1>6. AllSay(s6, FullWord(c))
  <2> DEFINE regs ==
        <<"DPU_LUT_INFO", "DPU_LUT_LE_START_LOW", "DPU_LUT_LE_START_HIGH", "DPU_LUT_LE_END_LOW",
          "DPU_LUT_LE_END_HIGH", "DPU_LUT_LO_START_LOW", "DPU_LUT_LO_START_HIGH",
          "DPU_LUT_LO_END_LOW", "DPU_LUT_LO_END_HIGH", "DPU_LUT_LE_SLOPE_SCALE",
          "DPU_LUT_LE_SLOPE_SHIFT", "DPU_LUT_LO_SLOPE_SCALE", "DPU_LUT_LO_SLOPE_SHIFT">>
  <2> DEFINE N ==
        {"DPU_LUT_INFO", "DPU_LUT_LE_START_LOW", "DPU_LUT_LE_START_HIGH", "DPU_LUT_LE_END_LOW",
         "DPU_LUT_LE_END_HIGH", "DPU_LUT_LO_START_LOW", "DPU_LUT_LO_START_HIGH",
         "DPU_LUT_LO_END_LOW", "DPU_LUT_LO_END_HIGH", "DPU_LUT_LE_SLOPE_SCALE",
         "DPU_LUT_LE_SLOPE_SHIFT", "DPU_LUT_LO_SLOPE_SCALE", "DPU_LUT_LO_SLOPE_SHIFT"}
  <2>1. Lists(regs, N)
    BY TuplesList, Zenon
  <2>2. \A r \in N : r \notin EnablesOf /\ r \notin DOMAIN FullSent(c)
    BY FullNames DEF EnablesOf, EnableRegs
  <2>3. s6 = Full!Zeros("DPU", regs)
    OBVIOUS
  <2> HIDE DEF regs, N, s6
  <2> QED
    BY <2>1, <2>2, <2>3, FullClears, ZerosSay, Zenon
<1> HIDE DEF s1, s2, s3, s4, s5, s6
<1>7. AllSay(s1 \o s2, FullWord(c))
  BY <1>1, <1>2, SayJoined, Zenon
<1>8. AllSay(s1 \o s2 \o s3, FullWord(c))
  BY <1>7, <1>3, SayJoined, Zenon
<1>9. AllSay(s1 \o s2 \o s3 \o s4, FullWord(c))
  BY <1>8, <1>4, SayJoined, Zenon
<1>10. AllSay(s1 \o s2 \o s3 \o s4 \o s5, FullWord(c))
  BY <1>9, <1>5, SayJoined, Zenon
<1>11. AllSay(s1 \o s2 \o s3 \o s4 \o s5 \o s6, FullWord(c))
  BY <1>10, <1>6, SayJoined, Zenon
<1> QED
  BY <1>0, <1>11, Zenon

(* The read DMA.                                                           *)
LEMMA RdmaSays == \A c : AllSay(Full!Rdma(c), FullWord(c))
<1> TAKE c
<1> DEFINE s1 == Full!Zeros("DPU", <<"DPU_RDMA_RDMA_CFG", "DPU_RDMA_RDMA_DATA_CUBE_WIDTH">>)
<1> DEFINE s2 == Full!EMIT("DPU", "DPU_RDMA_RDMA_DATA_CUBE_HEIGHT", Full!IntBits(c.m - 1))
<1> DEFINE s3 == Full!EMIT("DPU", "DPU_RDMA_RDMA_DATA_CUBE_CHANNEL", Full!IntBits(c.n - 1))
<1> DEFINE s4 == Full!EMIT("DPU", "DPU_RDMA_RDMA_BASE_ADDR", OutputDma)
<1> DEFINE s5 == Full!EMIT("DPU", "DPU_RDMA_RDMA_SURF_STRIDE", Full!TwiceBits(c.m * c.n))
<1> DEFINE s6 == Full!Zeros("DPU", <<"DPU_RDMA_RDMA_SURF_NOTCH", "DPU_RDMA_RDMA_PAD_CFG">>)
<1> DEFINE s7 ==
      Full!EMIT("DPU", "DPU_RDMA_RDMA_WEIGHT",
        UNION {Full!F("DPU_RDMA_RDMA_WEIGHT", f, 1) :
          f \in {"E_WEIGHT", "N_WEIGHT", "B_WEIGHT", "M_WEIGHT"}})
<1> DEFINE s8 == Full!Zeros("DPU", <<"DPU_RDMA_RDMA_EW_SURF_NOTCH">>)
<1> DEFINE s9 == Full!Zeros("PC", <<"PC_BASE_ADDRESS", "PC_REGISTER_AMOUNTS">>)
<1>0. Full!Rdma(c) = s1 \o s2 \o s3 \o s4 \o s5 \o s6 \o s7 \o s8 \o s9
  BY ZenonT(60) DEF Full!Rdma
<1>1. AllSay(s1, FullWord(c))
  <2> DEFINE regs ==
        <<"DPU_RDMA_RDMA_CFG", "DPU_RDMA_RDMA_DATA_CUBE_WIDTH">>
  <2> DEFINE N ==
        {"DPU_RDMA_RDMA_CFG", "DPU_RDMA_RDMA_DATA_CUBE_WIDTH"}
  <2>1. Lists(regs, N)
    BY TuplesList, Zenon
  <2>2. \A r \in N : r \notin EnablesOf /\ r \notin DOMAIN FullSent(c)
    BY FullNames DEF EnablesOf, EnableRegs
  <2>3. s1 = Full!Zeros("DPU", regs)
    OBVIOUS
  <2> HIDE DEF regs, N, s1
  <2> QED
    BY <2>1, <2>2, <2>3, FullClears, ZerosSay, Zenon
<1>2. AllSay(s2, FullWord(c))
  <2>1. "DPU_RDMA_RDMA_DATA_CUBE_HEIGHT" \notin Settings
        /\ "DPU_RDMA_RDMA_DATA_CUBE_HEIGHT" \notin EnablesOf
    BY CnaNames, CoreNames, DpuNames DEF Settings, Config, EnablesOf, EnableRegs
  <2>2. Full!IntBits(c.m - 1) = Uint64(Bits(c.m - 1)) /\ Bits(c.m - 1) \in SUBSET Low(32)
    BY IntWords, Zenon
  <2> QED
    BY <2>1, <2>2, FullIntOthers, Zenon
<1>3. AllSay(s3, FullWord(c))
  <2>1. "DPU_RDMA_RDMA_DATA_CUBE_CHANNEL" \notin Settings
        /\ "DPU_RDMA_RDMA_DATA_CUBE_CHANNEL" \notin EnablesOf
    BY CnaNames, CoreNames, DpuNames DEF Settings, Config, EnablesOf, EnableRegs
  <2>2. Full!IntBits(c.n - 1) = Uint64(Bits(c.n - 1)) /\ Bits(c.n - 1) \in SUBSET Low(32)
    BY IntWords, Zenon
  <2> QED
    BY <2>1, <2>2, FullIntOthers, Zenon
<1>4. AllSay(s4, FullWord(c))
  <2>1. "DPU_RDMA_RDMA_BASE_ADDR" \notin Settings /\ "DPU_RDMA_RDMA_BASE_ADDR" \notin EnablesOf
    BY CnaNames, CoreNames, DpuNames DEF Settings, Config, EnablesOf, EnableRegs
  <2>2. OutputDma \in SUBSET Low(32)
    BY MesaWordsFit, FullNumbers, Zenon
  <2> QED
    BY <2>1, <2>2, FullOthers, Zenon
<1>5. AllSay(s5, FullWord(c))
  <2>1. "DPU_RDMA_RDMA_SURF_STRIDE" \notin Settings
        /\ "DPU_RDMA_RDMA_SURF_STRIDE" \notin EnablesOf
    BY CnaNames, CoreNames, DpuNames DEF Settings, Config, EnablesOf, EnableRegs
  <2>2. Full!TwiceBits(c.m * c.n) = Uint64(Twice(c.m * c.n)) /\ Twice(c.m * c.n) \in SUBSET Low(32)
    BY IntWords, Zenon
  <2> QED
    BY <2>1, <2>2, FullIntOthers, Zenon
<1>6. AllSay(s6, FullWord(c))
  <2> DEFINE regs ==
        <<"DPU_RDMA_RDMA_SURF_NOTCH", "DPU_RDMA_RDMA_PAD_CFG">>
  <2> DEFINE N ==
        {"DPU_RDMA_RDMA_SURF_NOTCH", "DPU_RDMA_RDMA_PAD_CFG"}
  <2>1. Lists(regs, N)
    BY TuplesList, Zenon
  <2>2. \A r \in N : r \notin EnablesOf /\ r \notin DOMAIN FullSent(c)
    BY FullNames DEF EnablesOf, EnableRegs
  <2>3. s6 = Full!Zeros("DPU", regs)
    OBVIOUS
  <2> HIDE DEF regs, N, s6
  <2> QED
    BY <2>1, <2>2, <2>3, FullClears, ZerosSay, Zenon
<1>7. AllSay(s7, FullWord(c))
  <2>1. "DPU_RDMA_RDMA_WEIGHT" \notin Settings /\ "DPU_RDMA_RDMA_WEIGHT" \notin EnablesOf
    BY CnaNames, CoreNames, DpuNames DEF Settings, Config, EnablesOf, EnableRegs
  <2>2. UNION {Full!F("DPU_RDMA_RDMA_WEIGHT", f, 1) :
                  f \in {"E_WEIGHT", "N_WEIGHT", "B_WEIGHT", "M_WEIGHT"}} \in SUBSET Low(32)
    <3>1. \A f \in {"E_WEIGHT", "N_WEIGHT", "B_WEIGHT", "M_WEIGHT"} :
            Full!F("DPU_RDMA_RDMA_WEIGHT", f, 1) \in SUBSET Low(32)
      BY FieldPlaces, FieldsFit
    <3> QED
      BY <3>1
  <2> QED
    BY <2>1, <2>2, FullOthers, Zenon
<1>8. AllSay(s8, FullWord(c))
  <2> DEFINE regs ==
        <<"DPU_RDMA_RDMA_EW_SURF_NOTCH">>
  <2> DEFINE N ==
        {"DPU_RDMA_RDMA_EW_SURF_NOTCH"}
  <2>1. Lists(regs, N)
    BY TuplesList, Zenon
  <2>2. \A r \in N : r \notin EnablesOf /\ r \notin DOMAIN FullSent(c)
    BY FullNames DEF EnablesOf, EnableRegs
  <2>3. s8 = Full!Zeros("DPU", regs)
    OBVIOUS
  <2> HIDE DEF regs, N, s8
  <2> QED
    BY <2>1, <2>2, <2>3, FullClears, ZerosSay, Zenon
<1>9. AllSay(s9, FullWord(c))
  <2> DEFINE regs ==
        <<"PC_BASE_ADDRESS", "PC_REGISTER_AMOUNTS">>
  <2> DEFINE N ==
        {"PC_BASE_ADDRESS", "PC_REGISTER_AMOUNTS"}
  <2>1. Lists(regs, N)
    BY TuplesList, Zenon
  <2>2. \A r \in N : r \notin EnablesOf /\ r \notin DOMAIN FullSent(c)
    BY FullNames DEF EnablesOf, EnableRegs
  <2>3. s9 = Full!Zeros("PC", regs)
    OBVIOUS
  <2> HIDE DEF regs, N, s9
  <2> QED
    BY <2>1, <2>2, <2>3, FullClears, ZerosSay, ZenonT(60)
<1> HIDE DEF s1, s2, s3, s4, s5, s6, s7, s8, s9
<1>10. AllSay(s1 \o s2, FullWord(c))
  BY <1>1, <1>2, SayJoined, Zenon
<1>11. AllSay(s1 \o s2 \o s3, FullWord(c))
  BY <1>10, <1>3, SayJoined, Zenon
<1>12. AllSay(s1 \o s2 \o s3 \o s4, FullWord(c))
  BY <1>11, <1>4, SayJoined, Zenon
<1>13. AllSay(s1 \o s2 \o s3 \o s4 \o s5, FullWord(c))
  BY <1>12, <1>5, SayJoined, Zenon
<1>14. AllSay(s1 \o s2 \o s3 \o s4 \o s5 \o s6, FullWord(c))
  BY <1>13, <1>6, SayJoined, Zenon
<1>15. AllSay(s1 \o s2 \o s3 \o s4 \o s5 \o s6 \o s7, FullWord(c))
  BY <1>14, <1>7, SayJoined, Zenon
<1>16. AllSay(s1 \o s2 \o s3 \o s4 \o s5 \o s6 \o s7 \o s8, FullWord(c))
  BY <1>15, <1>8, SayJoined, Zenon
<1>17. AllSay(s1 \o s2 \o s3 \o s4 \o s5 \o s6 \o s7 \o s8 \o s9, FullWord(c))
  BY <1>16, <1>9, SayJoined, Zenon
<1> QED
  BY <1>0, <1>17, Zenon

(* The list's end.                                                         *)
LEMMA EndingSays == \A c : AllSay(Full!Ending, FullWord(c))
<1> TAKE c
<1> DEFINE s1 == Full!RAW(\h41, 0, {})
<1> DEFINE s2 ==
      Full!RAW(\h81, Full!Registers["PC_OPERATION_ENABLE"].no,
               Full!Shl(Full!Bits(14), 1) \cup Full!F("PC_OPERATION_ENABLE", "OP_EN", 1))
<1>0. Full!Ending = s1 \o s2
  BY ZenonT(60) DEF Full!Ending
<1>1. AllSay(s1, FullWord(c))
  <2>1. {} \in SUBSET Low(32)
    OBVIOUS
  <2> QED
    BY <2>1, EndSays
<1>2. AllSay(s2, FullWord(c))
  <2>1. Full!F("PC_OPERATION_ENABLE", "OP_EN", 1) \in SUBSET Low(32)
    BY FieldPlaces, FieldsFit, Zenon
  <2>2. Full!Shl(Full!Bits(14), 1) \in SUBSET Low(32)
    <3>1. Full!Shl(Full!Bits(14), 1) = Shl({1, 2, 3}, 1)
      BY SMTT(90), FullSame, SomeBits
    <3> QED
      BY <3>1 DEF Shl, Low
  <2>3. PICK v : v = Full!Shl(Full!Bits(14), 1) \cup
                     Full!F("PC_OPERATION_ENABLE", "OP_EN", 1)
    OBVIOUS
  <2>4. v \in SUBSET Low(32)
    BY <2>1, <2>2, <2>3, Joins, Zenon
  <2>5. AllSay(Full!RAW(\h81, Full!Registers["PC_OPERATION_ENABLE"].no, v), FullWord(c))
    BY <2>4, StartSays
  <2> QED
    BY <2>3, <2>5
<1> HIDE DEF s1, s2
<1>3. AllSay(s1 \o s2, FullWord(c))
  BY <1>1, <1>2, SayJoined, Zenon
<1> QED
  BY <1>0, <1>3, Zenon

(* The whole list.                                                         *)
LEMMA FullListSays == \A c : AllSay(Full!gen_matmul_fp16(c), FullWord(c))
<1> TAKE c
<1> DEFINE s1 == Full!Prologue
<1> DEFINE s2 == Full!Sizes(c)
<1> DEFINE s3 == Full!Input
<1> DEFINE s4 == Full!Core(c)
<1> DEFINE s5 == Full!Output(c)
<1> DEFINE s6 == Full!Stages
<1> DEFINE s7 == Full!Rdma(c)
<1> DEFINE s8 == Full!Ending
<1>0. Full!gen_matmul_fp16(c) = s1 \o s2 \o s3 \o s4 \o s5 \o s6 \o s7 \o s8
  BY ZenonT(60) DEF Full!gen_matmul_fp16
<1>1. AllSay(s1, FullWord(c))
  BY PrologueSays, Zenon
<1>2. AllSay(s2, FullWord(c))
  BY SizesSays, Zenon
<1>3. AllSay(s3, FullWord(c))
  BY InputSays, Zenon
<1>4. AllSay(s4, FullWord(c))
  BY CoreSays, Zenon
<1>5. AllSay(s5, FullWord(c))
  BY OutputSays, Zenon
<1>6. AllSay(s6, FullWord(c))
  BY StagesSays, Zenon
<1>7. AllSay(s7, FullWord(c))
  BY RdmaSays, Zenon
<1>8. AllSay(s8, FullWord(c))
  BY EndingSays, Zenon
<1> HIDE DEF s1, s2, s3, s4, s5, s6, s7, s8
<1>9. AllSay(s1 \o s2, FullWord(c))
  BY <1>1, <1>2, SayJoined, Zenon
<1>10. AllSay(s1 \o s2 \o s3, FullWord(c))
  BY <1>9, <1>3, SayJoined, Zenon
<1>11. AllSay(s1 \o s2 \o s3 \o s4, FullWord(c))
  BY <1>10, <1>4, SayJoined, Zenon
<1>12. AllSay(s1 \o s2 \o s3 \o s4 \o s5, FullWord(c))
  BY <1>11, <1>5, SayJoined, Zenon
<1>13. AllSay(s1 \o s2 \o s3 \o s4 \o s5 \o s6, FullWord(c))
  BY <1>12, <1>6, SayJoined, Zenon
<1>14. AllSay(s1 \o s2 \o s3 \o s4 \o s5 \o s6 \o s7, FullWord(c))
  BY <1>13, <1>7, SayJoined, Zenon
<1>15. AllSay(s1 \o s2 \o s3 \o s4 \o s5 \o s6 \o s7 \o s8, FullWord(c))
  BY <1>14, <1>8, SayJoined, Zenon
<1> QED
  BY <1>0, <1>15, Zenon

-----------------------------------------------------------------------------
(* The words of a job, whichever generator wrote its list.                 *)
JobWord(j) ==
  IF j.gen = "rk3588" THEN RkWord(j.call)
  ELSE IF j.gen = "mesa" /\ j.call.kind = "fp16" THEN MesaWord(j.call)
  ELSE IF j.gen = "full" THEN FullWord(j.call)
  ELSE NoWords

(* No stride of a call is a negative int if the sizes are small enough.    *)
LEMMA StridesArePositive == StridesFit => \A c \in Calls : StridesPositive(c)
<1> SUFFICES ASSUME StridesFit, NEW c \in Calls PROVE StridesPositive(c)
  OBVIOUS
<1>1. PICK m, n : m = c.m /\ n = c.n
  OBVIOUS
<1>2. m \in Ms /\ n \in Ns
  BY <1>1 DEF Calls
<1>3. m \in Nat /\ n \in Nat /\ n < 65536
  <2>1. U16 = 65536
    BY SMT DEF StridesFit
  <2>2. m \in Nat /\ n \in Nat /\ n < U16
    BY SMT, <1>2, WidthsAssumption, DimsAssumption
  <2> QED
    BY SMT, <2>1, <2>2
<1>4. m * n < Power[30] /\ Power[30] \in Nat
  <2>1. 30 \in 0..30
    OBVIOUS
  <2>2. Power[30] = 2^30
    BY <2>1, Zenon DEF Power
  <2>3. m * n < 2^30
    BY SMT, <1>2 DEF StridesFit
  <2>4. m * n < Power[30]
    BY <2>2, <2>3, Zenon
  <2> QED
    BY <2>1, <2>4, PowersPositive, Zenon
<1>5. m * n \in Nat
  BY <1>3
<1>6. 31 \notin Bits(n * 2)
  <2>1. n * 2 \in Nat /\ n * 2 < 2 * Power[30]
    BY <1>3, PowerTable
  <2>2. Bits(n * 2) \subseteq 0..30
    BY <2>1, BitsInRange
  <2> QED
    BY <2>2
<1>7. 31 \notin Twice(m * n)
  <2>1. Bits(m * n) \subseteq Low(30)
    BY <1>4, <1>5, BitsFit
  <2> QED
    BY <2>1 DEF Twice, Shl, Low
<1> QED
  BY <1>1, <1>6, <1>7 DEF StridesPositive

(* A job's list says its words, and its commands go to a unit that has     *)
(* their register, but for those of the full list, and of Mesa's if a      *)
(* stride is negative.                                                     *)
LEMMA ListsSay ==
  \A j \in Requests :
    /\ AllSay(Commands(j), JobWord(j))
    /\ j.gen # "full" /\ StridesFit =>
         \A cmd \in CommandsIn(Commands(j)) : Reaches(j.gen, cmd)
<1> SUFFICES ASSUME NEW j \in Requests
             PROVE  /\ AllSay(Commands(j), JobWord(j))
                    /\ j.gen # "full" /\ StridesFit =>
                         \A cmd \in CommandsIn(Commands(j)) : Reaches(j.gen, cmd)
  OBVIOUS
<1>1. \/ j.gen = "rk3588"
      \/ j.gen = "mesa" /\ j.call.kind \in {"fp16", "int8"}
      \/ j.gen = "full"
      \/ j.gen \in {"minimal_mesa_test", "minimal_npu_test", "test_cna_enable"}
  BY DEF Requests, Calls, Kinds, Small!SmallPrograms
<1>2. CASE j.gen = "rk3588"
  <2>1. Commands(j) = Rk3588!gen_matmul_task(j.call) /\ JobWord(j) = RkWord(j.call)
    BY <1>2 DEF Commands, JobWord, Small!SmallPrograms
  <2> QED
    BY <1>2, <2>1, TaskSays, Zenon
<1>3. CASE j.gen = "mesa" /\ j.call.kind = "fp16"
  <2>0. j.call \in Calls
    BY <1>3 DEF Requests, Small!SmallPrograms
  <2>1. Commands(j) = Mesa!gen_matmul_fp16(j.call) /\ JobWord(j) = MesaWord(j.call)
    BY <1>3 DEF Commands, JobWord, Small!SmallPrograms
  <2>2. /\ AllSay(Mesa!gen_matmul_fp16(j.call), MesaWord(j.call))
        /\ StridesFit =>
             \A cmd \in CommandsIn(Mesa!gen_matmul_fp16(j.call)) : Reaches("mesa", cmd)
    BY <2>0, StridesArePositive, MesaListSays, Zenon
  <2>3. j.gen = "mesa"
    BY <1>3, Zenon
  <2> QED
    BY <2>1, <2>2, <2>3, Zenon
<1>4. CASE j.gen = "mesa" /\ j.call.kind = "int8"
  <2>1. Commands(j) = Mesa!gen_matmul_int8 /\ JobWord(j) = NoWords
    BY <1>4 DEF Commands, JobWord, Small!SmallPrograms
  <2> QED
    BY <1>4, <2>1, Int8Says, Zenon
<1>5. CASE j.gen = "full"
  <2>1. Commands(j) = Full!gen_matmul_fp16(j.call) /\ JobWord(j) = FullWord(j.call)
    BY <1>5 DEF Commands, JobWord, Small!SmallPrograms
  <2> QED
    BY <1>5, <2>1, FullListSays, Zenon
<1>6. ASSUME NEW p \in Small!SmallPrograms, j.gen = p
      PROVE  Commands(j) = Small!Commands(p) /\ JobWord(j) = NoWords
  <2>1. j.gen \notin {"rk3588", "mesa", "full"}
    BY <1>6 DEF Small!SmallPrograms
  <2> QED
    BY <1>6, <2>1 DEF Commands, JobWord
<1>7. CASE j.gen = "minimal_mesa_test"
  <2>1. Commands(j) = Small!minimal_mesa_test /\ JobWord(j) = NoWords
    BY <1>6, <1>7 DEF Small!Commands, Small!SmallPrograms
  <2> QED
    BY <1>7, <2>1, MinimalMesaSays, Zenon
<1>8. CASE j.gen = "minimal_npu_test"
  <2>1. Commands(j) = Small!minimal_npu_test /\ JobWord(j) = NoWords
    BY <1>6, <1>8 DEF Small!Commands, Small!SmallPrograms
  <2> QED
    BY <1>8, <2>1, MinimalNpuSays, Zenon
<1>9. CASE j.gen = "test_cna_enable"
  <2>1. Commands(j) = Small!test_cna_enable /\ JobWord(j) = NoWords
    BY <1>6, <1>9 DEF Small!Commands, Small!SmallPrograms
  <2> QED
    BY <1>9, <2>1, CnaEnableSays, Zenon
<1> QED
  BY <1>1, <1>2, <1>3, <1>4, <1>5, <1>7, <1>8, <1>9

(* Every list of commands is a sequence, of what the generator wrote.      *)
LEMMA CommandsAreLists == \A j \in Requests : IsSeq(Commands(j))
BY ListsSay DEF AllSay

(* The word of a command is that of the register it is for.                *)
LEMMA SaidOfSetting ==
  \A s, W, cmd : \A r \in Settings :
    AllSay(s, W) /\ cmd \in CommandsIn(s) /\ Writes(cmd) /\ Key(cmd) = Place(r) =>
      ValueOf(cmd) = W[r]
<1> SUFFICES ASSUME NEW s, NEW W, NEW cmd, NEW r \in Settings,
                    AllSay(s, W), cmd \in CommandsIn(s), Writes(cmd), Key(cmd) = Place(r)
             PROVE  ValueOf(cmd) = W[r]
  OBVIOUS
<1>1. Key(cmd) \in Known /\ Key(cmd) \notin Enables
  BY SettingKeys
<1>2. PICK q \in Settings : Key(cmd) = Place(q) /\ ValueOf(cmd) = W[q]
  BY <1>1 DEF AllSay, Says
<1>3. q \in DOMAIN Registers /\ r \in DOMAIN Registers
  BY SettingPlaces
<1>4. q = r
  BY <1>2, <1>3, PlacesDiffer
<1> QED
  BY <1>2, <1>4

-----------------------------------------------------------------------------
(* What the lists tell the CNA of the cube, the kernels and the input.     *)
CubeRegs == {"CNA_DATA_SIZE0", "CNA_DATA_SIZE1", "CNA_WEIGHT_SIZE2", "CNA_FEATURE_DATA_ADDR"}

(* They configure a job, and are registers of the CNA.                     *)
LEMMA CubeRegsSet ==
  \A r \in CubeRegs : r \in Settings /\ r \in DOMAIN Registers
      /\ Registers[r].no \in UnitRegs["CNA"]
<1> TAKE r \in CubeRegs
<1>1. r \in Settings /\ r \in CnaConfig
  BY CnaNames DEF CubeRegs, Settings, Config
<1>2. r \in DOMAIN Registers /\ Registers[r].no \in CnaNumbers
  BY <1>1, ConfigTargets
<1> QED
  BY <1>1, <1>2 DEF UnitRegs

(* A list in which a command writes a register.                            *)
Sends(s, r) == IsSeq(s) /\ \E cmd \in CommandsIn(s) : Writes(cmd) /\ Key(cmd) = Place(r)

(* Two lists joined are a list.                                            *)
LEMMA ListsJoined == \A s, t : IsSeq(s) /\ IsSeq(t) => IsSeq(s \o t)
BY Joined

(* What one of two lists sends, the joined list sends.                     *)
LEMMA SendsJoined ==
  \A s, t, r : IsSeq(s) /\ IsSeq(t) /\ (Sends(s, r) \/ Sends(t, r)) => Sends(s \o t, r)
<1> SUFFICES ASSUME NEW s, NEW t, NEW r, IsSeq(s), IsSeq(t), Sends(s, r) \/ Sends(t, r)
             PROVE  Sends(s \o t, r)
  OBVIOUS
<1>1. IsSeq(s \o t) /\ CommandsIn(s \o t) = CommandsIn(s) \cup CommandsIn(t)
  BY Joined
<1> QED
  BY <1>1 DEF Sends

(* EMIT writes a list.                                                     *)
LEMMA EmitsAreLists == \A u, name, v : IsSeq(Full!EMIT(u, name, v))
<1> SUFFICES ASSUME NEW u, NEW name, NEW v PROVE IsSeq(Full!EMIT(u, name, v))
  OBVIOUS
<1>1. \E cmd : Full!EMIT(u, name, v) = <<cmd>>
  BY ZenonT(60) DEF Full!EMIT, Full!RAW
<1> QED
  BY <1>1, One

(* So does Zeros.                                                          *)
LEMMA ZerosAreLists == \A u, regs, N : Lists(regs, N) => IsSeq(Full!Zeros(u, regs))
<1> SUFFICES ASSUME NEW u, NEW regs, NEW N, Lists(regs, N)
             PROVE  IsSeq(Full!Zeros(u, regs))
  OBVIOUS
<1>1. regs \in Seq(N)
  BY DEF Lists, IsSeq
<1>2. PICK E : E = [i \in DOMAIN regs |-> Full!EMIT(u, regs[i], {})[1]]
  OBVIOUS
<1>3. Full!Zeros(u, regs) = E
  BY <1>2, Zenon DEF Full!Zeros
<1>4. DOMAIN E = 1..Len(regs) /\ Len(regs) \in Nat
  BY <1>1, <1>2
<1>5. E = [i \in 1..Len(regs) |-> E[i]]
  BY <1>2, <1>4
<1>6. \A i \in 1..Len(regs) : E[i] \in CommandsIn(E)
  BY <1>4 DEF CommandsIn
<1>7. E \in Seq(CommandsIn(E))
  BY <1>4, <1>5, <1>6
<1> QED
  BY <1>3, <1>7, Zenon DEF IsSeq

(* EMIT sends the register it names.                                       *)
LEMMA EmitSends ==
  \A r \in CubeRegs : \A c : Sends(Full!EMIT("CNA", r, FullWord(c)[r]), r)
<1> SUFFICES ASSUME NEW r \in CubeRegs, NEW c
             PROVE  Sends(Full!EMIT("CNA", r, FullWord(c)[r]), r)
  OBVIOUS
<1>1. PICK v : v = FullWord(c)[r]
  OBVIOUS
<1>2. PICK no : no = Registers[r].no
  OBVIOUS
<1>3. PICK cmd : cmd = MESA_REGCMD(Bits(Target["CNA"]), v, Bits(no))
  OBVIOUS
<1>4. r \in DOMAIN Registers /\ no \in UnitRegs["CNA"] /\ r \in DOMAIN FullSent(c)
  BY <1>2, CubeRegsSet, FullNames DEF CubeRegs
<1>5. v \in SUBSET Low(32)
  BY <1>1, <1>4, FullWordsFit, Zenon
<1>6. Full!EMIT("CNA", r, v) = <<cmd>>
  BY <1>2, <1>3, <1>4, FullSame, FullMap, Zenon DEF Full!EMIT, Full!RAW
<1>7. Writes(cmd) /\ Key(cmd) = Place(r)
  BY <1>2, <1>3, <1>4, <1>5, MesaLands, Zenon
<1>8. IsSeq(<<cmd>>) /\ CommandsIn(<<cmd>>) = {cmd}
  BY One
<1>9. Sends(<<cmd>>, r)
  BY <1>7, <1>8 DEF Sends
<1> QED
  BY <1>1, <1>6, <1>9, Zenon

(* The sizes' part of the full list sends the cube's sizes.                *)
LEMMA SizesSend ==
  \A c : IsSeq(Full!Sizes(c)) /\ Sends(Full!Sizes(c), "CNA_DATA_SIZE0")
      /\ Sends(Full!Sizes(c), "CNA_DATA_SIZE1") /\ Sends(Full!Sizes(c), "CNA_WEIGHT_SIZE2")
<1> TAKE c
<1> DEFINE s1 == Full!Conv
<1> DEFINE s2 == Full!EMIT("CNA", "CNA_CONV_CON2", Full!F("CNA_CONV_CON2", "FEATURE_GRAINS", 52))
<1> DEFINE s3 ==
      Full!EMIT("CNA", "CNA_CONV_CON3",
        Full!F("CNA_CONV_CON3", "CONV_X_STRIDE", 1)
          \cup Full!F("CNA_CONV_CON3", "CONV_Y_STRIDE", 1))
<1> DEFINE s4 ==
      Full!EMIT("CNA", "CNA_DATA_SIZE0",
        Full!F("CNA_DATA_SIZE0", "DATAIN_WIDTH", 1)
          \cup Full!F("CNA_DATA_SIZE0", "DATAIN_HEIGHT", c.m))
<1> DEFINE s5 ==
      Full!EMIT("CNA", "CNA_DATA_SIZE1",
        Full!F("CNA_DATA_SIZE1", "DATAIN_CHANNEL_REAL", c.k - 1)
          \cup Full!F("CNA_DATA_SIZE1", "DATAIN_CHANNEL", c.k))
<1> DEFINE s6 == Full!EMIT("CNA", "CNA_DATA_SIZE2", Full!F("CNA_DATA_SIZE2", "DATAOUT_WIDTH", 1))
<1> DEFINE s7 ==
      Full!EMIT("CNA", "CNA_DATA_SIZE3",
        Full!F("CNA_DATA_SIZE3", "DATAOUT_ATOMICS", c.m))
<1> DEFINE s8 == Full!EMIT("CNA", "CNA_WEIGHT_SIZE0", Full!IntBits(c.k * c.n))
<1> DEFINE s9 == Full!EMIT("CNA", "CNA_WEIGHT_SIZE1", Full!IntBits(c.k))
<1> DEFINE s10 ==
      Full!EMIT("CNA", "CNA_WEIGHT_SIZE2",
        Full!F("CNA_WEIGHT_SIZE2", "WEIGHT_WIDTH", 1)
          \cup Full!F("CNA_WEIGHT_SIZE2", "WEIGHT_HEIGHT", 1)
          \cup Full!F("CNA_WEIGHT_SIZE2", "WEIGHT_KERNELS", c.n))
<1> DEFINE s11 == Full!BanksAgain
<1> DEFINE s12 ==
      Full!EMIT("CNA", "CNA_CBUF_CON1",
        Full!F("CNA_CBUF_CON1", "DATA_ENTRIES", c.m * c.k))
<1>0. Full!Sizes(c) = s1 \o s2 \o s3 \o s4 \o s5 \o s6 \o s7 \o s8 \o s9 \o s10 \o s11 \o s12
  BY ZenonT(60) DEF Full!Sizes
<1>1. IsSeq(s1)
  BY EmitsAreLists, Zenon DEF Full!Conv
<1>2. IsSeq(s2)
  BY EmitsAreLists, Zenon
<1>3. IsSeq(s3)
  BY EmitsAreLists, Zenon
<1>4. IsSeq(s4) /\ Sends(s4, "CNA_DATA_SIZE0")
  <2>1. "CNA_DATA_SIZE0" \in CubeRegs
    BY DEF CubeRegs
  <2>2. s4 = Full!EMIT("CNA", "CNA_DATA_SIZE0", FullWord(c)["CNA_DATA_SIZE0"])
    BY FullWords, Zenon
  <2> HIDE DEF s4
  <2> QED
    BY <2>1, <2>2, EmitSends, Zenon DEF Sends
<1>5. IsSeq(s5) /\ Sends(s5, "CNA_DATA_SIZE1")
  <2>1. "CNA_DATA_SIZE1" \in CubeRegs
    BY DEF CubeRegs
  <2>2. s5 = Full!EMIT("CNA", "CNA_DATA_SIZE1", FullWord(c)["CNA_DATA_SIZE1"])
    BY FullWords, Zenon
  <2> HIDE DEF s5
  <2> QED
    BY <2>1, <2>2, EmitSends, Zenon DEF Sends
<1>6. IsSeq(s6)
  BY EmitsAreLists, Zenon
<1>7. IsSeq(s7)
  BY EmitsAreLists, Zenon
<1>8. IsSeq(s8)
  BY EmitsAreLists, Zenon
<1>9. IsSeq(s9)
  BY EmitsAreLists, Zenon
<1>10. IsSeq(s10) /\ Sends(s10, "CNA_WEIGHT_SIZE2")
  <2>1. "CNA_WEIGHT_SIZE2" \in CubeRegs
    BY DEF CubeRegs
  <2>2. s10 = Full!EMIT("CNA", "CNA_WEIGHT_SIZE2", FullWord(c)["CNA_WEIGHT_SIZE2"])
    BY FullWords, Zenon
  <2> HIDE DEF s10
  <2> QED
    BY <2>1, <2>2, EmitSends, Zenon DEF Sends
<1>11. IsSeq(s11)
  BY EmitsAreLists, Zenon DEF Full!BanksAgain, Full!BankShares
<1>12. IsSeq(s12)
  BY EmitsAreLists, Zenon
<1> HIDE DEF s1, s2, s3, s4, s5, s6, s7, s8, s9, s10, s11, s12
<1>13. IsSeq(s1 \o s2)
  BY <1>1, <1>2, ListsJoined, Zenon
<1>14. IsSeq(s1 \o s2 \o s3)
  BY <1>13, <1>3, ListsJoined, Zenon
<1>15. /\ IsSeq(s1 \o s2 \o s3 \o s4)
      /\ Sends(s1 \o s2 \o s3 \o s4, "CNA_DATA_SIZE0")
  BY <1>14, <1>4, ListsJoined, SendsJoined, Zenon
<1>16. /\ IsSeq(s1 \o s2 \o s3 \o s4 \o s5)
      /\ Sends(s1 \o s2 \o s3 \o s4 \o s5, "CNA_DATA_SIZE0")
      /\ Sends(s1 \o s2 \o s3 \o s4 \o s5, "CNA_DATA_SIZE1")
  BY <1>15, <1>5, ListsJoined, SendsJoined, Zenon
<1>17. /\ IsSeq(s1 \o s2 \o s3 \o s4 \o s5 \o s6)
      /\ Sends(s1 \o s2 \o s3 \o s4 \o s5 \o s6, "CNA_DATA_SIZE0")
      /\ Sends(s1 \o s2 \o s3 \o s4 \o s5 \o s6, "CNA_DATA_SIZE1")
  BY <1>16, <1>6, ListsJoined, SendsJoined, Zenon
<1>18. /\ IsSeq(s1 \o s2 \o s3 \o s4 \o s5 \o s6 \o s7)
      /\ Sends(s1 \o s2 \o s3 \o s4 \o s5 \o s6 \o s7, "CNA_DATA_SIZE0")
      /\ Sends(s1 \o s2 \o s3 \o s4 \o s5 \o s6 \o s7, "CNA_DATA_SIZE1")
  BY <1>17, <1>7, ListsJoined, SendsJoined, Zenon
<1>19. /\ IsSeq(s1 \o s2 \o s3 \o s4 \o s5 \o s6 \o s7 \o s8)
      /\ Sends(s1 \o s2 \o s3 \o s4 \o s5 \o s6 \o s7 \o s8, "CNA_DATA_SIZE0")
      /\ Sends(s1 \o s2 \o s3 \o s4 \o s5 \o s6 \o s7 \o s8, "CNA_DATA_SIZE1")
  BY <1>18, <1>8, ListsJoined, SendsJoined, Zenon
<1>20. /\ IsSeq(s1 \o s2 \o s3 \o s4 \o s5 \o s6 \o s7 \o s8 \o s9)
      /\ Sends(s1 \o s2 \o s3 \o s4 \o s5 \o s6 \o s7 \o s8 \o s9, "CNA_DATA_SIZE0")
      /\ Sends(s1 \o s2 \o s3 \o s4 \o s5 \o s6 \o s7 \o s8 \o s9, "CNA_DATA_SIZE1")
  BY <1>19, <1>9, ListsJoined, SendsJoined, Zenon
<1>21. /\ IsSeq(s1 \o s2 \o s3 \o s4 \o s5 \o s6 \o s7 \o s8 \o s9 \o s10)
      /\ Sends(s1 \o s2 \o s3 \o s4 \o s5 \o s6 \o s7 \o s8 \o s9 \o s10, "CNA_DATA_SIZE0")
      /\ Sends(s1 \o s2 \o s3 \o s4 \o s5 \o s6 \o s7 \o s8 \o s9 \o s10, "CNA_DATA_SIZE1")
      /\ Sends(s1 \o s2 \o s3 \o s4 \o s5 \o s6 \o s7 \o s8 \o s9 \o s10, "CNA_WEIGHT_SIZE2")
  BY <1>20, <1>10, ListsJoined, SendsJoined, Zenon
<1>22. /\ IsSeq(s1 \o s2 \o s3 \o s4 \o s5 \o s6 \o s7 \o s8 \o s9 \o s10 \o s11)
      /\ Sends(s1 \o s2 \o s3 \o s4 \o s5 \o s6 \o s7 \o s8 \o s9 \o s10 \o s11, "CNA_DATA_SIZE0")
      /\ Sends(s1 \o s2 \o s3 \o s4 \o s5 \o s6 \o s7 \o s8 \o s9 \o s10 \o s11, "CNA_DATA_SIZE1")
      /\ Sends(s1 \o s2 \o s3 \o s4 \o s5 \o s6 \o s7 \o s8 \o s9 \o s10
          \o s11, "CNA_WEIGHT_SIZE2")
  BY <1>21, <1>11, ListsJoined, SendsJoined, Zenon
<1>23. /\ IsSeq(s1 \o s2 \o s3 \o s4 \o s5 \o s6 \o s7 \o s8 \o s9 \o s10 \o s11 \o s12)
      /\ Sends(s1 \o s2 \o s3 \o s4 \o s5 \o s6 \o s7 \o s8 \o s9 \o s10 \o s11
          \o s12, "CNA_DATA_SIZE0")
      /\ Sends(s1 \o s2 \o s3 \o s4 \o s5 \o s6 \o s7 \o s8 \o s9 \o s10 \o s11
          \o s12, "CNA_DATA_SIZE1")
      /\ Sends(s1 \o s2 \o s3 \o s4 \o s5 \o s6 \o s7 \o s8 \o s9 \o s10 \o s11
          \o s12, "CNA_WEIGHT_SIZE2")
  BY <1>22, <1>12, ListsJoined, SendsJoined, Zenon
<1> QED
  BY <1>0, <1>23, Zenon

(* The input's part sends the input's address.                             *)
LEMMA InputSend ==
  \A c : IsSeq(Full!Input) /\ Sends(Full!Input, "CNA_FEATURE_DATA_ADDR")
<1> TAKE c
<1> DEFINE s1 ==
      Full!EMIT("CNA", "CNA_CVT_CON0",
        Full!F("CNA_CVT_CON0", "DATA_SIGN", 1) \cup Full!F("CNA_CVT_CON0", "CVT_TYPE", 1)
          \cup Full!F("CNA_CVT_CON0", "CVT_BYPASS", 1))
<1> DEFINE s2 == Full!EMIT("CNA", "CNA_CVT_CON1", Full!F("CNA_CVT_CON1", "CVT_SCALE0", 1))
<1> DEFINE s3 == Full!EMIT("CNA", "CNA_CVT_CON2", Full!F("CNA_CVT_CON2", "CVT_SCALE1", 1))
<1> DEFINE s4 == Full!EMIT("CNA", "CNA_CVT_CON3", Full!F("CNA_CVT_CON3", "CVT_SCALE2", 1))
<1> DEFINE s5 == Full!EMIT("CNA", "CNA_CVT_CON4", Full!F("CNA_CVT_CON4", "CVT_SCALE3", 1))
<1> DEFINE s6 == Full!Zeros("CNA", <<"CNA_FC_CON0", "CNA_FC_CON1", "CNA_PAD_CON0">>)
<1> DEFINE s7 == Full!EMIT("CNA", "CNA_FEATURE_DATA_ADDR", InputDma)
<1> DEFINE s8 ==
      Full!Zeros("CNA",
        <<"CNA_FC_CON2", "CNA_FC_DATA_SIZE0", "CNA_FC_DATA_SIZE1", "CNA_DCOMP_CTRL",
          "CNA_DCOMP_REGNUM">>)
<1> DEFINE s9 == Full!EMIT("CNA", "CNA_DCOMP_ADDR0", WeightsDma)
<1> DEFINE s10 ==
      Full!Zeros("CNA",
        <<"CNA_DCOMP_AMOUNT0", "CNA_DCOMP_AMOUNT1", "CNA_DCOMP_AMOUNT2", "CNA_DCOMP_AMOUNT3",
          "CNA_DCOMP_AMOUNT4", "CNA_DCOMP_AMOUNT5", "CNA_DCOMP_AMOUNT6", "CNA_DCOMP_AMOUNT7",
          "CNA_DCOMP_AMOUNT8", "CNA_DCOMP_AMOUNT9", "CNA_DCOMP_AMOUNT10", "CNA_DCOMP_AMOUNT11",
          "CNA_DCOMP_AMOUNT12", "CNA_DCOMP_AMOUNT13", "CNA_DCOMP_AMOUNT14", "CNA_DCOMP_AMOUNT15",
          "CNA_CVT_CON5", "CNA_PAD_CON1">>)
<1>0. Full!Input = s1 \o s2 \o s3 \o s4 \o s5 \o s6 \o s7 \o s8 \o s9 \o s10
  BY ZenonT(60) DEF Full!Input
<1>1. IsSeq(s1)
  BY EmitsAreLists, Zenon
<1>2. IsSeq(s2)
  BY EmitsAreLists, Zenon
<1>3. IsSeq(s3)
  BY EmitsAreLists, Zenon
<1>4. IsSeq(s4)
  BY EmitsAreLists, Zenon
<1>5. IsSeq(s5)
  BY EmitsAreLists, Zenon
<1>6. IsSeq(s6)
  <2> DEFINE regs ==
        <<"CNA_FC_CON0", "CNA_FC_CON1", "CNA_PAD_CON0">>
  <2> DEFINE N ==
        {"CNA_FC_CON0", "CNA_FC_CON1", "CNA_PAD_CON0"}
  <2>1. Lists(regs, N)
    BY TuplesList, Zenon
  <2>2. s6 = Full!Zeros("CNA", regs)
    OBVIOUS
  <2> HIDE DEF regs, N, s6
  <2> QED
    BY <2>1, <2>2, ZerosAreLists, Zenon
<1>7. IsSeq(s7) /\ Sends(s7, "CNA_FEATURE_DATA_ADDR")
  <2>1. "CNA_FEATURE_DATA_ADDR" \in CubeRegs
    BY DEF CubeRegs
  <2>2. s7 = Full!EMIT("CNA", "CNA_FEATURE_DATA_ADDR", FullWord(c)["CNA_FEATURE_DATA_ADDR"])
    BY FullWords, Zenon
  <2> HIDE DEF s7
  <2> QED
    BY <2>1, <2>2, EmitSends, Zenon DEF Sends
<1>8. IsSeq(s8)
  <2> DEFINE regs ==
        <<"CNA_FC_CON2", "CNA_FC_DATA_SIZE0", "CNA_FC_DATA_SIZE1", "CNA_DCOMP_CTRL",
          "CNA_DCOMP_REGNUM">>
  <2> DEFINE N ==
        {"CNA_FC_CON2", "CNA_FC_DATA_SIZE0", "CNA_FC_DATA_SIZE1", "CNA_DCOMP_CTRL",
         "CNA_DCOMP_REGNUM"}
  <2>1. Lists(regs, N)
    BY TuplesList, Zenon
  <2>2. s8 = Full!Zeros("CNA", regs)
    OBVIOUS
  <2> HIDE DEF regs, N, s8
  <2> QED
    BY <2>1, <2>2, ZerosAreLists, Zenon
<1>9. IsSeq(s9)
  BY EmitsAreLists, Zenon
<1>10. IsSeq(s10)
  <2> DEFINE regs ==
        <<"CNA_DCOMP_AMOUNT0", "CNA_DCOMP_AMOUNT1", "CNA_DCOMP_AMOUNT2", "CNA_DCOMP_AMOUNT3",
          "CNA_DCOMP_AMOUNT4", "CNA_DCOMP_AMOUNT5", "CNA_DCOMP_AMOUNT6", "CNA_DCOMP_AMOUNT7",
          "CNA_DCOMP_AMOUNT8", "CNA_DCOMP_AMOUNT9", "CNA_DCOMP_AMOUNT10", "CNA_DCOMP_AMOUNT11",
          "CNA_DCOMP_AMOUNT12", "CNA_DCOMP_AMOUNT13", "CNA_DCOMP_AMOUNT14", "CNA_DCOMP_AMOUNT15",
          "CNA_CVT_CON5", "CNA_PAD_CON1">>
  <2> DEFINE N ==
        {"CNA_DCOMP_AMOUNT0", "CNA_DCOMP_AMOUNT1", "CNA_DCOMP_AMOUNT2", "CNA_DCOMP_AMOUNT3",
         "CNA_DCOMP_AMOUNT4", "CNA_DCOMP_AMOUNT5", "CNA_DCOMP_AMOUNT6", "CNA_DCOMP_AMOUNT7",
         "CNA_DCOMP_AMOUNT8", "CNA_DCOMP_AMOUNT9", "CNA_DCOMP_AMOUNT10", "CNA_DCOMP_AMOUNT11",
         "CNA_DCOMP_AMOUNT12", "CNA_DCOMP_AMOUNT13", "CNA_DCOMP_AMOUNT14", "CNA_DCOMP_AMOUNT15",
         "CNA_CVT_CON5", "CNA_PAD_CON1"}
  <2>1. Lists(regs, N)
    BY TuplesList, Zenon
  <2>2. s10 = Full!Zeros("CNA", regs)
    OBVIOUS
  <2> HIDE DEF regs, N, s10
  <2> QED
    BY <2>1, <2>2, ZerosAreLists, Zenon
<1> HIDE DEF s1, s2, s3, s4, s5, s6, s7, s8, s9, s10
<1>11. IsSeq(s1 \o s2)
  BY <1>1, <1>2, ListsJoined, Zenon
<1>12. IsSeq(s1 \o s2 \o s3)
  BY <1>11, <1>3, ListsJoined, Zenon
<1>13. IsSeq(s1 \o s2 \o s3 \o s4)
  BY <1>12, <1>4, ListsJoined, Zenon
<1>14. IsSeq(s1 \o s2 \o s3 \o s4 \o s5)
  BY <1>13, <1>5, ListsJoined, Zenon
<1>15. IsSeq(s1 \o s2 \o s3 \o s4 \o s5 \o s6)
  BY <1>14, <1>6, ListsJoined, Zenon
<1>16. /\ IsSeq(s1 \o s2 \o s3 \o s4 \o s5 \o s6 \o s7)
      /\ Sends(s1 \o s2 \o s3 \o s4 \o s5 \o s6 \o s7, "CNA_FEATURE_DATA_ADDR")
  BY <1>15, <1>7, ListsJoined, SendsJoined, Zenon
<1>17. /\ IsSeq(s1 \o s2 \o s3 \o s4 \o s5 \o s6 \o s7 \o s8)
      /\ Sends(s1 \o s2 \o s3 \o s4 \o s5 \o s6 \o s7 \o s8, "CNA_FEATURE_DATA_ADDR")
  BY <1>16, <1>8, ListsJoined, SendsJoined, Zenon
<1>18. /\ IsSeq(s1 \o s2 \o s3 \o s4 \o s5 \o s6 \o s7 \o s8 \o s9)
      /\ Sends(s1 \o s2 \o s3 \o s4 \o s5 \o s6 \o s7 \o s8 \o s9, "CNA_FEATURE_DATA_ADDR")
  BY <1>17, <1>9, ListsJoined, SendsJoined, Zenon
<1>19. /\ IsSeq(s1 \o s2 \o s3 \o s4 \o s5 \o s6 \o s7 \o s8 \o s9 \o s10)
      /\ Sends(s1 \o s2 \o s3 \o s4 \o s5 \o s6 \o s7 \o s8 \o s9 \o s10, "CNA_FEATURE_DATA_ADDR")
  BY <1>18, <1>10, ListsJoined, SendsJoined, Zenon
<1> QED
  BY <1>0, <1>19, Zenon

(* The full list tells it all of them.                                     *)
LEMMA FullSendsCube ==
  \A c : \A r \in CubeRegs :
    \E cmd \in CommandsIn(Full!gen_matmul_fp16(c)) : Writes(cmd) /\ Key(cmd) = Place(r)
<1> TAKE c
<1> DEFINE s1 == Full!Prologue
<1> DEFINE s2 == Full!Sizes(c)
<1> DEFINE s3 == Full!Input
<1> DEFINE s4 == Full!Core(c)
<1> DEFINE s5 == Full!Output(c)
<1> DEFINE s6 == Full!Stages
<1> DEFINE s7 == Full!Rdma(c)
<1> DEFINE s8 == Full!Ending
<1>0. Full!gen_matmul_fp16(c) = s1 \o s2 \o s3 \o s4 \o s5 \o s6 \o s7 \o s8
  BY ZenonT(60) DEF Full!gen_matmul_fp16
<1>1. IsSeq(s1)
  BY PrologueSays, Zenon DEF AllSay
<1>2. /\ IsSeq(s2)
      /\ Sends(s2, "CNA_DATA_SIZE0")
      /\ Sends(s2, "CNA_DATA_SIZE1")
      /\ Sends(s2, "CNA_WEIGHT_SIZE2")
  BY SizesSend, Zenon
<1>3. /\ IsSeq(s3)
      /\ Sends(s3, "CNA_FEATURE_DATA_ADDR")
  BY InputSend, Zenon
<1>4. IsSeq(s4)
  BY CoreSays, Zenon DEF AllSay
<1>5. IsSeq(s5)
  BY OutputSays, Zenon DEF AllSay
<1>6. IsSeq(s6)
  BY StagesSays, Zenon DEF AllSay
<1>7. IsSeq(s7)
  BY RdmaSays, Zenon DEF AllSay
<1>8. IsSeq(s8)
  BY EndingSays, Zenon DEF AllSay
<1> HIDE DEF s1, s2, s3, s4, s5, s6, s7, s8
<1>9. /\ IsSeq(s1 \o s2)
      /\ Sends(s1 \o s2, "CNA_DATA_SIZE0")
      /\ Sends(s1 \o s2, "CNA_DATA_SIZE1")
      /\ Sends(s1 \o s2, "CNA_WEIGHT_SIZE2")
  BY <1>1, <1>2, ListsJoined, SendsJoined, Zenon
<1>10. /\ IsSeq(s1 \o s2 \o s3)
      /\ Sends(s1 \o s2 \o s3, "CNA_DATA_SIZE0")
      /\ Sends(s1 \o s2 \o s3, "CNA_DATA_SIZE1")
      /\ Sends(s1 \o s2 \o s3, "CNA_WEIGHT_SIZE2")
      /\ Sends(s1 \o s2 \o s3, "CNA_FEATURE_DATA_ADDR")
  BY <1>9, <1>3, ListsJoined, SendsJoined, Zenon
<1>11. /\ IsSeq(s1 \o s2 \o s3 \o s4)
      /\ Sends(s1 \o s2 \o s3 \o s4, "CNA_DATA_SIZE0")
      /\ Sends(s1 \o s2 \o s3 \o s4, "CNA_DATA_SIZE1")
      /\ Sends(s1 \o s2 \o s3 \o s4, "CNA_WEIGHT_SIZE2")
      /\ Sends(s1 \o s2 \o s3 \o s4, "CNA_FEATURE_DATA_ADDR")
  BY <1>10, <1>4, ListsJoined, SendsJoined, Zenon
<1>12. /\ IsSeq(s1 \o s2 \o s3 \o s4 \o s5)
      /\ Sends(s1 \o s2 \o s3 \o s4 \o s5, "CNA_DATA_SIZE0")
      /\ Sends(s1 \o s2 \o s3 \o s4 \o s5, "CNA_DATA_SIZE1")
      /\ Sends(s1 \o s2 \o s3 \o s4 \o s5, "CNA_WEIGHT_SIZE2")
      /\ Sends(s1 \o s2 \o s3 \o s4 \o s5, "CNA_FEATURE_DATA_ADDR")
  BY <1>11, <1>5, ListsJoined, SendsJoined, Zenon
<1>13. /\ IsSeq(s1 \o s2 \o s3 \o s4 \o s5 \o s6)
      /\ Sends(s1 \o s2 \o s3 \o s4 \o s5 \o s6, "CNA_DATA_SIZE0")
      /\ Sends(s1 \o s2 \o s3 \o s4 \o s5 \o s6, "CNA_DATA_SIZE1")
      /\ Sends(s1 \o s2 \o s3 \o s4 \o s5 \o s6, "CNA_WEIGHT_SIZE2")
      /\ Sends(s1 \o s2 \o s3 \o s4 \o s5 \o s6, "CNA_FEATURE_DATA_ADDR")
  BY <1>12, <1>6, ListsJoined, SendsJoined, Zenon
<1>14. /\ IsSeq(s1 \o s2 \o s3 \o s4 \o s5 \o s6 \o s7)
      /\ Sends(s1 \o s2 \o s3 \o s4 \o s5 \o s6 \o s7, "CNA_DATA_SIZE0")
      /\ Sends(s1 \o s2 \o s3 \o s4 \o s5 \o s6 \o s7, "CNA_DATA_SIZE1")
      /\ Sends(s1 \o s2 \o s3 \o s4 \o s5 \o s6 \o s7, "CNA_WEIGHT_SIZE2")
      /\ Sends(s1 \o s2 \o s3 \o s4 \o s5 \o s6 \o s7, "CNA_FEATURE_DATA_ADDR")
  BY <1>13, <1>7, ListsJoined, SendsJoined, Zenon
<1>15. /\ IsSeq(s1 \o s2 \o s3 \o s4 \o s5 \o s6 \o s7 \o s8)
      /\ Sends(s1 \o s2 \o s3 \o s4 \o s5 \o s6 \o s7 \o s8, "CNA_DATA_SIZE0")
      /\ Sends(s1 \o s2 \o s3 \o s4 \o s5 \o s6 \o s7 \o s8, "CNA_DATA_SIZE1")
      /\ Sends(s1 \o s2 \o s3 \o s4 \o s5 \o s6 \o s7 \o s8, "CNA_WEIGHT_SIZE2")
      /\ Sends(s1 \o s2 \o s3 \o s4 \o s5 \o s6 \o s7 \o s8, "CNA_FEATURE_DATA_ADDR")
  BY <1>14, <1>8, ListsJoined, SendsJoined, Zenon
<1>16. ASSUME NEW r \in CubeRegs PROVE Sends(Full!gen_matmul_fp16(c), r)
  <2>1. r \in {"CNA_DATA_SIZE0", "CNA_DATA_SIZE1", "CNA_WEIGHT_SIZE2", "CNA_FEATURE_DATA_ADDR"}
    BY DEF CubeRegs
  <2> QED
    BY <1>0, <1>15, <2>1, Zenon
<1> QED
  BY <1>16, Zenon DEF Sends

(* Mesa's list tells it before it enables the CNA, in its first commands.  *)
FirstRegs == {"PC_BASE_ADDRESS", "PC_REGISTER_AMOUNTS", "PC_OPERATION_ENABLE",
    "CNA_CONV_CON1"} \cup CubeRegs

(* Mesa's list enables the CNA after the commands of the job.              *)
LEMMA BeforeEnable ==
  \A r \in FirstRegs : \A cmd, v : Lands(cmd, r, v) => Key(cmd) # Place("CNA_OPERATION_ENABLE")
<1> SUFFICES ASSUME NEW r \in FirstRegs, NEW cmd, NEW v, Lands(cmd, r, v)
             PROVE  Key(cmd) # Place("CNA_OPERATION_ENABLE")
  OBVIOUS
<1>1. r # "CNA_OPERATION_ENABLE"
  BY DEF FirstRegs, CubeRegs
<1>2. r \in DOMAIN Registers /\ "CNA_OPERATION_ENABLE" \in DOMAIN Registers
  <2>1. {"PC_BASE_ADDRESS", "PC_REGISTER_AMOUNTS", "PC_OPERATION_ENABLE", "CNA_OPERATION_ENABLE"}
          \subseteq DOMAIN Registers
    BY OtherTargets
  <2>2. "CNA_CONV_CON1" \in DOMAIN Registers
    BY CnaNames, SettingPlaces DEF Settings, Config
  <2> QED
    BY <2>1, <2>2, CubeRegsSet DEF FirstRegs
<1>3. Place(r) # Place("CNA_OPERATION_ENABLE")
  BY <1>1, <1>2, PlacesDiffer, Zenon
<1> QED
  BY <1>3, Zenon DEF Lands

(* When it does, it has sent the cube's registers.                         *)
LEMMA MesaSendsCube ==
  \A c :
    /\ \A i \in 1..7 : Key(Mesa!gen_matmul_fp16(c)[i]) # Place("CNA_OPERATION_ENABLE")
    /\ \A r \in CubeRegs : \E i \in 1..7 :
         /\ Writes(Mesa!gen_matmul_fp16(c)[i])
         /\ Key(Mesa!gen_matmul_fp16(c)[i]) = Place(r)
<1> TAKE c
<1> DEFINE e1 == Mesa!Pc({}, Mesa!REG_PC_BASE_ADDRESS)
<1> DEFINE e2 == Mesa!Pc({}, Mesa!REG_PC_REGISTER_AMOUNTS)
<1> DEFINE e3 == Mesa!Cna(Mesa!Precision, Mesa!REG_CNA_CONV_CON1)
<1> DEFINE e4 == Mesa!Cna(Mesa!DataSize0(c), Mesa!REG_CNA_DATA_SIZE0)
<1> DEFINE e5 == Mesa!Cna(Mesa!Bits(c.k), Mesa!REG_CNA_DATA_SIZE1)
<1> DEFINE e6 == Mesa!Cna(Mesa!WeightSize2(c), Mesa!REG_CNA_WEIGHT_SIZE2)
<1> DEFINE e7 == Mesa!Cna(InputDma, Mesa!REG_CNA_FEATURE_DATA_ADDR)
<1> DEFINE e8 == Mesa!Cna(WeightsDma, Mesa!REG_CNA_WEIGHT_DATA_ADDR)
<1> DEFINE e9 == Mesa!Dpu(OutputDma, Mesa!REG_DPU_DST_BASE_ADDR_LOW)
<1> DEFINE e10 == Mesa!Dpu(Mesa!IntBits(c.n * 2), Mesa!REG_DPU_DST_LINE_STRIDE)
<1> DEFINE e11 == Mesa!Dpu(Mesa!TwiceBits(c.m * c.n), Mesa!REG_DPU_DST_SURFACE_STRIDE)
<1> DEFINE e12 == Mesa!Pc(Mesa!Bits(1), Mesa!REG_PC_OPERATION_ENABLE)
<1> DEFINE e13 == Mesa!Cna(Mesa!Bits(1), Mesa!REG_CNA_OPERATION_ENABLE)
<1> DEFINE e14 == Mesa!Dpu(Mesa!Bits(1), Mesa!REG_DPU_OPERATION_ENABLE)
<1> DEFINE e15 == Mesa!Dpu({}, Mesa!REG_DPU_OPERATION_ENABLE)
<1> DEFINE e16 == Mesa!Cna({}, Mesa!REG_CNA_OPERATION_ENABLE)
<1> DEFINE e17 == Mesa!Pc({}, Mesa!REG_PC_OPERATION_ENABLE)
<1>0. Mesa!gen_matmul_fp16(c) = <<e1, e2, e3, e4, e5, e6, e7, e8, e9, e10, e11, e12, e13, e14,
   e15, e16, e17>>
  BY Zenon DEF Mesa!gen_matmul_fp16
<1>1. Lands(e1, "PC_BASE_ADDRESS", {})
  BY MesaWordsFit, MesaCommandsLand, Zenon
<1>2. Lands(e2, "PC_REGISTER_AMOUNTS", {})
  BY MesaWordsFit, MesaCommandsLand, Zenon
<1>3. Lands(e3, "CNA_CONV_CON1", Mesa!Precision)
  BY MesaWordsFit, MesaCommandsLand, Zenon
<1>4. Lands(e4, "CNA_DATA_SIZE0", Mesa!DataSize0(c))
  BY MesaWordsFit, MesaCommandsLand, Zenon
<1>5. Lands(e5, "CNA_DATA_SIZE1", Mesa!Bits(c.k))
  BY MesaWordsFit, MesaCommandsLand, Zenon
<1>6. Lands(e6, "CNA_WEIGHT_SIZE2", Mesa!WeightSize2(c))
  BY MesaWordsFit, MesaCommandsLand, Zenon
<1>7. Lands(e7, "CNA_FEATURE_DATA_ADDR", InputDma)
  BY MesaWordsFit, MesaCommandsLand, Zenon
<1> HIDE DEF e1, e2, e3, e4, e5, e6, e7, e8, e9, e10, e11, e12, e13, e14, e15, e16, e17
<1>8. PICK L : L = Mesa!gen_matmul_fp16(c)
  OBVIOUS
<1>9. L[1] = e1 /\ L[2] = e2 /\ L[3] = e3 /\ L[4] = e4 /\ L[5] = e5 /\ L[6] = e6 /\ L[7] = e7
  BY <1>0, <1>8
<1>10. /\ Lands(L[1], "PC_BASE_ADDRESS", {})
       /\ Lands(L[2], "PC_REGISTER_AMOUNTS", {})
       /\ Lands(L[3], "CNA_CONV_CON1", Mesa!Precision)
       /\ Lands(L[4], "CNA_DATA_SIZE0", Mesa!DataSize0(c))
       /\ Lands(L[5], "CNA_DATA_SIZE1", Mesa!Bits(c.k))
       /\ Lands(L[6], "CNA_WEIGHT_SIZE2", Mesa!WeightSize2(c))
       /\ Lands(L[7], "CNA_FEATURE_DATA_ADDR", InputDma)
  BY <1>1, <1>2, <1>3, <1>4, <1>5, <1>6, <1>7, <1>9, Zenon
<1>11. {"PC_BASE_ADDRESS", "PC_REGISTER_AMOUNTS", "CNA_CONV_CON1", "CNA_DATA_SIZE0",
           "CNA_DATA_SIZE1", "CNA_WEIGHT_SIZE2", "CNA_FEATURE_DATA_ADDR"} \subseteq FirstRegs
  BY DEF FirstRegs, CubeRegs
<1>12. /\ Key(L[1]) # Place("CNA_OPERATION_ENABLE")
       /\ Key(L[2]) # Place("CNA_OPERATION_ENABLE")
       /\ Key(L[3]) # Place("CNA_OPERATION_ENABLE")
       /\ Key(L[4]) # Place("CNA_OPERATION_ENABLE")
       /\ Key(L[5]) # Place("CNA_OPERATION_ENABLE")
       /\ Key(L[6]) # Place("CNA_OPERATION_ENABLE")
       /\ Key(L[7]) # Place("CNA_OPERATION_ENABLE")
  <2>1. Key(L[1]) # Place("CNA_OPERATION_ENABLE")
    BY <1>10, <1>11, BeforeEnable, Zenon
  <2>2. Key(L[2]) # Place("CNA_OPERATION_ENABLE")
    BY <1>10, <1>11, BeforeEnable, Zenon
  <2>3. Key(L[3]) # Place("CNA_OPERATION_ENABLE")
    BY <1>10, <1>11, BeforeEnable, Zenon
  <2>4. Key(L[4]) # Place("CNA_OPERATION_ENABLE")
    BY <1>10, <1>11, BeforeEnable, Zenon
  <2>5. Key(L[5]) # Place("CNA_OPERATION_ENABLE")
    BY <1>10, <1>11, BeforeEnable, Zenon
  <2>6. Key(L[6]) # Place("CNA_OPERATION_ENABLE")
    BY <1>10, <1>11, BeforeEnable, Zenon
  <2>7. Key(L[7]) # Place("CNA_OPERATION_ENABLE")
    BY <1>10, <1>11, BeforeEnable, Zenon
  <2> QED
    BY <2>1, <2>2, <2>3, <2>4, <2>5, <2>6, <2>7
<1>13. \A i \in 1..7 : Key(L[i]) # Place("CNA_OPERATION_ENABLE")
  <2>1. \A i \in 1..7 : i = 1 \/ i = 2 \/ i = 3 \/ i = 4 \/ i = 5 \/ i = 6 \/ i = 7
    OBVIOUS
  <2> QED
    BY <1>12, <2>1, Zenon
<1>14. ASSUME NEW r \in CubeRegs
       PROVE  \E i \in 1..7 : Writes(L[i]) /\ Key(L[i]) = Place(r)
  <2>1. 4 \in 1..7 /\ 5 \in 1..7 /\ 6 \in 1..7 /\ 7 \in 1..7
    OBVIOUS
  <2>2. r = "CNA_DATA_SIZE0" \/ r = "CNA_DATA_SIZE1" \/ r = "CNA_WEIGHT_SIZE2"
          \/ r = "CNA_FEATURE_DATA_ADDR"
    BY DEF CubeRegs
  <2>3. CASE r = "CNA_DATA_SIZE0"
    BY <1>10, <2>1, <2>3, Zenon DEF Lands
  <2>4. CASE r = "CNA_DATA_SIZE1"
    BY <1>10, <2>1, <2>4, Zenon DEF Lands
  <2>5. CASE r = "CNA_WEIGHT_SIZE2"
    BY <1>10, <2>1, <2>5, Zenon DEF Lands
  <2>6. CASE r = "CNA_FEATURE_DATA_ADDR"
    BY <1>10, <2>1, <2>6, Zenon DEF Lands
  <2> QED
    BY <2>2, <2>3, <2>4, <2>5, <2>6
<1> QED
  BY <1>8, <1>13, <1>14, Zenon

(* Its int8 list does not enable the CNA.                                  *)
LEMMA Int8SendsNoEnable ==
  \A cmd \in CommandsIn(Mesa!gen_matmul_int8) : Key(cmd) # Place("CNA_OPERATION_ENABLE")
<1> DEFINE e1 == Mesa!Pc({}, Mesa!REG_PC_BASE_ADDRESS)
<1> DEFINE e2 == Mesa!Pc({}, Mesa!REG_PC_REGISTER_AMOUNTS)
<1> DEFINE e3 == Mesa!Pc(Mesa!Bits(1), Mesa!REG_PC_OPERATION_ENABLE)
<1> DEFINE e4 == Mesa!Pc({}, Mesa!REG_PC_OPERATION_ENABLE)
<1>1. Mesa!gen_matmul_int8 = <<e1, e2, e3, e4>>
  BY Zenon DEF Mesa!gen_matmul_int8
<1>2. /\ Lands(e1, "PC_BASE_ADDRESS", {}) /\ Lands(e2, "PC_REGISTER_AMOUNTS", {})
      /\ Lands(e4, "PC_OPERATION_ENABLE", {})
  BY MesaWordsFit, MesaCommandsLand, Zenon
<1>3. Lands(e3, "PC_OPERATION_ENABLE", Mesa!Bits(1))
  BY MesaWordsFit, MesaCommandsLand, Zenon
<1>4. {"PC_BASE_ADDRESS", "PC_REGISTER_AMOUNTS", "PC_OPERATION_ENABLE"} \subseteq FirstRegs
  BY DEF FirstRegs
<1> HIDE DEF e1, e2, e3, e4
<1>5. Lists(<<e1, e2, e3, e4>>, {e1, e2, e3, e4})
  BY TuplesList, Zenon
<1>6. CommandsIn(Mesa!gen_matmul_int8) = {e1, e2, e3, e4}
  BY <1>1, <1>5, Zenon DEF Lists
<1>7. ASSUME NEW cmd \in {e1, e2, e3, e4} PROVE \E r \in FirstRegs : \E v : Lands(cmd, r, v)
  BY <1>2, <1>3, <1>4, Zenon
<1> QED
  BY <1>6, <1>7, BeforeEnable, Zenon

=============================================================================
