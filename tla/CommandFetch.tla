---------------------------- MODULE CommandFetch ----------------------------
(***************************************************************************)
(* What the NPU is told by the lists the three command generators and the  *)
(* small test programs write.                                              *)
(* The NPU fetches a list one 64-bit command at a time and keeps what it   *)
(* wrote to the registers of its units until it is overwritten: a job      *)
(* finds what the jobs before it left, of programs linked with another     *)
(* generator too.  The registers are read as mesa_registers.h describes    *)
(* them, whatever the generator took their numbers and fields from.        *)
(*                                                                         *)
(* The command fetch itself is hardware: the model takes a command apart   *)
(* and stores its value, and ignores a command without a target.  Bit 0 of *)
(* a target is no part of the unit's number (rk3588 and full set it in     *)
(* some commands, Mesa's header in none).                                  *)
(***************************************************************************)
EXTENDS RegisterMap, CbufPlan, Sequences

CONSTANTS InputDma, WeightsDma, OutputDma,  \* DMA addresses, 32 bits each
          MaxJobs                           \* the jobs run one after another

ASSUME AddressAssumption == InputDma \cup WeightsDma \cup OutputDma \subseteq Low(32)
ASSUME JobsAssumption == MaxJobs \in Nat \ {0}

Rk3588 == INSTANCE RegcmdRk3588
Mesa   == INSTANCE RegcmdMesa
Full   == INSTANCE RegcmdFull
Small  == INSTANCE RegcmdMinimal

VARIABLES job,      \* the generator and the call whose list is fetched
          list,     \* the commands in its buffer
          pos,      \* commands fetched
          file,     \* <<unit, register>> -> the value it holds
          fresh,    \* the registers this list has written
          jobs      \* jobs started

vars == <<job, list, pos, file, fresh, jobs>>

(* The calls that return a list: the rk3588 generator refuses some, Mesa's *)
(* ignores fp32tofp16, the full one has no int8 and is not built: its list *)
(* is what it would write.  The small programs multiply nothing.           *)
Requests ==
  [gen : {"rk3588"}, call : {c \in Calls : DataFits(c) /\ KernelFits(c)}]
    \cup [gen : {"mesa"}, call : {c \in Calls : c.kind # "fp16to16"}]
    \cup [gen : {"full"}, call : {c \in Calls : c.kind = "fp16"}]
    \cup [gen : Small!SmallPrograms, call : {[kind |-> "none"]}]

Commands(j) ==
  CASE j.gen = "rk3588" -> Rk3588!gen_matmul_task(j.call)
    [] j.gen = "mesa" /\ j.call.kind = "fp16" -> Mesa!gen_matmul_fp16(j.call)
    [] j.gen = "mesa" /\ j.call.kind = "int8" -> Mesa!gen_matmul_int8
    [] j.gen = "full" -> Full!gen_matmul_fp16(j.call)
    [] j.gen \in Small!SmallPrograms -> Small!Commands(j.gen)

-----------------------------------------------------------------------------
Key(cmd) == <<TargetOf(cmd) \ {0}, RegOf(cmd)>>
Writes(cmd) == cmd # Full!NoWord /\ TargetOf(cmd) # {}

Load(j) ==
  /\ job' = j
  /\ list' = Commands(j)
  /\ pos' = 0
  /\ fresh' = {}

Init ==
  /\ job \in Requests
  /\ list = Commands(job)
  /\ pos = 0
  /\ file = <<>>
  /\ fresh = {}
  /\ jobs = 1

Fetch ==
  /\ pos < Len(list)
  /\ pos' = pos + 1
  /\ LET cmd == list[pos'] IN
       IF Writes(cmd)
       THEN /\ file' = [key \in DOMAIN file \cup {Key(cmd)} |->
                          IF key = Key(cmd) THEN ValueOf(cmd) ELSE file[key]]
            /\ fresh' = fresh \cup {Key(cmd)}
       ELSE UNCHANGED <<file, fresh>>
  /\ UNCHANGED <<job, list, jobs>>

(* The next job, of this program or another.                               *)
NextJob ==
  /\ pos = Len(list) /\ jobs < MaxJobs
  /\ \E j \in Requests : Load(j)
  /\ jobs' = jobs + 1
  /\ UNCHANGED file

Next == Fetch \/ NextJob

Spec == Init /\ [][Next]_vars

-----------------------------------------------------------------------------
(* Where the header has a register, and what its fields hold.              *)
Known == UNION {{<<Bits(Target[u]), Bits(no)>> : no \in UnitRegs[u]} : u \in DOMAIN UnitRegs}
Place(reg) == LET no == Registers[reg].no IN <<Bits(rkt_get_target(no)), Bits(no)>>
Enables ==
  {Place(r) : r \in {"PC_OPERATION_ENABLE", "CNA_OPERATION_ENABLE", "DPU_OPERATION_ENABLE"}}
Described == {<<reg, Place(reg)>> : reg \in DOMAIN Registers}

Holds(reg, f) == FieldOf(reg, f, file[Place(reg)])

Ended(gen) == job.gen = gen /\ pos = Len(list)
Wrote(key) == pos > 0 /\ Writes(list[pos]) /\ Key(list[pos]) = key

(* When an rk3588 job starts, the three units agree on what it is: the     *)
(* input cube, the kernels, the shares of the buffer, the addresses and    *)
(* the output cube are those of the call, no field has cut a number, and   *)
(* the CNA, the CORE and the DPU have the same precision and output.  The  *)
(* generator took the fields from another document than the reader here.   *)
(* The calls are those the test program lets through, and 2^14 channels.   *)
JobInRegisters ==
  LET c == job.call IN
  Ended("rk3588") =>
    /\ Holds("CNA_DATA_SIZE0", "DATAIN_HEIGHT") = Bits(c.m)
    /\ Holds("CNA_DATA_SIZE0", "DATAIN_WIDTH") = Bits(1)
    /\ Holds("CNA_DATA_SIZE1", "DATAIN_CHANNEL") = Bits(c.k)
    /\ Holds("CNA_DATA_SIZE1", "DATAIN_CHANNEL_REAL") = Bits(c.k - 1)
    /\ Holds("CNA_CONV_CON2", "FEATURE_GRAINS") = Bits(c.m + 1)
    /\ Holds("CNA_WEIGHT_SIZE2", "WEIGHT_KERNELS") = Bits(c.n)
    /\ Holds("CNA_WEIGHT_SIZE1", "WEIGHT_BYTES_PER_KERNEL") = Bits(c.k * Elem(c))
    /\ Holds("CNA_WEIGHT_SIZE0", "VALUE") = Bits(c.k * Elem(c) * c.n)
    /\ \E d \in 1..Banks-1 :
         /\ d * BankSize >= c.m * c.k * Elem(c)
         /\ Holds("CNA_CBUF_CON0", "DATA_BANK") = Bits(d)
         /\ Holds("CNA_CBUF_CON0", "WEIGHT_BANK") = Bits(Banks - d)
    /\ Holds("CNA_FEATURE_DATA_ADDR", "VALUE") = InputDma
    /\ Holds("CNA_DCOMP_ADDR0", "VALUE") = WeightsDma
    /\ Holds("DPU_DST_BASE_ADDR", "VALUE") = OutputDma
    /\ Holds("CORE_DATAOUT_SIZE_0", "DATAOUT_HEIGHT") = Bits(c.m - 1)
    /\ Holds("DPU_DATA_CUBE_HEIGHT", "HEIGHT") = Bits(c.m - 1)
    /\ Holds("DPU_WDMA_SIZE_1", "HEIGHT_WDMA") = Bits(c.m - 1)
    /\ Holds("CORE_DATAOUT_SIZE_1", "DATAOUT_CHANNEL") = Bits(c.n - 1)
    /\ Holds("DPU_DATA_CUBE_CHANNEL", "CHANNEL") = Bits(c.n - 1)
    /\ Holds("DPU_WDMA_SIZE_0", "CHANNEL_WDMA") = Bits(c.n - 1)
    /\ Holds("CNA_CONV_CON1", "PROC_PRECISION") = Holds("CORE_MISC_CFG", "PROC_PRECISION")
    /\ Holds("CNA_CONV_CON1", "PROC_PRECISION") = Holds("DPU_DATA_FORMAT", "PROC_PRECISION")

(* What JobInRegisters and CnaConfigured need of the sizes: the widths and *)
(* the buffer of the code, and sizes the fields can hold: the rows and one *)
(* more in 10 bits, the last channel in 14, the last kernel in 13.         *)
SizesFit ==
  /\ U16 = 65536 /\ BankSize = 32768 /\ Banks = 12
  /\ Ms \subseteq 1..1022 /\ Ks \subseteq 1..16384 /\ Ns \subseteq 1..8192

(* An rk3588 job does not depend on what ran before it: when it starts,    *)
(* every configuration register of its three units that any job has set    *)
(* has been set again by its own list (Mesa's list puts an address into    *)
(* CNA_FC_CON2, for one).                                                  *)
Units == {Bits(Target[u]) : u \in {"CNA", "CORE", "DPU"}}

NothingStale ==
  Ended("rk3588") =>
    \A key \in (DOMAIN file \cap Known) \ Enables : key[1] \in Units => key \in fresh

(* No command of an rk3588 job sets a bit the header reserves, in a        *)
(* register it knows: no number reaches beyond its field, up to as many    *)
(* channels as fp16 kernels can have in one bank.                          *)
ReservedClear ==
  job.gen = "rk3588" /\ job.call.k <= 2^14 =>
    \A d \in Described : Wrote(d[2]) => Reserved(d[1], file[d[2]]) = {}

(* A command goes to a unit that has the register it names: every one of   *)
(* an rk3588 job, but for the two registers npu_hw.h marks as not          *)
(* documented, and those of Mesa's lists that do not go to the DPU.  A     *)
(* stride of Mesa's that is negative as an int breaks it: see StridesSet.  *)
Undocumented == {<<Bits(Target["CORE"]), Bits(\h3030)>>, <<Bits(Target["DPU"]), Bits(\h40C4)>>}
Raw == {<<Bits(\h40), {}>>, <<Bits(\h80), Bits(\h8)>>}        \* OP_40 and OP_ENABLE

RegistersExist ==
  job.gen # "full" /\ pos > 0 /\ Writes(list[pos]) =>
    LET key == Key(list[pos]) IN
    \/ key \in Known
    \/ job.gen \in {"rk3588", "minimal_npu_test"} /\ key \in Undocumented \cup Raw
    \/ job.gen = "mesa" /\ key[1] = Bits(Target["DPU"])

(* "Set output strides": when Mesa's list for fp16 has been fetched, the   *)
(* DPU has been sent both.  A stride whose int is negative, which 2^15     *)
(* rows of as many numbers give, sends its command to target 0xFFFF.       *)
StrideRegs == {Mesa!REG_DPU_DST_LINE_STRIDE, Mesa!REG_DPU_DST_SURFACE_STRIDE}

StridesSet ==
  Ended("mesa") /\ job.call.kind = "fp16" =>
    \A no \in StrideRegs : <<Bits(Target["DPU"]), Bits(no) \cap Low(16)>> \in fresh

(* What RegistersExist needs of the sizes: no stride is a negative int.    *)
StridesFit == U16 = 65536 /\ \A m \in Ms, n \in Ns : m * n < 2^30

(* When the CNA is enabled by Mesa's list, and when the full list ends, it *)
(* holds the cube and the kernels of the call and the address of the input.*)
CnaConfigured ==
  LET c == job.call IN
  Ended("full") \/ (job.gen = "mesa" /\ Wrote(Place("CNA_OPERATION_ENABLE"))) =>
    /\ Holds("CNA_DATA_SIZE0", "DATAIN_HEIGHT") = Bits(c.m)
    /\ Holds("CNA_DATA_SIZE0", "DATAIN_WIDTH") = Bits(1)
    /\ Holds("CNA_DATA_SIZE1", "DATAIN_CHANNEL") = Bits(c.k)
    /\ Holds("CNA_WEIGHT_SIZE2", "WEIGHT_KERNELS") = Bits(c.n)
    /\ Holds("CNA_FEATURE_DATA_ADDR", "VALUE") = InputDma

(* A list that writes a configuration register twice writes the same value *)
(* ("Repeat as Mesa does"): a unit that reads it early reads it right.     *)
RepeatsAgree ==
  [][pos' > pos => \A key \in (fresh \cap Known) \ Enables : file'[key] = file[key]]_vars

(* "Disable operations (signals completion)": when Mesa's list has been    *)
(* fetched, what it enabled is disabled again.                             *)
EnableNumbers == {Bits(no) \cap Low(16) :
                    no \in {Mesa!REG_PC_OPERATION_ENABLE, Mesa!REG_CNA_OPERATION_ENABLE,
                            Mesa!REG_DPU_OPERATION_ENABLE}}

DisabledAtEnd ==
  Ended("mesa") => \A key \in fresh : key[2] \in EnableNumbers => 0 \notin file[key]
=============================================================================
