--------------------------- MODULE RegcmdMinimal ---------------------------
(***************************************************************************)
(* The command lists the three small programs under src/tests write by     *)
(* hand: minimal_npu_test.c with the macros of npu_hw.h, the other two     *)
(* with Mesa's.                                                            *)
(***************************************************************************)
EXTENDS RegcmdWords, Sequences

OPERATION_ENABLE == \h8            \* registers of the PC, in either header
BASE_ADDRESS     == \h10
REGISTER_AMOUNTS == \h14
CNA_ENABLE       == \h1008

Pc(value, reg)  == MESA_REGCMD(Bits(\h100), Bits(value), Bits(reg))
Cna(value, reg) == MESA_REGCMD(Bits(\h200), Bits(value), Bits(reg))
Hw(op, value, reg) == NPUOP(Bits(op), Bits(value), Bits(reg))

minimal_mesa_test ==
  << Pc(0, BASE_ADDRESS), Pc(0, REGISTER_AMOUNTS), Pc(1, OPERATION_ENABLE) >>

(* OP_REG_PC, OP_ENABLE with PC_ENABLE, and OP_NONE.                       *)
minimal_npu_test ==
  << Hw(\h101, 0, BASE_ADDRESS), Hw(\h101, 0, REGISTER_AMOUNTS),
     Hw(\h81, 1, OPERATION_ENABLE), Hw(0, 0, OPERATION_ENABLE) >>

test_cna_enable ==
  << Pc(0, BASE_ADDRESS), Pc(0, REGISTER_AMOUNTS), Pc(1, OPERATION_ENABLE),
     Cna(1, CNA_ENABLE), Cna(0, CNA_ENABLE), Pc(0, OPERATION_ENABLE) >>

SmallPrograms == {"minimal_mesa_test", "minimal_npu_test", "test_cna_enable"}

Commands(program) ==
  CASE program = "minimal_mesa_test" -> minimal_mesa_test
    [] program = "minimal_npu_test" -> minimal_npu_test
    [] program = "test_cna_enable" -> test_cna_enable
=============================================================================
