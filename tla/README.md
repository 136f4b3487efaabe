# librocket in TLA+

A specification of librocket, the user-space library for the RK3588 NPU under
the mainline rocket driver, kept beside its code: what the library and the
programs on top of it do (TLA+ modules translated from the C source), what was
checked of it on small instances (TLC) and what is proved for all of them
(TLAPS). Paths are relative to the repository.

## The system

| part | code | state | operations |
|---|---|---|---|
| user-space interface | `src/rocket_interface.c`, `include/rocket_interface.h` | none of its own: the caller's `rocket_ctx` (a file descriptor) and `rocket_bo`s (handle, DMA address, size, mapping) | open, close, create, map, unmap, destroy, fini, prep, submit |
| kernel driver and NPU | not here; `include/rocket_accel.h` is its UAPI | handle table, GEM objects, jobs with references to objects | the ioctls, mmap, close; jobs end |
| matmul test program | `tests/matmul_fp16_rocket.c` | four BOs on its stack, their mapped contents | create, lay out, sync, submit, wait, compare, clean up |
| minimal test programs | `tests/minimal_*.c`, `tests/test_cna_enable.c` | one BO | create, submit, wait, destroy |
| Mesa command generator | `src/npu_matmul_mesa.c` (linked into the library) | none | 17 commands; the layout functions are stubs |
| rk3588 command generator | `src/npu_matmul.c`, `include/npu_*.h` (not linked) | none | CBUF plan, 108 commands, tensor layout |
| full command generator | `src/npu_matmul_full.c` (not linked, does not compile) | none | 122 commands |
| register headers | `include/mesa_registers.h`, `include/mesa_helpers.h` | none | numbers, fields and units of the NPU's registers |
| the NPU's registers | not here | what the lists of all jobs have written | fetch a command |
| kernel patch, build | `kernel-patches/`, `Makefile`, `build.sh` | - | - |

How they interact: a program calls the library, which makes one or two system
calls per operation on the program's own structs, with no lock and no state.
The driver hands out numbers (handles, mmap offsets, DMA addresses) and reuses
them; the NPU works on memory behind the CPU's caches, and jobs outlive the
calls, and even the handles, that started them. A job is a list of 64-bit
register commands, written by a generator or by hand, which the NPU fetches one
by one; its registers keep what the lists of earlier jobs put there.

What is hard here:

* **partial failure**: `rocket_bo_create` makes two system calls and must undo
  the first; the test program must undo any prefix of four creations;
* **reused names**: a struct that keeps the number of a closed handle, or a
  second destroy, could close what has become another BO's;
* **concurrency**: calls on different BOs interleave between system calls, with
  each other and with the NPU; a wait may time out while the job goes on;
* **ordering across caches**: contents reach the NPU, and results the CPU, only
  through `fini` and `prep` in the right places;
* **dropped results**: the test program ignores what `rocket_bo_fini` returns;
* **numbers**: 32-bit fields under a `size_t`, wrapped products in the buffer
  plan, masked register fields, ints whose sign reaches the other parts of a
  command, places computed with groups and remainders;
* **stale registers**: a list that leaves a register out takes its value from
  whatever ran before;
* **two descriptions of one hardware**: `npu_hw.h` and `mesa_registers.h` come
  from different documents, and the generators use one or the other.

`PROJECT.json` lists each of them as a hazard at its line, with the properties
that watch it or the reason why none does.

## The modules

| module | models | extends |
|---|---|---|
| `RocketDriver` | driver and NPU as the library uses them (external) | |
| `RocketInterface` | the library on one context, one action per system call | `RocketDriver` |
| `BufferPool` | abstract: storage that BOs own and jobs hold | |
| `RocketInterfaceProofs` | proofs | `RocketInterface` |
| `MatmulClient` | the matmul test program over the library, driver, NPU and caches | `RocketInterface` |
| `MatmulClientProofs` | proofs | `MatmulClient`, `RocketInterfaceProofs` |
| `MinimalClient` | the three small test programs over library and driver | `RocketInterface` |
| `CbufPlan` | sizes and buffer shares of `gen_matmul_fp16/int8` | |
| `NpuMatmul` | a call of them: what it accepts and returns | `CbufPlan` |
| `NpuMatmulProofs` | proofs | `NpuMatmul` |
| `RegcmdWords` | 64-bit commands as sets of bits; `NPUOP`, `MESA_REGCMD`, and what an int becomes in them | |
| `RegcmdWordsProofs` | proofs | `RegcmdWords` |
| `RegisterMap` | `mesa_registers.h`: numbers, fields, `rkt_get_target` | `RegcmdWords` |
| `RegisterMapProofs` | proofs: the registers that configure a job, their numbers, units and fields | `RegisterMap`, `RegcmdWordsProofs` |
| `RegcmdRk3588` | the 108 commands of `npu_matmul.c` | `CbufPlan`, `RegcmdWords` |
| `RegcmdMesa` | the 17 and the 4 commands of `npu_matmul_mesa.c` | `RegcmdWords` |
| `RegcmdFull` | the 122 commands of `npu_matmul_full.c` | `RegisterMap` |
| `RegcmdMinimal` | the lists the small programs write by hand | `RegcmdWords` |
| `CommandFetch` | the NPU's registers under the lists of several jobs; composes the four `Regcmd*` with `RegisterMap` | `RegisterMap`, `CbufPlan` |
| `CommandListProofs` | proofs: what each list says, register by register | `CommandFetch`, `RegisterMapProofs` |
| `CommandFetchProofs` | proofs: what the registers hold | `CommandListProofs` |
| `TensorLayout` | `feature_data`, `weight_fp16`, `weight_int8` and the loops over them | |
| `TensorLayoutProofs` | proofs | `TensorLayout` |
| `MC*` | the instances TLC checks (`MCStrides`: one job of `CommandFetch`, with the sizes at which a stride is negative) | the module of that name |

Operators marked "mutant" beside a definition are deliberate mistakes: put in
the definition's place, they make the property named in `PROJECT.json` fail.

### RocketInterface over RocketDriver

The fields of every `rocket_bo` are functions of the BO (`handle`, `dma`,
`size`, `map`); `ctx` is the descriptor. `stage[b]` is the point a call on `b`
has reached, so that each action is one system call with the code up to the
next: `rocket_bo_create` is `CreateIoctl`, then `CreateMmap`, or
`CreateMmapFails` and `CreateUndo`; `rocket_bo_destroy` is `DestroyUnmap` and
`DestroyClose`; `rocket_bo_prep` is `PrepEnter`, then `PrepReturn` or
`PrepTimeout`. `Open`, `Close`, `Unmap` and `Submit` are single actions. After a
failed create the fields stay as the ioctl filled them, as in the code. A call
that fails at its first system call, or at a `calloc` of `rocket_submit`,
changes nothing but its return code and is a stutter.

The driver's tables are `gem` (handle to object), `iova` (handle to DMA
address), `vma` (address to object) and per job the objects it lists (`jins`,
`jouts`) and the DMA address its commands are fetched from (`jcmd`). An object
stands for its storage and mmap offset, and stays allocated while a handle, a
mapping or a job's lists name it. A DMA address is a name of its own and lives
exactly as long as the handle (`include/rocket_accel.h:36-38`): after the handle
is closed it may be given to another object, whatever job still uses it.
`offset` is the offset the ioctl of `rocket_bo_create` returned; it is local to
that call in the code and kept here so that a BO has an object of its own to be
compared with what its handle, address and mapping stand for.

Assumed of the caller: one call at a time on one BO, create only on a struct
that holds no BO, no destroy after a failed create, close when no BO is left,
and the command BO listed among the inputs of its job. The matmul test program
keeps all of this (`CallsAllowed` and `KeepsCallerContract`, checked and proved
of `MatmulClient`); the minimal programs do not list the command BO.

### MatmulClient

`pc` is the place in `main()`, `made` and `synced` how far the create ladder and
the `fini` calls have got. `cache`, `mem` and `dirty` are the CPU's and the NPU's
view of each buffer: an eviction or a prefetch may happen at any time, `fini`
writes back or fails and does nothing, a successful `prep` invalidates. `main()`
does not look at what `fini` returns; `unsynced` remembers, for the properties
alone, of which BOs it failed. The labels `err_*` are `DestroyNext`,
`DestroyEnds` and `CloseDevice`. What the NPU computes is any result, or
"fromStale" if commands or operands had not reached memory, or if the handle
that keeps the DMA address of one of them valid was closed. Two facts of the
code shape the comparison: it leaves out the last column (`n < N`), and the
library is linked with a `feature_data` that always returns 0; so the model
separates "is the product" from "agrees where `main()` looks".

### MinimalClient

The three programs are one client with a BO and a job: they differ in the list
they write and in the timeout of their wait (`Wait`; the BO's stage is "waiting"
or "blocked"). The job lists no BO, which breaks the assumption `RocketInterface`
makes of its caller; `MinimalClient` therefore has its own next-state relation
over the library's and the driver's actions.

### CbufPlan and NpuMatmul

A call is a generator with dimensions; the three actions of `NpuMatmul` are the
three returns. The formulas hold for both generators, which differ in the size
of an element.

### The command lists and CommandFetch

A word is the set of its one bits, so that `|` is union, `&` intersection and a
shift is exact at 64 bits, beyond TLC's integers. `Bits` is what an integer,
negative or not, leaves in 32 bits. `NPUOP` cuts its parts, but `MESA_REGCMD`
converts an int to `uint64_t`, sign and all (`Uint64`): the two strides of
Mesa's list and seven values of the full one are ints. Where their product
leaves 31 bits, which C does not define, the model takes what the compiled
generator does: it wraps around. `RegcmdRk3588` follows
`gen_matmul_task` command by command, with the members of the three descriptors
folded in; what depends on the call has an operator of its own (`Precision`,
`SurfStride`, ...). `RegcmdMesa` and `RegcmdFull` follow their files likewise.
Commands of `npu_matmul_full.c` whose register or field no header declares keep
their place in the list as `NoWord`.

`CommandFetch` has one list fetched at a time: `list` and `pos`; `file`, the
registers by unit and number; `fresh`, what this list has written. `NextJob`
starts any other list on the registers as they are. Everything read from
`file` is read through `RegisterMap`, whatever the generator used, so the
properties compare the two register descriptions.

The lists of the three generators were also compared, as 64-bit words, with
those of their compiled sources for every call of the run, the undeclared names
of `npu_matmul_full.c` left out: they are the same.

### TensorLayout

One action per turn of the inner layout loop; `buf` remembers which element was
stored where. For the output, which is looked up and not stored to, `buf`
records what was looked for where. `Multiples` are the divisors of the
dimensions: K of 32 and N of 16 are what `main()` accepts; N of 32 for int8 is
what `weight_int8` needs and nothing asks for (no program lays out int8).

## What is checked

| run | instance | shows |
|---|---|---|
| `core` | 2 BOs, 2 handles, 2 DMA addresses, 2 mappings, 3 objects, 2 jobs, two sizes, one of them cut by the 32-bit field | `BosOwnStorage`, `BosDisjoint`, `NoLeak`, `MappingFits`, and that the library refines `BufferPool` |
| `live` | 2 BOs, 2 objects, 1 job, nothing assumed of the NPU | every call but an untimed prep returns; if jobs end, untimed preps return and orphaned storage is freed |
| `client` | the whole program: 4 BOs, one job | the NPU reads what was laid out and the CPU compares what the NPU left, unless a `fini` that `main()` does not look at has failed; no read under a running job, clean exit on every path, every call is one the library allows at that point and every step one of `RocketInterface`'s, ends |
| `plan` | 6-bit shorts, all m and k | the buffer plan accepts only what fits and refuses only what does not |
| `regcmd` | 2 jobs of any generator and small program; least and greatest dimensions | see below |
| `layout` | one and several groups, blocks and planes | every element has its own place in the buffer; no holes |
| `client_verdict`, `client_address`, `cbuf_weights`, `mesa_disable`, `mesa_stride`, `minimal` | expected violations | see below |

`regcmd` shows of the lists:

* `JobInRegisters`: when an rk3588 job starts, CNA, CORE and DPU hold one and
  the same multiplication, the one of the call, read with Mesa's fields;
* `NothingStale`: none of its configuration registers is left over from a job
  before, whichever generator that used;
* `ReservedClear`: no number reaches beyond its field into bits the header
  reserves (the negative surface stride included);
* `RegistersExist`: every command names a register its unit has; excepted are two
  registers `npu_hw.h` itself marks as unknown, and Mesa's DPU registers (it
  holds as long as no stride is a negative int, see `mesa_stride`);
* `CnaConfigured`: the CNA holds the cube, the kernels and the input's address of
  the call when Mesa's list enables it, and when the full list ends;
* `RepeatsAgree`: a configuration register that a list writes twice gets the
  same value twice.

**Bounds.** Two BOs are enough for one to take the number another has dropped,
and handles and addresses are as few as BOs so that they are reused at once; one
object more lets a job hold one that no BO has. 2^32 is scaled to 4, with one
size below and one above it. `live` has no symmetry. `client` is the program itself, not a bounded version
of it. `plan` keeps the code's proportions (a bank is half of what a short
holds, an int is two shorts) so that every wrap-around happens. `regcmd` has the code's own widths. Two jobs are enough: a register a
list does not write holds what one earlier job left, and the properties look at
one register at a time. The lists are straight-line code; m, k and n enter them
as numbers to be packed, which go wrong at the ends of their range or where a
bank fills (44 rows of 4096 fp16 fill 11 banks); 16384 channels are the most
that one fp16 kernel can have, and need all of the 14-bit field that holds one
less. TLC's integers end at 2^31 - 1, which stands for 2^32: no size of these
calls reaches it (`plan` has the wrap-around). Addresses are pages. No stride of
these calls is a negative int either (`StridesFit`, which TLC evaluates for
them): that begins with M * N = 2^30, and `mesa_stride` is such a call.
`minimal` is the program itself. The proofs do not depend on any of these.

**Fairness.** `HostFairness`: a thread inside a call goes on and its system
calls return, which is what the code relies on when it ignores the possibility
of a hanging ioctl; a timed prep ends by its timeout at the latest. There is no
fairness for starting calls: a program may stop making them. `NpuFairness` (a
job ends, by completing or by the driver giving up on it) is no part of any
specification: it is the premise of `UntimedPrepReturns` and `OrphansFreed`
alone, so a hung NPU is covered everywhere else. `Terminates` needs weak
fairness of `main()` alone. `NpuMatmul`, `CommandFetch` and `MinimalClient` are
about safety and assume none.

### Disagreements between code and documents

* `client_verdict`: "matmul verified!" is printed though the last column is
  never compared and, with the linked stub, only element 0 is looked at.
* `cbuf_weights`: "we fail if cbuf storage is exceeded ie M,K,N get too large";
  N, and the total size of the weights, are never compared with anything.
* `mesa_disable`: "Disable operations (signals completion)": the DPU's enable
  register has 17 bits, the 17th becomes bit 0 of the value, and the disabling
  command is the enabling one.
* `client_address`: a DMA address is "valid for the lifetime of the GEM handle";
  after a wait that timed out, `main()` closes the handles of the command BO and
  of the operands while the job goes on at their addresses. The storage itself
  outlives the handles (`ImplementsPool`): the job has listed it.
* `mesa_stride`: "Set output strides": `M * N * 2` as a negative int puts its
  sign into the target of the command, and the DPU does not get the stride.
* `minimal`: "NPU job completed successfully!" after a wait that waits for
  nothing, since the job lists no BO.

Seen while translating, and not the subject of a run: `rocket_open` says it
falls back to accel1 "if accel0 is used by another device", and does so only if
accel0 cannot be opened; `rocket_bo_map` "maps a buffer object", and only
returns the mapping made by create, NULL after `rocket_bo_unmap`; under "Sync
buffers to device" the matmul test program ignores a failing `rocket_bo_fini`
and submits all the same, and the NPU may then compute from what was in memory
before (this is the case that `NpuReadsWhatWasLaidOut` and `SeenIsWritten`
leave out); the README's register
sequence has 18 commands, 4 of them to disable (the list has 17 and 3);
`npu_matmul_mesa.c` writes the weights' address to 0x1074, which both headers
call `CNA_FC_CON2`, and takes 1 for fp16 where the other generators take 2;
`minimal_npu_test.c` disables with a command that names no unit;
`npu_matmul_full.c` sends the read DMA's registers to the DPU.

## What is proved

`RocketInterfaceProofs`, for every set of BOs, handles, objects, addresses and
jobs, every size and every width of the size field (`ObjsAssumption`,
`DmasAssumption`, `U32Assumption`, `SizesAssumption`, `NullAssumption`): type
correctness, all four safety invariants of `core`, and `LibraryImplementsPool`,
the refinement of `BufferPool`.

*The argument.* `BosOwnStorage` is not inductive: that a handle stands for the
BO's own object survives another BO's `GemClose` only because no two BOs hold
one handle, and survives a new allocation only because every open handle belongs
to some BO. So the inductive invariant `IInv` joins the parts: what the fields
hold at each stage (`FieldsOK`), `BosOwnStorage` itself, one holder per handle,
one handle per object and per DMA address and one BO per mapping, `NoLeak`,
`MappingFits`, nothing referenced for a job slot that is free (`JobsOK`), and no
job that has the object of a BO still being created (`FreshUnpinned`). Each
action is shown to preserve each part it can disturb. For the refinement, `ListedObjects` turns the
handles a submit lists into the objects the BOs own, and `NextPool` maps each
system call to a step of the pool or a stutter.

`NpuMatmulProofs`, for every width, buffer size and dimension: `PlanTypes`,
`PlansFit`, `NoBankIsSpare`, `RefusalsHaveCause`. The point is wrap-around: `m * k * elem` is
computed in 32 bits before anything is checked. A kernel that passes the second
check is at most a bank, so the product is at most (2^16 - 1) * 2^15, below
2^32; `WidthsAssumption` states just that. Hence in an accepted plan the
computed sizes are the true ones.

`RegcmdWordsProofs`, for every set of bits: `HardwareGetsItsParts` (what
`NPUOP` joins, the command fetch takes apart again, each part cut to its width),
`SeventeenthBitSetsValue` (what becomes of `MESA_REGCMD` with a register
number of 17 bits: no even value can be written to such a register) and
`NegativeTakesTarget` (what becomes of it with a negative int: the target is
0xFFFF, whatever it was to be). The
argument is one lemma, `PartsApart`: three words that fit their places occupy
bits 48 to 63, 16 to 47 and 0 to 15, so a bit of the joint word belongs to one.
The second theorem moves bit 16 of the register number to the value first; the
third looks at bits 32 to 47 of the converted int, which are its sign.

`MatmulClientProofs`, for every set of handles, objects, addresses, jobs and
sizes, given that the program has four BOs (`ProgramBos`, `DistinctBos`):

* `ProgramKeepsContract`: every step of the program, seen through the library's
  variables, is a step of `RocketInterface`. So everything proved of the library
  is true of the program (`LibraryPromisesHold`), and `CallsAreAllowed` says
  which call each place of `main()` makes and why it is allowed there;
* `NpuReadsLaidOut` and `ComparesWhatNpuLeft`: the caches hide nothing, in
  either direction, whenever they evict or load, of a BO of which
  `rocket_bo_fini` has not failed;
* `NoReadUnderJob`, `ExitIsClean`, `ClientTypes`.

*The argument.* `Counts` (how far the ladder of creations and the `fini` calls
have got) is inductive alone, and enough for each step to be one of the
library's: the only condition of `Next` that `Main` does not repeat is that the
BO named is one of the program's. With that, `IInv` of the library holds, and
the rest of `ClientInv` may use it. `StagesOK` says which BOs are live at each
place: those made are a prefix of `CreationOrder`, so a label that destroys the
last one finds it live, and at `made = 0` no handle or mapping is left (here
`NoLeak` is what turns "no BO is live" into "no handle is open"). `JobAt` ties
the job to `pc`: there is none before the submit, and while `main()` waits, it
lists the output as written, so a wait that returns has seen it end. `CachesOK`
is why `SeenIsWritten` holds: from the submit on nothing of which `fini` has
succeeded is dirty, so no eviction can put a cleared output over the result, and
a prefetch can load only what `prep` drops again; it needs `fini` for the output
as well as for the operands. `NpuReadsWhatWasLaidOut` is a part of it: what was
synced is in memory as laid out, and what is destroyed is not created again
while the job may still look for it (`NotHeldAgain`).

`TensorLayoutProofs`, for every number of rows and columns that `main()` lets
through (`LoopsAssumption`, `MultiplesAssumption`): `PlaceInBuffer`,
`PlacesDiffer` and `PlacesFill`, that is, each layout function maps the elements
of a matrix one-to-one onto its buffer; and of the loops `StaysInBuffer`,
`OverwritesNothing`, `LeavesNoPadding`.

*The argument.* A place is a number of three digits to a mixed base: block (or
plane), group in it, rest (`PlaceDigits`); the digits stay below their bases
(`DigitRanges`), the bases multiply up to rows times columns because the
dimensions are multiples (`BlocksFill`), numbers of such digits are all the
numbers below that product, once each (`DigitsUnique`, `DigitsExist`), and the
three digits determine row and column and the other way round. The loops'
`LayoutInv` says that the elements visited are in their places and nothing else
is in the buffer. That the multiples are needed is a theorem too:
`PartialGroupLeavesBuffer` says that `weight_int8` places the last element
outside the buffer for *every* N that is no multiple of 32 (K above 32).

`CommandFetchProofs`, resting on `RegcmdWordsProofs`, `RegisterMapProofs` and
`CommandListProofs`, for every address of 32 bits, every number of jobs, and
every sequence of lists of all generators and programs. With it every invariant
and action property of `regcmd` is proved:

* `JobArrives`: when an rk3588 job starts, the three units hold the
  multiplication of its call (`JobInRegisters`);
* `CubeArrives`: when Mesa's list enables the CNA, and when the full list ends,
  the CNA holds the cube, the kernels and the input's address
  (`CnaConfigured`);
* `NothingIsStale`: no configuration register of an rk3588 job's units is left
  over from a job before (`NothingStale`);
* `RepeatedWordsAgree`: a list that writes a register twice writes the same
  value (`RepeatsAgree`);
* `CommandsReach`: commands go to units that have the register
  (`RegistersExist`), if no stride of Mesa's is a negative int;
* `ReservedBitsClear`: no number of an rk3588 list gets into reserved bits
  (`ReservedClear`).

Three hypotheses beyond the constants' assumptions. `JobArrives` and `CubeArrives`
need `SizesFit`: the code's own widths and buffer, and the sizes that the fields
can hold, m up to 1022 (FEATURE_GRAINS holds m + 1 in 10 bits), k up to 16384, n
up to 8192 (the fields hold k - 1 in 14 and n - 1 in 13 bits). `main()` lets
through less, and TLC evaluates `SizesFit` for the constants of `regcmd`.
`ReservedBitsClear` needs that k is not 0, which the test program refuses
(`tests/matmul_fp16_rocket.c:72`): k - 1 would be all ones, and set the two bits
of CNA_DATA_SIZE1 above its 14-bit field, since `npu_matmul.c` takes the field
to have 16. It holds for every m and n, and does not need `SizesFit`.
`CommandsReach` needs `StridesFit`, m * n < 2^30: beyond it the theorem is false
of the code, as `NegativeTakesTarget` says in general and `mesa_stride` shows.
The other theorems need none of the three: a command that has lost its target
names no register of the header, so it says nothing (`LongIntSays`), and an int
of the full list arrives, or has lost its target likewise (`EmitIntSays`).

*The argument.* The properties look at one moment of a list, or at the step that
writes a register again, so none is inductive. `FetchInv` is: every register the
fetched part of the list names is in `fresh`; a register in `fresh` holds the
value of *some* command of that part that names it; and what is in `file` of the
three units' known registers, from whatever list, is one of the registers that
configure a job (`Config`) or an enable. This leaves open which command, and
what the jobs before have left, and it is enough because of what the lists are.

`CommandListProofs` gives each list a table of words, one for each configuration
register (`JobWord`): the list *says* the table (`AllSay`, `ListsSay`) if each
of its commands names a register with its word in the table, or an enable, or
nothing that the header knows. Tables make joined lists easy (`SayJoined`), and
from one table per list follow

* `RepeatsAgree` at once: two commands of one list that name a register have the
  value of the table (`SaidOnce`);
* the third part of `FetchInv`, whichever list is fetched (`SaidInConfig`);
* `FreshHold`: a fresh register holds its word.

An rk3588 list moreover names every register of `Config` (`TaskCovers`,
`ConfigFresh`), hence `NothingStale`, and in `JobArrives` each of the registers
it reads is fresh and holds the word of the call. In `CubeArrives` it is Mesa's
first seven commands, before the one that enables the CNA (`MesaSendsCube`), and
the full list's (`FullSendsCube`), that make the four registers of the cube
fresh.

The commands are built with numbers and units of `npu_hw.h`, or of Mesa's macro;
that each lands where `mesa_registers.h` has the register is `SentLands` and
`MesaLands`, which need that the two headers agree on the numbers
(`NumbersAgree`), that no two registers share one (`NumbersDiffer`) and that
`rkt_get_target` finds the unit (`ConfigTargets`). Mesa's commands for the DPU
have 17-bit numbers, and `DpuIsLong` says where they end up: at four keys that
the header has not. `Reaches` follows for every list but the full one
(`ListsSay`), for Mesa's if both strides are positive (`StridesArePositive`).

What is read back from a field is the number shifted into it, by its bits and
its mask (`ReadBack`), provided the number is below the power of two of the
field (`Fits`): these are the bounds of `SizesFit`. They bound the sizes of
kernels and weights too (`Products`), so that no product wraps around, and the
check of the data leaves at most eleven banks to the input, so that both shares
fit their 4 bits (`CallNumbers`). For `ReservedClear` the numbers do not
matter, but for k: each word is a union of parts (`SentClear`), each part is
masked by `npu_matmul.c` to a width that lies in fields of the header
(`ClearPart`), and only k - 1, masked to 16 bits for a field of 14, lies there
because it is small (`LastChannel`).

**Only model-checked.** The liveness properties (`TimedCallsReturn`,
`UntimedPrepReturns` and `OrphansFreed` in `live`, `Terminates` in `client`):
fairness and ENABLED are beyond the prover. The six runs that expect a
violation, `MinimalClient`'s among them, leave nothing to prove. That
the compiled generators write the lists of the modules was compared, not proved.

## Not modelled

The driver's scheduling, IOMMU and reset, and what the NPU does with its
registers once they are written (not in the repository); so nothing is said of
the values on which the generators disagree, nor of registers the linked
generator never writes. Registers no generator writes are in `RegisterMap` only
by number. How many bits a DMA address has, and so what the cut to the 32-bit
`regcmd` field may lose. The stubs of `npu_matmul_full.c`. Messages, and which errno a failure
returns. The kernel patch and the build.

## Plan

Done: the library core with its refinement and proofs; the matmul client and
its proofs; the rk3588 plan with proofs; the layout loops with proofs; the
command lists of all generators and programs on the NPU's registers, with
proofs of all their properties; the small programs.

Left: two programs on one context, composed with `MatmulClient`'s caches.
