---------------------------- MODULE TensorLayout ----------------------------
(***************************************************************************)
(* feature_data, weight_fp16 and weight_int8 of src/src/npu_matmul.c: the  *)
(* place of a matrix element in the order the NPU stores tensors, and the  *)
(* loops of tests/matmul_fp16_rocket.c that go through a matrix row by row *)
(* and lay it out, or look it up, with them.                               *)
(*                                                                         *)
(* A buffer slot holds the number of the element stored to it, 0 after     *)
(* memset.  No program in the repository lays out int8 weights: "weights8" *)
(* runs the loop of the fp16 weights with weight_int8.                     *)
(***************************************************************************)
EXTENDS Integers

CONSTANT Loops      \* the loops: [tensor, rows, cols]

VARIABLES loop, row, col,     \* the loop that runs, and its counters
          buf                 \* contents of the buffer

vars == <<loop, row, col, buf>>

Tensors == {"weights", "weights8", "input", "output"}

ASSUME LoopsAssumption == \A l \in Loops : l.tensor \in Tensors /\ {l.rows, l.cols} \subseteq Nat \ {0}

(* What main() lets through: K a multiple of 32, N of 16.  Groups of 32    *)
(* int8 kernels take a multiple of 32, which no code asks for.             *)
Multiples == [weights |-> [rows |-> 16, cols |-> 32], weights8 |-> [rows |-> 32, cols |-> 32],
              input |-> [rows |-> 1, cols |-> 32], output |-> [rows |-> 1, cols |-> 16]]

ASSUME MultiplesAssumption ==
  \A l \in Loops : LET by == Multiples[l.tensor] IN l.rows % by.rows = 0 /\ l.cols % by.cols = 0

-----------------------------------------------------------------------------
(* Element (c, h, w) of a feature map of C x H x W, stored in planes of C2 *)
(* channels.                                                               *)
feature_data_plane(C, H, W, C2, c, h, w) ==      \* mutant: planes of W * C2
  ((c - 1) \div C2) * W * C2 + C2 * ((h - 1) * W + (w - 1)) + ((c - 1) % C2)

feature_data(C, H, W, C2, c, h, w) ==
  ((c - 1) \div C2) * H * W * C2 + C2 * ((h - 1) * W + (w - 1)) + ((c - 1) % C2)

(* Channel c of kernel k, of C channels: groups of 16 kernels, in each of  *)
(* them blocks of 32 channels.                                             *)
weight_fp16_group(C, k, c) ==                    \* mutant: the groups of weight_int8
  ((c - 1) \div 32) * 32 * 16 + ((k - 1) \div 16) * 32 * C + ((c - 1) % 32) + ((k - 1) % 16) * 32

weight_fp16(C, k, c) ==
  ((c - 1) \div 32) * 32 * 16 + ((k - 1) \div 16) * 16 * C + ((c - 1) % 32) + ((k - 1) % 16) * 32

(* The same in groups of 32 kernels.                                       *)
weight_int8(C, k, c) ==
  ((c - 1) \div 32) * 32 * 32 + ((k - 1) \div 32) * 32 * C + ((c - 1) % 32) + ((k - 1) % 32) * 32

Place(l, r, c) ==
  CASE l.tensor = "weights"  -> weight_fp16(l.cols, r, c)
    [] l.tensor = "weights8" -> weight_int8(l.cols, r, c)
    [] l.tensor = "input"    -> feature_data(l.cols, l.rows, 1, 8, c, r, 1)
    [] l.tensor = "output"   -> feature_data(l.cols, l.rows, 1, 4, c, r, 1)

Number(l, r, c) == (r - 1) * l.cols + c

-----------------------------------------------------------------------------
Init ==
  /\ loop \in Loops
  /\ row = 1 /\ col = 1
  /\ buf = [i \in 0 .. loop.rows * loop.cols - 1 |-> 0]

Running == row <= loop.rows

LastColUnread(l) == l.cols - 1       \* mutant: n < N in the layout loops too

(* The comparison loop reads the output's columns n < N only.              *)
LastCol(l) == IF l.tensor = "output" THEN l.cols - 1 ELSE l.cols

(* One turn of the inner loop.  The output is looked up, not stored to:    *)
(* buf says then which element was looked for where.                       *)
Turn ==
  /\ Running
  /\ buf' = [buf EXCEPT ![Place(loop, row, col)] = Number(loop, row, col)]
  /\ col' = IF col < LastCol(loop) THEN col + 1 ELSE 1
  /\ row' = IF col < LastCol(loop) THEN row ELSE row + 1
  /\ UNCHANGED loop

Spec == Init /\ [][Turn]_vars

-----------------------------------------------------------------------------
(* No element is stored, or looked up, outside the buffer that main() has  *)
(* allocated for the matrix.                                               *)
InBuffer == Running => Place(loop, row, col) \in DOMAIN buf

(* No two elements of a matrix share a place: what a turn of the loop has  *)
(* stored, no later turn overwrites.                                       *)
NothingOverwritten == [][\A i \in DOMAIN buf : buf[i] # 0 => buf'[i] = buf[i]]_vars

(* When a matrix has been laid out, every slot of its buffer, all of which *)
(* the NPU reads, holds an element of it: the dimensions main() lets       *)
(* through leave no padding and the loops leave no element out.            *)
NoPadding == ~Running /\ loop.tensor # "output" => \A i \in DOMAIN buf : buf[i] # 0
=============================================================================
