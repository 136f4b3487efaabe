--------------------------- MODULE MCTensorLayout ---------------------------
(***************************************************************************)
(* Dimensions with one and with several groups of kernels, blocks of       *)
(* channels and planes of features.                                        *)
(***************************************************************************)
EXTENDS TensorLayout

MCLoops ==
  [tensor : {"weights"}, rows : {16, 32}, cols : {32, 64}]
  \cup [tensor : {"weights8"}, rows : {32}, cols : {32, 64}]
  \cup [tensor : {"weights8"}, rows : {64}, cols : {32}]
  \cup [tensor : {"input"}, rows : {1, 4, 8}, cols : {32, 64}]
  \cup [tensor : {"output"}, rows : {1, 4, 8}, cols : {16, 48}]
=============================================================================
