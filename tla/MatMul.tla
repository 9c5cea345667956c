------------------------------- MODULE MatMul -------------------------------
(***************************************************************************)
(* What the matrix kernels promise: the loop nest with which the host      *)
(* verifies them (option -V, matrix.cpp).  Every cell of the output is the *)
(* dot product of a row of A and a column of B, its terms added in the     *)
(* order of k.                                                             *)
(*                                                                         *)
(* No property depends on what the matrices contain, only on which element *)
(* is multiplied with which and in what order the products are added.  So  *)
(* a value read from a buffer is the index it was read from, and a sum is  *)
(* the sequence of the pairs it adds up.  Buffers are flat, as in the code.*)
(***************************************************************************)
EXTENDS Integers, Sequences

CONSTANTS
  W,      \* dataSizeW: columns of B and of the output
  H,      \* dataSizeH: rows of A and of the output
  M,      \* dataSizeM: columns of A, rows of B
  Unset   \* the contents of memory nobody has written

VARIABLE output \* the output buffer

Cell == 0 .. W * H - 1

\* tmpA[i * M + k] * tmpB[k * W + j] for k = 0, 1, ..., n - 1.
DotPrefix(i, j, n) == [k \in 1 .. n |-> <<i * M + (k - 1), (k - 1) * W + j>>]

Dot(c) == DotPrefix(c \div W, c % W, M)

MInit == output = [c \in Cell |-> Unset]

\* The cells may be computed in any order, and each only once.
Compute(c) ==
  /\ output[c] = Unset
  /\ output' = [output EXCEPT ![c] = Dot(c)]

MNext == \E c \in Cell : Compute(c)

MSpec == MInit /\ [][MNext]_output
=============================================================================
